--------------------------- MODULE SettlementProofs ---------------------------
(***************************************************************************)
(* The override that decides an order was replaced by none, for any number *)
(* of reviewers, orders and overrides, and whatever the evaluation shows.  *)
(*                                                                         *)
(* Two reviewers can read the same last override and both replace it.  The *)
(* argument does not need them apart: whoever appends took the time after  *)
(* reading, so that an entry is later than the one it replaces; the entry  *)
(* that decides is the latest of its order, hence replaced by none.        *)
(*                                                                         *)
(* And what the READY settlements of a workspace contain, for any sheets,  *)
(* orders and overrides: no order of a blocked identity, none twice, and   *)
(* each with an amount and a decision, so that the totals add up to the    *)
(* gross, and a money chain that gives the sales back exactly, although    *)
(* each of its lines is rounded.  The last needs a theory of the decimals, *)
(* for every precision of the context: what a rounding keeps, that a sum   *)
(* undoes a difference when one digit is to spare, and that no line of the *)
(* chain is longer than the sales.                                         *)
(***************************************************************************)
EXTENDS Settlement, FiniteSetTheorems, NaturalsInduction, WellFoundedInduction, TLAPS

\* the table is a sequence; what its entries hold does not matter
Listed == \E S : overrides \in Seq(S)

\* an entry was stamped in the past, and after the one it replaces
EntryInv(i) ==
    /\ overrides[i].at \in Nat /\ overrides[i].at < clock
    /\ overrides[i].supersedes # 0 =>
          /\ overrides[i].supersedes \in DOMAIN overrides
          /\ overrides[overrides[i].supersedes].at < overrides[i].at

\* an order with overrides has a latest one
HasLatest(o) ==
    History(overrides, o) # {} =>
        \E i \in History(overrides, o) :
            \A j \in History(overrides, o) : overrides[j].at <= overrides[i].at

IsDialog(d) ==
    d = [step |-> d.step, order |-> d.order, rid |-> d.rid, system |-> d.system,
         new |-> d.new, last |-> d.last, at |-> d.at]

\* what a reviewer read is still there, and was stamped before the dialog was
DialogInv(d) ==
    /\ IsDialog(d)
    /\ d.step \in {"read", "stamped"} => d.last = 0 \/ d.last \in DOMAIN overrides
    /\ d.step = "stamped" =>
          /\ d.at \in Nat /\ d.at < clock
          /\ d.last # 0 => overrides[d.last].at < d.at

OverridesInv ==
    /\ Listed /\ clock \in Nat
    /\ \A i \in DOMAIN overrides : EntryInv(i)
    /\ \A o : HasLatest(o)
    /\ DOMAIN dialog = Reviewers /\ dialog = [r \in Reviewers |-> dialog[r]]
    /\ \A r \in Reviewers : DialogInv(dialog[r])

----------------------------------------------------------------------------
(* What appending an entry does to the ones before it. *)
LEMMA AppendKeeps ==
    ASSUME NEW S, NEW old \in Seq(S), NEW new
    PROVE  /\ \E T : Append(old, new) \in Seq(T)
           /\ DOMAIN old = 1 .. Len(old) /\ Len(old) \in Nat
           /\ DOMAIN Append(old, new) = DOMAIN old \cup {Len(old) + 1}
           /\ \A i \in DOMAIN old : Append(old, new)[i] = old[i]
           /\ Append(old, new)[Len(old) + 1] = new
<1>1. old \in Seq(S \cup {new}) /\ new \in S \cup {new}
    OBVIOUS
<1>2. Append(old, new) \in Seq(S \cup {new})
    BY <1>1
<1>3. \E T : Append(old, new) \in Seq(T)
    BY <1>2
<1> QED  BY <1>1, <1>3

(* Deciding picks the latest override of the order. *)
LEMMA DecidingIsLatest ==
    ASSUME NEW o, HasLatest(o)
    PROVE  IF History(overrides, o) = {} THEN Deciding(overrides, o) = 0
           ELSE /\ Deciding(overrides, o) \in History(overrides, o)
                /\ \A j \in History(overrides, o) :
                      overrides[j].at <= overrides[Deciding(overrides, o)].at
    BY DEF HasLatest, Deciding

(* The table as it was has the latest entries it had. *)
LEMMA SameTable ==
    ASSUME OverridesInv, UNCHANGED overrides, clock' \in Nat, clock <= clock'
    PROVE  Listed' /\ (\A i \in DOMAIN overrides' : EntryInv(i)') /\ \A o : HasLatest(o)'
<1>1. Listed'
    BY DEF OverridesInv, Listed
<1>2. ASSUME NEW i \in DOMAIN overrides' PROVE EntryInv(i)'
    BY <1>2 DEF OverridesInv, EntryInv
<1>3. ASSUME NEW o PROVE HasLatest(o)'
    <2>1. HasLatest(o)
        BY DEF OverridesInv
    <2>2. History(overrides, o)' = History(overrides, o)
        OBVIOUS
    <2> QED  BY <2>1, <2>2 DEF HasLatest
<1> QED  BY <1>1, <1>2, <1>3

(* A step of one dialog that leaves the table alone. *)
LEMMA DialogStep ==
    ASSUME OverridesInv, UNCHANGED overrides, clock' \in Nat, clock <= clock',
           NEW r \in Reviewers, NEW d, DialogInv(d)', dialog' = [dialog EXCEPT ![r] = d]
    PROVE  OverridesInv'
<1>1. Listed' /\ (\A i \in DOMAIN overrides' : EntryInv(i)') /\ \A o : HasLatest(o)'
    BY SameTable
<1>3. /\ DOMAIN dialog' = Reviewers /\ dialog' = [t \in Reviewers |-> dialog'[t]]
      /\ dialog'[r] = d /\ \A t \in Reviewers \ {r} : dialog'[t] = dialog[t]
    BY DEF OverridesInv
<1>4. ASSUME NEW t \in Reviewers PROVE DialogInv(dialog[t])'
    <2>1. CASE t = r
        BY <1>3, <2>1 DEF DialogInv, IsDialog
    <2>2. CASE t # r
        BY <1>3, <2>2 DEF OverridesInv, DialogInv, IsDialog
    <2> QED  BY <2>1, <2>2
<1> QED  BY <1>1, <1>3, <1>4 DEF OverridesInv

LEMMA NothingOfIt ==
    ASSUME OverridesInv, UNCHANGED <<overrides, clock, dialog>>
    PROVE  OverridesInv'
<1>1. Listed' /\ (\A i \in DOMAIN overrides' : EntryInv(i)') /\ \A o : HasLatest(o)'
    <2>1. clock' \in Nat /\ clock <= clock'
        BY DEF OverridesInv
    <2> QED  BY <2>1, SameTable
<1>2. \A r \in Reviewers : DialogInv(dialog[r])'
    BY DEF OverridesInv, DialogInv, IsDialog
<1> QED  BY <1>1, <1>2 DEF OverridesInv

LEMMA ClosedDialog == ASSUME OverridesInv PROVE DialogInv(NoDialog)'
    BY DEF DialogInv, IsDialog, NoDialog

----------------------------------------------------------------------------
LEMMA InitInv == Init => OverridesInv
<1> SUFFICES ASSUME Init PROVE OverridesInv
    OBVIOUS
<1>1. overrides = <<>> /\ clock = 1 /\ dialog = [r \in Reviewers |-> NoDialog]
    BY DEF Init
<1>2. overrides \in Seq({}) /\ DOMAIN overrides = {}
    BY <1>1
<1>3. Listed
    BY <1>2 DEF Listed
<1>4. \A o : HasLatest(o)
    BY <1>2 DEF HasLatest, History
<1>5. \A r \in Reviewers : DialogInv(dialog[r])
    BY <1>1 DEF DialogInv, IsDialog, NoDialog
<1> QED  BY <1>1, <1>2, <1>3, <1>4, <1>5 DEF OverridesInv

LEMMA OpenDialogKeeps ==
    ASSUME OverridesInv, NEW r \in Reviewers, OpenDialog(r)
    PROVE  OverridesInv'
<1>1. PICK o \in DOMAIN cache.summary.orders, new \in ReviewChoices :
          dialog' = [dialog EXCEPT ![r] =
              [step |-> "confirmed", order |-> o, rid |-> cache.summary.orders[o].rid,
               system |-> cache.summary.orders[o].system, new |-> new, last |-> 0, at |-> 0]]
    BY Zenon DEF OpenDialog
<1>2. PICK rid, system : rid = cache.summary.orders[o].rid
                         /\ system = cache.summary.orders[o].system
    OBVIOUS
<1>3. PICK e : e = [step |-> "confirmed", order |-> o, rid |-> rid, system |-> system,
                    new |-> new, last |-> 0, at |-> 0]
    OBVIOUS
<1>4. DialogInv(e)'
    BY <1>3 DEF DialogInv, IsDialog
<1>5. UNCHANGED <<overrides, clock>> /\ clock' \in Nat /\ clock <= clock'
    BY DEF OpenDialog, OverridesInv
<1>6. dialog' = [dialog EXCEPT ![r] = e]
    BY <1>1, <1>2, <1>3
<1> QED  BY <1>4, <1>5, <1>6, DialogStep

LEMMA CloseDialogKeeps ==
    ASSUME OverridesInv, NEW r \in Reviewers, CloseDialog(r)
    PROVE  OverridesInv'
<1>1. UNCHANGED <<overrides, clock>> /\ clock' \in Nat /\ clock <= clock'
      /\ dialog' = [dialog EXCEPT ![r] = NoDialog]
    BY DEF CloseDialog, OverridesInv
<1>2. PICK e : e = NoDialog
    OBVIOUS
<1> QED  BY <1>1, <1>2, ClosedDialog, DialogStep

LEMMA CheckLockKeeps ==
    ASSUME OverridesInv, NEW r \in Reviewers, CheckLock(r)
    PROVE  OverridesInv'
<1> DEFINE d == IF locked THEN NoDialog ELSE [dialog[r] EXCEPT !.step = "unlocked"]
<1>1. /\ UNCHANGED <<overrides, clock>> /\ clock' \in Nat /\ clock <= clock'
      /\ dialog' = [dialog EXCEPT ![r] = d]
    BY DEF CheckLock, OverridesInv
<1>2. PICK e : e = d
    OBVIOUS
<1>3. IsDialog(dialog[r])
    BY DEF OverridesInv, DialogInv
<1>4. DialogInv(e)'
    BY <1>2, <1>3 DEF DialogInv, IsDialog, NoDialog
<1>5. dialog' = [dialog EXCEPT ![r] = e]
    BY <1>1, <1>2
<1> QED  BY <1>1, <1>4, <1>5, DialogStep

(* The history read is the deciding override of this moment. *)
LEMMA ReadHistoryKeeps ==
    ASSUME OverridesInv, NEW r \in Reviewers, ReadHistory(r)
    PROVE  OverridesInv'
<1> DEFINE last == Deciding(overrides, dialog[r].order)
           d == [[dialog[r] EXCEPT !.step = "read"] EXCEPT !.last = last]
<1>1. UNCHANGED <<overrides, clock>> /\ clock' \in Nat /\ clock <= clock'
    BY DEF ReadHistory, OverridesInv
<1>2. dialog' = [dialog EXCEPT ![r] = d]
    BY DEF ReadHistory, OverridesInv
<1>3. last = 0 \/ last \in DOMAIN overrides
    BY DecidingIsLatest DEF OverridesInv, History
<1>4. PICK e : e = d
    OBVIOUS
<1>5. IsDialog(dialog[r])
    BY DEF OverridesInv, DialogInv
<1>6. PICK n : n = last
    OBVIOUS
<1> HIDE DEF last
<1>7. IsDialog(e) /\ e.step = "read" /\ e.last = n
    BY <1>4, <1>5, <1>6 DEF IsDialog
<1>8. DialogInv(e)'
    BY <1>1, <1>3, <1>6, <1>7 DEF DialogInv, IsDialog
<1>9. dialog' = [dialog EXCEPT ![r] = e]
    BY <1>2, <1>4
<1> QED  BY <1>1, <1>8, <1>9, DialogStep

(* The time is taken after the history was read. *)
LEMMA StampKeeps ==
    ASSUME OverridesInv, NEW r \in Reviewers, Stamp(r)
    PROVE  OverridesInv'
<1> DEFINE d == IF Previous(dialog[r]) = dialog[r].new THEN NoDialog
                ELSE [[dialog[r] EXCEPT !.step = "stamped"] EXCEPT !.at = clock]
<1>1. /\ UNCHANGED overrides /\ clock' = clock + 1 /\ clock \in Nat
      /\ clock' \in Nat /\ clock <= clock' /\ dialog[r].step = "read"
    BY DEF Stamp, OverridesInv
<1>2. dialog' = [dialog EXCEPT ![r] = d]
    BY DEF Stamp, OverridesInv
<1>3. PICK e : e = d
    OBVIOUS
<1>4. IsDialog(dialog[r]) /\ (dialog[r].last = 0 \/ dialog[r].last \in DOMAIN overrides)
    BY <1>1 DEF OverridesInv, DialogInv
<1>5. DialogInv(e)'
    <2>1. CASE Previous(dialog[r]) = dialog[r].new
        BY <1>3, <2>1, ClosedDialog DEF DialogInv, IsDialog, NoDialog
    <2>2. CASE Previous(dialog[r]) # dialog[r].new
        <3>1. e = [[dialog[r] EXCEPT !.step = "stamped"] EXCEPT !.at = clock]
            BY <1>3, <2>2
        <3>2. IsDialog(e) /\ e.step = "stamped" /\ e.at = clock /\ e.last = dialog[r].last
            BY <1>4, <3>1 DEF IsDialog
        <3>3. e.last # 0 => overrides[e.last].at \in Nat /\ overrides[e.last].at < clock
            BY <1>4, <3>2 DEF OverridesInv, EntryInv
        <3>4. /\ e.at \in Nat /\ e.at < clock' /\ (e.last = 0 \/ e.last \in DOMAIN overrides')
              /\ e.last # 0 => overrides'[e.last].at < e.at
            BY <1>1, <1>4, <3>2, <3>3
        <3> QED  BY <3>2, <3>4 DEF DialogInv, IsDialog
    <2> QED  BY <2>1, <2>2
<1>6. dialog' = [dialog EXCEPT ![r] = e]
    BY <1>2, <1>3
<1> QED  BY <1>1, <1>5, <1>6, DialogStep

(* The appended entry is later than the one it replaces, and the latest    *)
(* entry of its order is the one it was or the new one.                    *)
LEMMA SaveOverrideKeeps ==
    ASSUME OverridesInv, NEW r \in Reviewers, SaveOverride(r)
    PROVE  OverridesInv'
<1> DEFINE n == Len(overrides) + 1
<1>1. PICK d : d = dialog[r]
    OBVIOUS
<1>2. PICK new : new = [order |-> d.order, rid |-> d.rid, previous |-> Previous(d),
                        new |-> d.new, at |-> d.at, supersedes |-> d.last]
    OBVIOUS
<1>3. /\ d.step = "stamped" /\ overrides' = Append(overrides, new) /\ UNCHANGED clock
      /\ dialog' = [dialog EXCEPT ![r] = NoDialog]
    BY <1>1, <1>2 DEF SaveOverride
<1>4. /\ d.at \in Nat /\ d.at < clock /\ (d.last = 0 \/ d.last \in DOMAIN overrides)
      /\ d.last # 0 => overrides[d.last].at < d.at
    BY <1>1, <1>3 DEF OverridesInv, DialogInv
<1>5. PICK S : overrides \in Seq(S)
    BY DEF OverridesInv, Listed
<1>6. /\ \E T : overrides' \in Seq(T)
      /\ DOMAIN overrides = 1 .. Len(overrides) /\ Len(overrides) \in Nat
      /\ DOMAIN overrides' = DOMAIN overrides \cup {n}
      /\ \A i \in DOMAIN overrides : overrides'[i] = overrides[i]
      /\ overrides'[n] = new
    <2>1. PICK old : old = overrides
        OBVIOUS
    <2>2. overrides' = Append(old, new)
        BY <1>3, <2>1
    <2>3. /\ \E T : Append(old, new) \in Seq(T)
          /\ DOMAIN old = 1 .. Len(old) /\ Len(old) \in Nat
          /\ DOMAIN Append(old, new) = DOMAIN old \cup {Len(old) + 1}
          /\ \A i \in DOMAIN old : Append(old, new)[i] = old[i]
          /\ Append(old, new)[Len(old) + 1] = new
        <3>1. old \in Seq(S)
            BY <1>5, <2>1
        <3>2. \A list \in Seq(S) :
                 /\ \E T : Append(list, new) \in Seq(T)
                 /\ DOMAIN list = 1 .. Len(list) /\ Len(list) \in Nat
                 /\ DOMAIN Append(list, new) = DOMAIN list \cup {Len(list) + 1}
                 /\ \A i \in DOMAIN list : Append(list, new)[i] = list[i]
                 /\ Append(list, new)[Len(list) + 1] = new
            BY AppendKeeps
        <3> QED  BY <3>1, <3>2, Zenon
    <2> QED  BY <2>1, <2>2, <2>3, Zenon
<1>7. new.at = d.at /\ new.supersedes = d.last /\ new.order = d.order
    BY <1>2
<1>8. ASSUME NEW i \in DOMAIN overrides' PROVE EntryInv(i)'
    <2>1. CASE i \in DOMAIN overrides
        <3>1. EntryInv(i) /\ overrides'[i] = overrides[i]
            BY <1>6, <2>1 DEF OverridesInv
        <3> QED  BY <1>3, <1>6, <3>1 DEF EntryInv
    <2>2. CASE i \notin DOMAIN overrides
        <3>1. overrides'[i] = new
            BY <1>6, <2>2
        <3> QED  BY <1>3, <1>4, <1>6, <1>7, <3>1 DEF EntryInv
    <2> QED  BY <2>1, <2>2
<1>9. ASSUME NEW o PROVE HasLatest(o)'
    <2>1. /\ \A i \in History(overrides, o) : i \in DOMAIN overrides
          /\ HasLatest(o) /\ \A i \in DOMAIN overrides : overrides[i].at \in Nat
        BY DEF OverridesInv, History, EntryInv
    <2>2. CASE d.order # o
        <3>1. History(overrides, o)' = History(overrides, o)
            BY <1>6, <1>7, <2>2 DEF History
        <3> QED  BY <1>6, <2>1, <3>1 DEF HasLatest
    <2>3. CASE d.order = o /\ History(overrides, o) = {}
        <3>1. History(overrides, o)' = {n}
            BY <1>6, <1>7, <2>3 DEF History
        <3> QED  BY <1>4, <1>6, <1>7, <3>1 DEF HasLatest
    <2>4. CASE d.order = o /\ History(overrides, o) # {}
        <3>1. History(overrides, o)' = History(overrides, o) \cup {n}
            BY <1>6, <1>7, <2>4 DEF History
        <3>2. PICK i \in History(overrides, o) :
                  \A j \in History(overrides, o) : overrides[j].at <= overrides[i].at
            BY <2>1, <2>4 DEF HasLatest
        <3>3. \A j \in History(overrides, o) : overrides'[j].at = overrides[j].at
            BY <1>6, <2>1
        <3>4. CASE overrides[i].at <= d.at
            <4>1. \A j \in History(overrides, o) : overrides'[j].at <= overrides'[n].at
                BY <1>4, <1>6, <1>7, <2>1, <3>2, <3>3, <3>4
            <4>2. overrides'[n].at <= overrides'[n].at
                BY <1>4, <1>6, <1>7
            <4> QED  BY <3>1, <4>1, <4>2 DEF HasLatest
        <3>5. CASE d.at <= overrides[i].at
            <4>1. \A j \in History(overrides, o) : overrides'[j].at <= overrides'[i].at
                BY <3>2, <3>3
            <4>2. overrides'[n].at <= overrides'[i].at
                BY <1>6, <1>7, <3>2, <3>3, <3>5
            <4> QED  BY <3>1, <3>2, <4>1, <4>2 DEF HasLatest
        <3> QED  BY <1>4, <2>1, <3>2, <3>4, <3>5
    <2> QED  BY <2>2, <2>3, <2>4
<1>10. ASSUME NEW t \in Reviewers PROVE DialogInv(dialog[t])'
    <2>1. CASE t = r
        <3>1. dialog'[t] = NoDialog
            BY <1>3, <2>1 DEF OverridesInv
        <3> QED  BY <3>1 DEF DialogInv, IsDialog, NoDialog
    <2>2. CASE t # r
        <3>1. dialog'[t] = dialog[t] /\ DialogInv(dialog[t])
            BY <1>3, <2>2 DEF OverridesInv
        <3> QED  BY <1>3, <1>6, <3>1 DEF DialogInv, IsDialog
    <2> QED  BY <2>1, <2>2
<1>11. /\ DOMAIN dialog' = Reviewers /\ dialog' = [t \in Reviewers |-> dialog'[t]]
       /\ clock' \in Nat
    BY <1>3 DEF OverridesInv
<1> QED  BY <1>6, <1>8, <1>9, <1>10, <1>11 DEF OverridesInv, Listed

LEMMA NextKeeps == OverridesInv /\ [Next]_vars => OverridesInv'
<1> SUFFICES ASSUME OverridesInv, [Next]_vars PROVE OverridesInv'
    OBVIOUS
<1>1. ASSUME NEW e \in Evaluators, Evaluation(e) PROVE OverridesInv'
    <2>1. UNCHANGED <<overrides, clock, dialog>>
        BY <1>1 DEF Evaluation, ReadOrders, ReadIssues, ReadRegistry, ReadOverrides,
                    FinishEvaluation, AbortEvaluation
    <2> QED  BY <2>1, NothingOfIt
<1>2. ASSUME NEW r \in Reviewers, Review(r) PROVE OverridesInv'
    BY <1>2, OpenDialogKeeps, CloseDialogKeeps, CheckLockKeeps, ReadHistoryKeeps, StampKeeps,
       SaveOverrideKeeps DEF Review
<1>3. CASE ClearCache \/ SourceChanges \/ LockChanges \/ UNCHANGED vars
    <2>1. UNCHANGED <<overrides, clock, dialog>>
        BY <1>3 DEF ClearCache, SourceChanges, LockChanges, vars
    <2> QED  BY <2>1, NothingOfIt
<1> QED  BY <1>1, <1>2, <1>3 DEF Next

(***************************************************************************)
(* overrides.py: the override the evaluation picks by (created_at,         *)
(* override_id) is replaced by no other, whatever races in create.         *)
(***************************************************************************)
THEOREM DecidingStands == Spec => []DecidingOverrideStands
<1>1. Spec => []OverridesInv
    BY InitInv, NextKeeps, PTL DEF Spec
<1>2. OverridesInv => DecidingOverrideStands
    <2> SUFFICES ASSUME OverridesInv, NEW o \in Orders, NEW i \in DOMAIN overrides,
                        overrides[i].order = o, overrides[i].supersedes # 0
                 PROVE  overrides[i].supersedes # Deciding(overrides, o)
        BY DEF DecidingOverrideStands
    <2>1. i \in History(overrides, o) /\ HasLatest(o) /\ EntryInv(i)
        BY DEF History, OverridesInv
    <2>2. /\ Deciding(overrides, o) \in DOMAIN overrides
          /\ overrides[i].at <= overrides[Deciding(overrides, o)].at
        BY <2>1, DecidingIsLatest DEF History
    <2>3. overrides[Deciding(overrides, o)].at \in Nat
        BY <2>2 DEF OverridesInv, EntryInv
    <2> QED  BY <2>1, <2>2, <2>3 DEF EntryInv
<1> QED  BY <1>1, <1>2, PTL

----------------------------------------------------------------------------
(* What a READY settlement pays *)

SessionFields == {"step", "canonical", "invalid", "registry", "seen"}

\* a registry some sheets gave
FromSheets(registry) == \E s \in Sources : registry = Registry(s.scope, s.rst)

\* the workspace is one evaluation over such a registry
Evaluates(workspace) ==
    /\ FromSheets(workspace.registry)
    /\ \E canonical, invalid, log :
          workspace.summary = Evaluate(canonical, invalid, workspace.registry, log)

WorkspaceInv ==
    /\ source \in Sources
    /\ session = [e \in Evaluators |-> session[e]]
    /\ \A e \in Evaluators :
          /\ DOMAIN session[e] = SessionFields
          /\ session[e].step \in {"registry", "overrides"} => FromSheets(session[e].registry)
    /\ cache # None => Evaluates(cache)

LEMMA WorkspaceInit == Init => WorkspaceInv
<1> SUFFICES ASSUME Init PROVE WorkspaceInv
    OBVIOUS
<1>1. DOMAIN NoSession = SessionFields /\ NoSession.step = "idle"
    BY DEF NoSession, SessionFields
<1> QED  BY <1>1 DEF Init, WorkspaceInv

(* A step of one session. *)
LEMMA SessionMoves ==
    ASSUME WorkspaceInv, NEW e \in Evaluators, NEW s, session' = [session EXCEPT ![e] = s],
           DOMAIN s = SessionFields,
           s.step \in {"registry", "overrides"} => FromSheets(s.registry),
           source' = source, cache' # None => cache' = cache \/ Evaluates(cache')
    PROVE  WorkspaceInv'
<1>1. \A d \in Evaluators : session'[d] = IF d = e THEN s ELSE session[d]
    BY DEF WorkspaceInv
<1>2. session' = [d \in Evaluators |-> session'[d]]
    BY DEF WorkspaceInv
<1>3. \A d \in Evaluators :
          /\ DOMAIN session'[d] = SessionFields
          /\ session'[d].step \in {"registry", "overrides"} => FromSheets(session'[d].registry)
    BY <1>1 DEF WorkspaceInv
<1>4. cache' # None => Evaluates(cache')
    BY DEF WorkspaceInv
<1> QED  BY <1>2, <1>3, <1>4 DEF WorkspaceInv

LEMMA EvaluationKeeps ==
    ASSUME WorkspaceInv, NEW e \in Evaluators, Evaluation(e)
    PROVE  WorkspaceInv'
<1>0. DOMAIN session[e] = SessionFields /\ DOMAIN session = Evaluators
    BY DEF WorkspaceInv
<1>1. CASE ReadOrders(e)
    <2> DEFINE s == [[NoSession EXCEPT !.step = "orders"] EXCEPT !.canonical = source.canonical]
    <2>1. session' = [session EXCEPT ![e] = s] /\ UNCHANGED <<source, cache>>
        BY <1>1 DEF ReadOrders
    <2>2. PICK c : c = source.canonical
        OBVIOUS
    <2>3. DOMAIN s = SessionFields /\ s.step = "orders"
        BY <2>2 DEF NoSession, SessionFields
    <2> HIDE DEF s
    <2> QED  BY <2>1, <2>3, SessionMoves
<1>2. CASE ReadIssues(e)
    <2> DEFINE s == [[session[e] EXCEPT !.step = "issues"] EXCEPT !.invalid = source.invalid]
    <2>1. session' = [session EXCEPT ![e] = s] /\ UNCHANGED <<source, cache>>
        BY <1>0, <1>2 DEF ReadIssues
    <2>2. PICK c : c = source.invalid
        OBVIOUS
    <2>3. DOMAIN s = SessionFields /\ s.step = "issues"
        BY <1>0, <2>2 DEF SessionFields
    <2> HIDE DEF s
    <2> QED  BY <2>1, <2>3, SessionMoves
<1>3. CASE ReadRegistry(e)
    <2> DEFINE r == Registry(source.scope, source.rst)
               s == [[session[e] EXCEPT !.step = "registry"] EXCEPT !.registry = r]
    <2>1. session' = [session EXCEPT ![e] = s] /\ UNCHANGED <<source, cache>>
        BY <1>0, <1>3 DEF ReadRegistry
    <2>2. FromSheets(r)
        BY DEF FromSheets, WorkspaceInv
    <2> HIDE DEF r
    <2>3. DOMAIN s = SessionFields /\ s.registry = r
        BY <1>0 DEF SessionFields
    <2> HIDE DEF s
    <2> QED  BY <2>1, <2>2, <2>3, SessionMoves
<1>4. CASE ReadOverrides(e)
    <2> DEFINE n == Len(overrides)
               s == [[session[e] EXCEPT !.step = "overrides"] EXCEPT !.seen = n]
    <2>1. session' = [session EXCEPT ![e] = s] /\ UNCHANGED <<source, cache>>
        BY <1>0, <1>4 DEF ReadOverrides
    <2>2. FromSheets(session[e].registry)
        BY <1>4 DEF ReadOverrides, WorkspaceInv
    <2> HIDE DEF n
    <2>3. DOMAIN s = SessionFields /\ s.registry = session[e].registry
        BY <1>0 DEF SessionFields
    <2> HIDE DEF s
    <2> QED  BY <2>1, <2>2, <2>3, SessionMoves
<1>5. CASE FinishEvaluation(e)
    <2> DEFINE s == session[e]
               log == SubSeq(overrides, 1, s.seen)
               summary == Evaluate(s.canonical, s.invalid, s.registry, log)
               w == [seen |-> s.seen, registry |-> s.registry, summary |-> summary]
    <2>1. (cache' = cache \/ cache' = w) /\ UNCHANGED source
          /\ session' = [session EXCEPT ![e] = NoSession] /\ s.step = "overrides"
        BY <1>5 DEF FinishEvaluation
    <2>2. FromSheets(s.registry)
        BY <2>1 DEF WorkspaceInv
    <2>3. \E canonical, invalid, l : summary = Evaluate(canonical, invalid, s.registry, l)
        BY Zenon
    <2> HIDE DEF summary, s
    <2>4. w.registry = s.registry /\ w.summary = summary
        OBVIOUS
    <2> HIDE DEF w
    <2>5. Evaluates(w)
        BY <2>2, <2>3, <2>4 DEF Evaluates
    <2>6. DOMAIN NoSession = SessionFields /\ NoSession.step = "idle"
        BY DEF NoSession, SessionFields
    <2> QED  BY <2>1, <2>5, <2>6, SessionMoves
<1>6. CASE AbortEvaluation(e)
    <2>1. DOMAIN NoSession = SessionFields /\ NoSession.step = "idle"
        BY DEF NoSession, SessionFields
    <2>2. session' = [session EXCEPT ![e] = NoSession] /\ UNCHANGED <<source, cache>>
        BY <1>6 DEF AbortEvaluation
    <2> QED  BY <2>1, <2>2, SessionMoves
<1> QED  BY <1>1, <1>2, <1>3, <1>4, <1>5, <1>6 DEF Evaluation

LEMMA WorkspaceKeeps == WorkspaceInv /\ [Next]_vars => WorkspaceInv'
<1> SUFFICES ASSUME WorkspaceInv, [Next]_vars PROVE WorkspaceInv'
    OBVIOUS
<1>1. ASSUME NEW r \in Reviewers, Review(r) PROVE WorkspaceInv'
    <2>1. UNCHANGED <<source, session>> /\ (cache' = cache \/ cache' = None)
        BY <1>1 DEF Review, OpenDialog, CloseDialog, CheckLock, ReadHistory, Stamp, SaveOverride
    <2> QED  BY <2>1 DEF WorkspaceInv
<1>2. CASE ClearCache \/ LockChanges \/ UNCHANGED vars
    <2>1. UNCHANGED <<source, session>> /\ (cache' = cache \/ cache' = None)
        BY <1>2 DEF ClearCache, LockChanges, vars
    <2> QED  BY <2>1 DEF WorkspaceInv
<1>3. CASE SourceChanges
    <2>1. source' \in Sources /\ UNCHANGED <<session, cache>>
        BY <1>3, SettlementAssumption DEF SourceChanges
    <2> QED  BY <2>1 DEF WorkspaceInv
<1> QED  BY <1>1, <1>2, <1>3, EvaluationKeeps DEF Next

(* A sheet has finitely many rows, hence groups. *)
LEMMA FiniteRegistry ==
    ASSUME NEW registry, FromSheets(registry)
    PROVE  IsFiniteSet(DOMAIN registry)
<1>1. PICK s \in Sources : registry = Registry(s.scope, s.rst)
    BY DEF FromSheets
<1>2. PICK sheet : sheet = s.scope
    OBVIOUS
<1>3. sheet \in Seq(ScopeRows)
    BY <1>2, SettlementAssumption
<1>4. DOMAIN sheet = 1 .. Len(sheet) /\ Len(sheet) \in Nat
    BY <1>3
<1>5. IsFiniteSet(ActiveRows(sheet))
    <2>1. IsFiniteSet(1 .. Len(sheet))
        BY <1>4, FS_Interval
    <2>2. ActiveRows(sheet) \subseteq 1 .. Len(sheet)
        BY <1>4 DEF ActiveRows
    <2> QED  BY <2>1, <2>2, FS_Subset
<1>6. IsFiniteSet(ScopeGroups(sheet))
    <2> DEFINE rows == ActiveRows(sheet)
               key == [i \in rows |-> GroupKey(sheet[i])]
    <2>1. ScopeGroups(sheet) = {key[i] : i \in rows}
        BY DEF ScopeGroups
    <2>2. key \in Surjection(rows, {key[i] : i \in rows})
        BY DEF Surjection
    <2> QED  BY <1>5, <2>1, <2>2, FS_Surjection
<1>7. DOMAIN registry = ScopeGroups(sheet)
    BY <1>1, <1>2 DEF Registry
<1> QED  BY <1>6, <1>7

(* A settlement that is READY has orders, and no second entry has its id. *)
LEMMA ReadySettlement ==
    ASSUME NEW entry, NEW orders, NEW duplicates
    PROVE  LET s == RestaurantSettlement(entry, orders, duplicates)
           IN  /\ s.id = entry.id /\ s.orders = OrdersOf(orders, entry.id)
               /\ s.status = "READY" => /\ entry.id \notin duplicates
                                        /\ DOMAIN OrdersOf(orders, entry.id) # {}
<1> DEFINE mine == OrdersOf(orders, entry.id)
           issues == RateIssues(entry.scopeRate, entry.rstRate)
                     \cup (IF entry.id \in duplicates
                           THEN {"DUPLICATE_READY_RESTAURANT_ID"} ELSE {})
                     \cup UNION {mine[o].issues : o \in DOMAIN mine}
           s == RestaurantSettlement(entry, orders, duplicates)
<1>1. s.id = entry.id /\ s.orders = mine /\ s.status = SettlementStatus(mine, issues)
    BY Zenon DEF RestaurantSettlement
<1>2. entry.id \in duplicates => "DUPLICATE_READY_RESTAURANT_ID" \in issues
    OBVIOUS
<1>3. DataIssue("DUPLICATE_READY_RESTAURANT_ID")
    BY DEF DataIssue
<1> HIDE DEF mine, issues, s
<1>4. SettlementStatus(mine, issues) = "READY" =>
          DOMAIN mine # {} /\ \A c \in issues : ~DataIssue(c)
    BY DEF SettlementStatus
<1> QED  BY <1>1, <1>2, <1>3, <1>4 DEF mine, s

(* Of an entry that is READY: its orders are of its id, which is of no     *)
(* blocked entry, and of no second ready one.                              *)
LEMMA ReadyEntry ==
    ASSUME WorkspaceInv, NEW k \in ReadyEntries
    PROVE  LET registry == cache.registry
               s == cache.summary.restaurants[k]
           IN  /\ k \in IdentityReady(registry) /\ s.id = registry[k].id
               /\ s.id \notin DuplicateReadyIds(registry) /\ s.id \notin BlockedIds(registry)
               /\ s.id \in ReadyIds(registry)
               /\ \A o \in DOMAIN s.orders : cache.summary.orders[o].rid = s.id
<1>1. cache # None /\ k \in DOMAIN cache.summary.restaurants
      /\ cache.summary.restaurants[k].status = "READY"
    BY DEF ReadyEntries
<1>2. PICK registry, summary : registry = cache.registry /\ summary = cache.summary
    OBVIOUS
<1>3. PICK canonical, invalid, log : summary = Evaluate(canonical, invalid, registry, log)
    BY <1>1, <1>2 DEF WorkspaceInv, Evaluates
<1> DEFINE orders == [o \in Evaluated(canonical, registry) |->
                          SettlementOrder(canonical[o], o, invalid, log)]
           duplicates == DuplicateReadyIds(registry)
           restaurants == [j \in IdentityReady(registry) |->
                              RestaurantSettlement(registry[j], orders, duplicates)]
<1>4. summary.orders = orders /\ summary.restaurants = restaurants
    BY <1>3 DEF Evaluate
<1>5. k \in IdentityReady(registry)
    BY <1>1, <1>2, <1>4
<1>6. PICK s : s = RestaurantSettlement(registry[k], orders, duplicates)
    OBVIOUS
<1>7. cache.summary.restaurants[k] = s
    BY <1>2, <1>4, <1>5, <1>6
<1>8. /\ DOMAIN orders = Evaluated(canonical, registry)
      /\ \A o \in DOMAIN orders : orders[o].rid = canonical[o].rid
    BY DEF SettlementOrder
<1> HIDE DEF orders, duplicates
<1>9. /\ s.id = registry[k].id /\ s.orders = OrdersOf(orders, registry[k].id)
      /\ registry[k].id \notin duplicates /\ DOMAIN s.orders # {}
    BY <1>1, <1>6, <1>7, ReadySettlement
<1>10. \A o \in DOMAIN s.orders : o \in DOMAIN orders /\ orders[o].rid = s.id
    BY <1>9 DEF OrdersOf
<1>11. \A o \in DOMAIN orders : orders[o].rid \in ReadyIds(registry) \ BlockedIds(registry)
    BY <1>8 DEF Evaluated
<1>12. s.id \in ReadyIds(registry) \ BlockedIds(registry)
    BY <1>9, <1>10, <1>11
<1> QED  BY <1>2, <1>4, <1>5, <1>7, <1>9, <1>10, <1>12 DEF duplicates

LEMMA WorkspaceInvariant == Spec => []WorkspaceInv
    BY WorkspaceInit, WorkspaceKeeps, PTL DEF Spec

LEMMA TwoElements ==
    ASSUME NEW a, NEW b, a # b
    PROVE  Cardinality({a, b}) = 2
<1>1. IsFiniteSet({a}) /\ Cardinality({a}) = 1
    BY FS_Singleton
<1>2. {a, b} = {a} \cup {b} /\ b \notin {a}
    OBVIOUS
<1>3. Cardinality({a} \cup {b}) = Cardinality({a}) + 1
    BY <1>1, <1>2, FS_AddElement
<1> QED  BY <1>1, <1>2, <1>3

(***************************************************************************)
(* phase5_service.py: the orders of a blocked identity enter no READY      *)
(* settlement, also when another row of the scope is ready with its id.    *)
(***************************************************************************)
THEOREM BlockedIsNeverPaid == Spec => []BlockedIdentityIsNeverPaid
<1>1. WorkspaceInv => BlockedIdentityIsNeverPaid
    BY ReadyEntry DEF BlockedIdentityIsNeverPaid
<1> QED  BY <1>1, WorkspaceInvariant, PTL

(***************************************************************************)
(* phase5_service.py: no order is in two READY settlements, although rows  *)
(* with and without the id can lead to the same restaurant.                *)
(***************************************************************************)
THEOREM OrdersArePaidOnce == Spec => []PaidOnce
<1>1. ASSUME WorkspaceInv, NEW j \in ReadyEntries, NEW k \in ReadyEntries,
             NEW o \in DOMAIN cache.summary.restaurants[j].orders,
             o \in DOMAIN cache.summary.restaurants[k].orders, j # k
      PROVE  FALSE
    <2>1. PICK registry : registry = cache.registry
        OBVIOUS
    <2>2. PICK id : id = cache.summary.restaurants[j].id
        OBVIOUS
    <2>3. /\ j \in IdentityReady(registry) /\ k \in IdentityReady(registry)
          /\ registry[j].id = id /\ registry[k].id = id
          /\ id \in ReadyIds(registry) /\ id \notin DuplicateReadyIds(registry)
        BY <1>1, <2>1, <2>2, ReadyEntry
    <2> DEFINE twins == {e \in IdentityReady(registry) : registry[e].id = id}
    <2>4. IsFiniteSet(twins)
        <3>1. cache # None
            BY <1>1 DEF ReadyEntries
        <3>2. IsFiniteSet(DOMAIN registry)
            BY <1>1, <2>1, <3>1, FiniteRegistry DEF WorkspaceInv, Evaluates
        <3>3. twins \subseteq DOMAIN registry
            BY DEF IdentityReady
        <3> QED  BY <3>2, <3>3, FS_Subset
    <2>5. {j, k} \subseteq twins
        BY <2>3
    <2>6. Cardinality({j, k}) = 2
        BY <1>1, TwoElements
    <2>7. 2 <= Cardinality(twins) /\ Cardinality(twins) \in Nat
        BY <2>4, <2>5, <2>6, FS_Subset, FS_CardinalityType
    <2>8. Cardinality(twins) > 1
        BY <2>7
    <2> HIDE DEF twins
    <2>9. id \in DuplicateReadyIds(registry)
        BY <2>3, <2>8 DEF DuplicateReadyIds, twins
    <2> QED  BY <2>3, <2>9
<1>2. WorkspaceInv => PaidOnce
    <2> SUFFICES ASSUME WorkspaceInv, NEW o \in Orders
                 PROVE  Cardinality({k \in ReadyEntries :
                            o \in DOMAIN cache.summary.restaurants[k].orders}) <= 1
        BY DEF PaidOnce
    <2> DEFINE paying == {k \in ReadyEntries :
                             o \in DOMAIN cache.summary.restaurants[k].orders}
    <2>1. \A j, k \in paying : j = k
        BY <1>1
    <2>2. CASE paying = {}
        BY <2>2, FS_EmptySet
    <2>3. CASE paying # {}
        <3>1. PICK k \in paying : TRUE
            BY <2>3
        <3>2. paying = {k}
            BY <2>1, <3>1
        <3>3. Cardinality({k}) = 1
            BY FS_Singleton
        <3>4. Cardinality(paying) <= 1
            <4> HIDE DEF paying
            <4>1. Cardinality(paying) = 1
                BY <3>2, <3>3
            <4> QED  BY <4>1
        <3> QED  BY <3>4
    <2> QED  BY <2>2, <2>3
<1> QED  BY <1>2, WorkspaceInvariant, PTL

----------------------------------------------------------------------------
(* The decimals *)

\* A set of naturals that is not empty has a least element.
LEMMA Least ==
    ASSUME NEW T, T \subseteq Nat, T # {}
    PROVE  \E n \in T : \A m \in T : n <= m
<1> DEFINE R == OpToRel(<, Nat)
<1>1. IsWellFoundedOn(R, Nat)
    BY NatLessThanWellFounded
<1>2. \A m, n \in Nat : <<m, n>> \in R <=> m < n
    BY DEF OpToRel
<1> HIDE DEF R
<1>3. PICK n \in T : \A m \in T : ~(<<m, n>> \in R)
    BY <1>1, WFMin
<1>4. ASSUME NEW m \in T PROVE n <= m
    <2>1. ~(m < n)
        BY <1>2, <1>3
    <2> QED  BY <2>1
<1> QED  BY <1>4

Descends(prev) == \A n \in Nat \ {0} : prev[n] < n

\* one step of a recursion: f continues g at n
Continues(f, g, n, first, step, prev) == f[n] = IF n = 0 THEN first ELSE step[g[prev[n]]]
Agrees(f, n, first, step, prev) ==
    \A m \in Nat : m <= n => Continues(f, f, m, first, step, prev)

LEMMA RecursionUpto ==
    ASSUME NEW prev \in [Nat -> Nat], Descends(prev),
           NEW first \in Int, NEW step \in [Int -> Int], NEW n \in Nat
    PROVE  \E f \in [Nat -> Int] : Agrees(f, n, first, step, prev)
<1> DEFINE Some(k) == \E f \in [Nat -> Int] : Agrees(f, k, first, step, prev)
           Bad == {k \in Nat : ~Some(k)}
<1> SUFFICES ASSUME Bad # {} PROVE FALSE
    OBVIOUS
<1>1. PICK k \in Bad : \A m \in Bad : k <= m
    BY Least
<1>2. k # 0
    <2>1. Agrees([m \in Nat |-> first], 0, first, step, prev)
        BY DEF Agrees, Continues
    <2>2. [m \in Nat |-> first] \in [Nat -> Int]
        OBVIOUS
    <2>3. Some(0)
        BY <2>1, <2>2
    <2> QED  BY <2>3
<1>3. k - 1 \in Nat /\ k - 1 \notin Bad
    BY <1>1, <1>2
<1>4. PICK f \in [Nat -> Int] : Agrees(f, k - 1, first, step, prev)
    BY <1>3
<1> DEFINE g == [m \in Nat |-> IF m = k THEN step[f[prev[k]]] ELSE f[m]]
<1>5. g \in [Nat -> Int]
    OBVIOUS
<1>6. Agrees(g, k, first, step, prev)
    <2> SUFFICES ASSUME NEW m \in Nat, m <= k PROVE Continues(g, g, m, first, step, prev)
        BY DEF Agrees
    <2>1. CASE m = k
        <3>1. g[prev[k]] = f[prev[k]]
            BY <1>1, <1>2 DEF Descends
        <3> QED  BY <1>2, <2>1, <3>1 DEF Continues
    <2>2. CASE m < k
        <3>1. Continues(f, f, m, first, step, prev)
            BY <1>3, <1>4, <2>2 DEF Agrees
        <3>2. g[m] = f[m] /\ (m # 0 => g[prev[m]] = f[prev[m]])
            BY <2>2 DEF Descends
        <3> QED  BY <3>1, <3>2 DEF Continues
    <2> QED  BY <2>1, <2>2
<1> QED  BY <1>1, <1>5, <1>6

LEMMA RecursionIsUnique ==
    ASSUME NEW prev \in [Nat -> Nat], Descends(prev),
           NEW first, NEW step, NEW n \in Nat, NEW f, NEW g,
           Agrees(f, n, first, step, prev), Agrees(g, n, first, step, prev)
    PROVE  f[n] = g[n]
<1> DEFINE Bad == {m \in Nat : m <= n /\ f[m] # g[m]}
<1> SUFFICES ASSUME Bad # {} PROVE FALSE
    OBVIOUS
<1>1. PICK m \in Bad : \A k \in Bad : m <= k
    BY Least
<1>2. /\ Continues(f, f, m, first, step, prev)
      /\ Continues(g, g, m, first, step, prev)
    BY <1>1 DEF Agrees
<1>3. m # 0
    BY <1>1, <1>2 DEF Continues
<1>4. f[prev[m]] = g[prev[m]]
    BY <1>1, <1>3 DEF Descends
<1> QED  BY <1>1, <1>2, <1>3, <1>4 DEF Continues

LEMMA RecursionExists ==
    ASSUME NEW prev \in [Nat -> Nat], Descends(prev),
           NEW first \in Int, NEW step \in [Int -> Int]
    PROVE  \E f \in [Nat -> Int] : \A n \in Nat : Continues(f, f, n, first, step, prev)
<1> DEFINE F(n) == CHOOSE f \in [Nat -> Int] : Agrees(f, n, first, step, prev)
           h == [n \in Nat |-> F(n)[n]]
<1>1. \A n \in Nat : F(n) \in [Nat -> Int] /\ Agrees(F(n), n, first, step, prev)
    BY RecursionUpto
<1> HIDE DEF F
<1>2. h \in [Nat -> Int]
    BY <1>1
<1>3. ASSUME NEW n \in Nat PROVE Continues(h, h, n, first, step, prev)
    <2>1. Continues(F(n), F(n), n, first, step, prev)
        BY <1>1 DEF Agrees
    <2>2. CASE n = 0
        BY <2>1, <2>2 DEF Continues
    <2>3. CASE n # 0
        <3>1. prev[n] \in Nat /\ prev[n] < n
            BY <2>3 DEF Descends
        <3>2. Agrees(F(n), prev[n], first, step, prev)
            BY <1>1, <3>1 DEF Agrees
        <3>3. PICK p \in Nat : p = prev[n]
            BY <3>1
        <3>4. PICK f, g : f = F(n) /\ g = F(p)
            OBVIOUS
        <3>5. Agrees(f, p, first, step, prev)
            BY <3>2, <3>3, <3>4
        <3>6. Agrees(g, p, first, step, prev)
            BY <1>1, <3>4
        <3>7. f[p] = g[p]
            BY <3>5, <3>6, RecursionIsUnique
        <3> QED  BY <2>1, <2>3, <3>1, <3>3, <3>4, <3>7 DEF Continues
    <2> QED  BY <2>2, <2>3
<1> QED  BY <1>2, <1>3

\* The powers of ten are what their recursion says.
LEMMA TenStep ==
    /\ Ten \in [Nat -> Int] /\ Ten[0] = 1
    /\ \A k \in Nat : Ten[k + 1] = 10 * Ten[k]
<1> DEFINE Is(f) == f = [k \in Nat |-> IF k = 0 THEN 1 ELSE 10 * f[k - 1]]
           prev == [k \in Nat |-> IF k = 0 THEN 0 ELSE k - 1]
           step == [x \in Int |-> 10 * x]
<1>1. PICK f \in [Nat -> Int] : \A n \in Nat : Continues(f, f, n, 1, step, prev)
    <2>1. prev \in [Nat -> Nat] /\ step \in [Int -> Int] /\ 1 \in Int
        OBVIOUS
    <2>2. Descends(prev)
        BY DEF Descends
    <2> HIDE DEF prev, step
    <2> QED  BY <2>1, <2>2, RecursionExists
<1>2. \A k \in Nat : f[k] = IF k = 0 THEN 1 ELSE 10 * f[k - 1]
    <2> SUFFICES ASSUME NEW k \in Nat PROVE f[k] = IF k = 0 THEN 1 ELSE 10 * f[k - 1]
        OBVIOUS
    <2>1. f[k] = IF k = 0 THEN 1 ELSE step[f[prev[k]]]
        BY <1>1 DEF Continues
    <2> QED  BY <2>1
<1>3. Is(f)
    BY <1>2
<1>4. Is(Ten)
    <2>1. Ten = CHOOSE g : Is(g)
        BY Zenon DEF Ten
    <2> HIDE DEF Is
    <2> QED  BY <1>3, <2>1
<1>5. Ten \in [Nat -> Int]
    <2>1. \A k \in Nat : Ten[k] = IF k = 0 THEN 1 ELSE 10 * Ten[k - 1]
        BY <1>4
    <2> DEFINE Bad == {k \in Nat : Ten[k] # f[k]}
    <2>2. Bad = {}
        <3> SUFFICES ASSUME Bad # {} PROVE FALSE
            OBVIOUS
        <3>1. PICK k \in Bad : \A m \in Bad : k <= m
            BY Least
        <3>2. k # 0
            BY <1>2, <2>1
        <3>3. k - 1 \in Nat /\ k - 1 \notin Bad
            BY <3>1, <3>2
        <3> QED  BY <1>2, <2>1, <3>1, <3>2, <3>3
    <2>3. \A k \in Nat : Ten[k] \in Int
        BY <2>2
    <2> QED  BY <1>4, <2>3
<1>6. \A k \in Nat : Ten[k] = IF k = 0 THEN 1 ELSE 10 * Ten[k - 1]
    BY <1>4
<1> QED  BY <1>5, <1>6

\* So is the number of digits.
LEMMA LengthStep ==
    /\ Length \in [Nat -> Int] /\ Length[0] = 0
    /\ \A n \in Nat \ {0} : Length[n] = 1 + Length[n \div 10]
<1> DEFINE Is(f) == f = [n \in Nat |-> IF n = 0 THEN 0 ELSE 1 + f[n \div 10]]
           prev == [n \in Nat |-> n \div 10]
           step == [x \in Int |-> 1 + x]
<1>1. PICK f \in [Nat -> Int] : \A n \in Nat : Continues(f, f, n, 0, step, prev)
    <2>1. prev \in [Nat -> Nat] /\ step \in [Int -> Int] /\ 0 \in Int
        OBVIOUS
    <2>2. Descends(prev)
        BY DEF Descends
    <2> HIDE DEF prev, step
    <2> QED  BY <2>1, <2>2, RecursionExists
<1>2. \A n \in Nat : f[n] = IF n = 0 THEN 0 ELSE 1 + f[n \div 10]
    <2> SUFFICES ASSUME NEW n \in Nat PROVE f[n] = IF n = 0 THEN 0 ELSE 1 + f[n \div 10]
        OBVIOUS
    <2>1. f[n] = IF n = 0 THEN 0 ELSE step[f[prev[n]]]
        BY <1>1 DEF Continues
    <2> QED  BY <2>1
<1>3. Is(f)
    BY <1>2
<1>4. Is(Length)
    <2>1. Length = CHOOSE g : Is(g)
        BY Zenon DEF Length
    <2> HIDE DEF Is
    <2> QED  BY <1>3, <2>1
<1>5. \A n \in Nat : Length[n] = IF n = 0 THEN 0 ELSE 1 + Length[n \div 10]
    BY <1>4
<1> DEFINE Bad == {n \in Nat : Length[n] # f[n]}
<1>6. Bad = {}
    <2> SUFFICES ASSUME Bad # {} PROVE FALSE
        OBVIOUS
    <2>1. PICK n \in Bad : \A m \in Bad : n <= m
        BY Least
    <2>2. n # 0
        BY <1>2, <1>5
    <2>3. n \div 10 \in Nat /\ n \div 10 < n
        BY <2>2
    <2>4. n \div 10 \notin Bad
        BY <2>1, <2>3
    <2> QED  BY <1>2, <1>5, <2>1, <2>2, <2>3, <2>4
<1>7. \A n \in Nat : Length[n] \in Int
    BY <1>6
<1> QED  BY <1>4, <1>5, <1>7

LEMMA TenPositive == \A k \in Nat : Ten[k] \in Nat /\ Ten[k] >= 1
<1> DEFINE Bad == {k \in Nat : ~(Ten[k] \in Nat /\ Ten[k] >= 1)}
<1> SUFFICES ASSUME Bad # {} PROVE FALSE
    OBVIOUS
<1>1. PICK k \in Bad : \A m \in Bad : k <= m
    BY Least
<1>2. k # 0
    BY <1>1, TenStep
<1>3. k - 1 \in Nat /\ k - 1 \notin Bad /\ (k - 1) + 1 = k
    BY <1>1, <1>2
<1>4. Ten[k] = 10 * Ten[k - 1]
    BY <1>3, TenStep
<1> QED  BY <1>1, <1>3, <1>4

LEMMA TenSum == \A j, k \in Nat : Ten[j + k] = Ten[j] * Ten[k]
<1> SUFFICES ASSUME NEW j \in Nat PROVE \A k \in Nat : Ten[j + k] = Ten[j] * Ten[k]
    OBVIOUS
<1> DEFINE Bad == {k \in Nat : Ten[j + k] # Ten[j] * Ten[k]}
<1> SUFFICES ASSUME Bad # {} PROVE FALSE
    OBVIOUS
<1>1. PICK k \in Bad : \A m \in Bad : k <= m
    BY Least
<1>2. Ten[j] \in Nat /\ \A m \in Nat : Ten[m] \in Nat
    BY TenPositive
<1>3. k # 0
    <2>1. Ten[j + 0] = Ten[j] * Ten[0]
        BY <1>2, TenStep
    <2> QED  BY <1>1, <2>1
<1>4. k - 1 \in Nat /\ k - 1 \notin Bad /\ (k - 1) + 1 = k
    BY <1>1, <1>3
<1>5. Ten[j + (k - 1)] = Ten[j] * Ten[k - 1]
    BY <1>4
<1>6. Ten[k] = 10 * Ten[k - 1]
    BY <1>4, TenStep
<1>7. Ten[j + k] = 10 * Ten[j + (k - 1)]
    <2>1. (j + (k - 1)) + 1 = j + k /\ j + (k - 1) \in Nat
        BY <1>4
    <2> QED  BY <2>1, TenStep
<1>8. PICK a \in Nat, b \in Nat : a = Ten[j] /\ b = Ten[k - 1]
    BY <1>2, <1>4
<1>9. 10 * (a * b) = a * (10 * b)
    OBVIOUS
<1> QED  BY <1>1, <1>5, <1>6, <1>7, <1>8, <1>9

\* A higher power of ten is a multiple of ten times a lower one.
LEMMA TenGrows ==
    ASSUME NEW j \in Nat, NEW k \in Nat
    PROVE  (j <= k => Ten[j] <= Ten[k]) /\ (j < k => 10 * Ten[j] <= Ten[k])
<1>1. ASSUME NEW i \in Nat, i <= k PROVE Ten[i] <= Ten[k]
    <2>1. Ten[i + (k - i)] = Ten[i] * Ten[k - i] /\ i + (k - i) = k
        BY <1>1, TenSum
    <2>2. PICK a \in Nat, b \in Nat : a = Ten[i] /\ b = Ten[k - i] /\ b >= 1
        BY <1>1, TenPositive
    <2>3. a * b >= a
        BY <2>2
    <2> QED  BY <2>1, <2>2, <2>3
<1>2. j < k => Ten[j + 1] <= Ten[k]
    BY <1>1
<1> QED  BY <1>1, <1>2, TenStep

LEMMA LengthFacts ==
    \A n \in Nat \ {0} : /\ Length[n] \in Nat \ {0}
                         /\ Ten[Length[n] - 1] <= n /\ n < Ten[Length[n]]
<1> DEFINE Good(n) == /\ Length[n] \in Nat \ {0}
                      /\ Ten[Length[n] - 1] <= n /\ n < Ten[Length[n]]
           Bad == {n \in Nat \ {0} : ~Good(n)}
<1> SUFFICES ASSUME Bad # {} PROVE FALSE
    OBVIOUS
<1>1. PICK n \in Bad : \A m \in Bad : n <= m
    BY Least
<1>2. n \in Nat \ {0} /\ Length[n] = 1 + Length[n \div 10]
    BY <1>1, LengthStep
<1>3. CASE n < 10
    <2>1. n \div 10 = 0
        BY <1>2, <1>3
    <2>2. Length[n] = 1
        BY <1>2, <2>1, LengthStep
    <2>3. Ten[0] = 1 /\ Ten[1] = 10
        BY TenStep
    <2> QED  BY <1>1, <1>2, <1>3, <2>2, <2>3
<1>4. CASE n >= 10
    <2>1. PICK m \in Nat : m = n \div 10 /\ m >= 1 /\ m < n /\ 10 * m <= n /\ n < 10 * m + 10
        BY <1>2, <1>4
    <2>2. Good(m)
        BY <1>1, <2>1
    <2>3. PICK l \in Nat \ {0} : l = Length[m] /\ Ten[l - 1] <= m /\ m < Ten[l]
        BY <2>2
    <2>4. (l - 1) + 1 = l /\ l - 1 \in Nat
        OBVIOUS
    <2>5. Ten[l] = 10 * Ten[l - 1] /\ Ten[l + 1] = 10 * Ten[l]
        BY <2>4, TenStep
    <2>6. Ten[l] \in Nat /\ Ten[l - 1] \in Nat /\ Ten[l + 1] \in Nat
        BY <2>4, TenPositive
    <2>7. Ten[l] <= n /\ n < Ten[l + 1]
        BY <1>2, <2>1, <2>3, <2>5, <2>6
    <2>8. Length[n] = l + 1 /\ (l + 1) - 1 = l
        BY <1>2, <2>1, <2>3
    <2> QED  BY <1>1, <2>7, <2>8
<1> QED  BY <1>1, <1>3, <1>4

\* The number of digits is the one place a number has between powers of ten.
LEMMA LengthIs ==
    ASSUME NEW n \in Nat \ {0}, NEW d \in Nat \ {0}, Ten[d - 1] <= n, n < Ten[d]
    PROVE  Length[n] = d
<1>1. PICK l \in Nat \ {0} : l = Length[n] /\ Ten[l - 1] <= n /\ n < Ten[l]
    BY LengthFacts
<1>2. Ten[d] \in Nat /\ Ten[d - 1] \in Nat /\ Ten[l] \in Nat /\ Ten[l - 1] \in Nat
    BY TenPositive
<1>3. CASE l < d
    <2>1. Ten[l] <= Ten[d - 1]
        BY <1>3, TenGrows
    <2> QED  BY <1>1, <1>2, <2>1
<1>4. CASE d < l
    <2>1. Ten[d] <= Ten[l - 1]
        BY <1>4, TenGrows
    <2> QED  BY <1>1, <1>2, <2>1
<1> QED  BY <1>1, <1>3, <1>4

\* What the context keeps of a coefficient, at the scale it is given in.
Kept(n) ==
    LET d == Digits(n) - Precision
    IN  IF d <= 0 THEN n ELSE HalfEven(n, d) * Ten[d]

\* h is n / u rounded: n lies r above q units, and h is q or q + 1.
Nearest(n, u, q, r, h) ==
    /\ n = q * u + r /\ r < u
    /\ \/ h = q /\ 2 * r <= u /\ (2 * r = u => q % 2 = 0)
       \/ h = q + 1 /\ 2 * r >= u /\ (2 * r = u => q % 2 = 1)

LEMMA Division ==
    ASSUME NEW n \in Nat, NEW u \in Nat, u >= 1
    PROVE  \E q, r \in Nat : q = n \div u /\ r = n % u /\ n = q * u + r /\ r < u
<1>1. n \div u \in Nat /\ n % u \in Nat /\ n % u < u
    OBVIOUS
<1>2. n = ((n \div u) * u) + (n % u)
    OBVIOUS
<1> QED  BY <1>1, <1>2

LEMMA HalfEvenIsNearest ==
    ASSUME NEW n \in Nat, NEW d \in Nat
    PROVE  \E q, r \in Nat : Nearest(n, Ten[d], q, r, HalfEven(n, d))
<1>1. PICK u \in Nat : u = Ten[d] /\ u >= 1
    BY TenPositive
<1>2. PICK q, r \in Nat : q = n \div u /\ r = n % u /\ n = q * u + r /\ r < u
    BY <1>1, Division
<1>3. Abs(n) = n
    BY DEF Abs
<1>4. HalfEven(n, d) = IF 2 * r > u \/ (2 * r = u /\ q % 2 = 1) THEN q + 1 ELSE q
    BY <1>1, <1>2, <1>3 DEF HalfEven
<1>5. PICK h : h = HalfEven(n, d)
    OBVIOUS
<1>6. q % 2 \in {0, 1}
    OBVIOUS
<1>7. Nearest(n, u, q, r, h)
    <2>1. CASE 2 * r > u \/ (2 * r = u /\ q % 2 = 1)
        BY <1>2, <1>4, <1>5, <2>1 DEF Nearest
    <2>2. CASE ~(2 * r > u \/ (2 * r = u /\ q % 2 = 1))
        BY <1>2, <1>4, <1>5, <1>6, <2>2 DEF Nearest
    <2> QED  BY <2>1, <2>2
<1> QED  BY <1>1, <1>2, <1>5, <1>7

LEMMA HalfEvenNegative ==
    ASSUME NEW n \in Int, NEW d \in Nat
    PROVE  /\ HalfEven(n, d) \in Int /\ HalfEven(-n, d) = -HalfEven(n, d)
<1>1. PICK u \in Nat : u = Ten[d] /\ u >= 1
    BY TenPositive
<1>2. PICK a \in Nat : a = Abs(n) /\ a = Abs(-n)
    BY DEF Abs
<1>3. PICK q \in Nat, r \in Nat : q = a \div u /\ r = a % u
    BY <1>1
<1>4. PICK h \in Nat : h = IF 2 * r > u \/ (2 * r = u /\ q % 2 = 1) THEN q + 1 ELSE q
    OBVIOUS
<1>5. HalfEven(n, d) = IF n < 0 THEN -h ELSE h
    BY <1>1, <1>2, <1>3, <1>4 DEF HalfEven
<1>6. HalfEven(-n, d) = IF -n < 0 THEN -h ELSE h
    BY <1>1, <1>2, <1>3, <1>4 DEF HalfEven
<1>7. n = 0 => h = 0
    BY <1>1, <1>2, <1>3, <1>4 DEF Abs
<1> QED  BY <1>5, <1>6, <1>7

\* An even number of units no further than half a unit is the result.
LEMMA NearestEven ==
    ASSUME NEW n \in Nat, NEW u \in Nat, u >= 1, NEW q \in Nat, NEW r \in Nat, NEW h,
           Nearest(n, u, q, r, h), NEW m \in Nat, m % 2 = 0,
           2 * (n - m * u) <= u, 2 * (m * u - n) <= u
    PROVE  h = m
<1>1. n = q * u + r /\ r < u
    BY DEF Nearest
<1>2. CASE m <= q - 1
    <2>1. m * u <= (q - 1) * u /\ (q - 1) * u = q * u - u
        BY <1>2
    <2> QED  BY <1>1, <2>1
<1>3. CASE m = q
    <2>1. 2 * r <= u
        BY <1>1, <1>3
    <2> QED  BY <1>3, <2>1 DEF Nearest
<1>4. CASE m = q + 1
    <2>1. m * u = q * u + u
        BY <1>4
    <2>2. 2 * r >= u
        BY <1>1, <2>1
    <2>3. q % 2 = 1
        BY <1>4
    <2> QED  BY <1>4, <2>2, <2>3 DEF Nearest
<1>5. CASE m >= q + 2
    <2>1. m * u >= (q + 2) * u /\ (q + 2) * u = q * u + 2 * u
        BY <1>5
    <2> QED  BY <1>1, <2>1
<1> QED  BY <1>2, <1>3, <1>4, <1>5

\* An exact number of units is the result as well.
LEMMA NearestExact ==
    ASSUME NEW u \in Nat, u >= 1, NEW q \in Nat, NEW r \in Nat, NEW h, NEW m \in Nat,
           Nearest(m * u, u, q, r, h)
    PROVE  h = m
<1>1. m * u = q * u + r /\ r < u
    BY DEF Nearest
<1>2. CASE m <= q - 1
    <2>1. m * u <= (q - 1) * u /\ (q - 1) * u = q * u - u
        BY <1>2
    <2> QED  BY <1>1, <2>1
<1>3. CASE m = q
    BY <1>1, <1>3 DEF Nearest
<1>4. CASE m >= q + 1
    <2>1. m * u >= (q + 1) * u /\ (q + 1) * u = q * u + u
        BY <1>4
    <2> QED  BY <1>1, <2>1
<1> QED  BY <1>2, <1>3, <1>4

\* The result does not pass a whole number of units.
LEMMA NearestBelow ==
    ASSUME NEW n \in Nat, NEW u \in Nat, u >= 1, NEW q \in Nat, NEW r \in Nat, NEW h,
           Nearest(n, u, q, r, h), NEW m \in Nat, n <= m * u
    PROVE  h \in Nat /\ h <= m
<1>1. n = q * u + r /\ r < u
    BY DEF Nearest
<1>2. q <= m
    <2>1. SUFFICES ASSUME q >= m + 1 PROVE FALSE
        OBVIOUS
    <2>2. q * u >= (m + 1) * u /\ (m + 1) * u = m * u + u
        BY <2>1
    <2> QED  BY <1>1, <2>2
<1>3. q = m => r = 0
    BY <1>1
<1> QED  BY <1>2, <1>3 DEF Nearest

\* A number with more digits than the context keeps, and what is kept of it.
Long(n, l, d, u, q, r, h) ==
    /\ l \in Nat /\ d \in Nat \ {0} /\ l = Precision + d /\ u \in Nat /\ u >= 1
    /\ q \in Nat /\ r \in Nat /\ h \in Nat
    /\ l = Length[n] /\ u = Ten[d] /\ Ten[l - 1] <= n /\ n < Ten[l]
    /\ Nearest(n, u, q, r, h) /\ Kept(n) = h * u /\ Ten[l - 1] <= q * u

LEMMA DigitsAreCounted ==
    ASSUME NEW n \in Int
    PROVE  /\ Digits(n) \in Nat /\ Digits(-n) = Digits(n)
           /\ n \in Nat => Digits(n) = Length[n]
<1>1. Abs(n) \in Nat /\ Abs(-n) = Abs(n) /\ (n \in Nat => Abs(n) = n)
    BY DEF Abs
<1>2. Length[Abs(n)] \in Nat
    BY <1>1, LengthFacts, LengthStep
<1> QED  BY <1>1, <1>2 DEF Digits

LEMMA KeptLong ==
    ASSUME NEW n \in Nat, Length[n] > Precision
    PROVE  \E l, d, u, q, r, h \in Nat : Long(n, l, d, u, q, r, h)
<1>1. PICK l \in Nat : l = Length[n] /\ l = Digits(n) /\ l > Precision
    BY DigitsAreCounted
<1>2. Precision \in Nat \ {0}
    BY PrecisionAssumption
<1>3. PICK d \in Nat \ {0} : d = l - Precision /\ l = Precision + d
    BY <1>1, <1>2
<1>4. n # 0
    <2>1. Length[0] = 0
        BY LengthStep
    <2>2. n = 0 => l = 0
        BY <1>1, <2>1
    <2> QED  BY <1>1, <1>2, <2>2
<1>5. Ten[l - 1] <= n /\ n < Ten[l]
    BY <1>1, <1>4, LengthFacts
<1>6. PICK u \in Nat : u = Ten[d] /\ u >= 1
    BY TenPositive
<1>7. PICK q, r \in Nat : Nearest(n, u, q, r, HalfEven(n, d))
    BY <1>6, HalfEvenIsNearest
<1>8. PICK h \in Nat : h = HalfEven(n, d)
    BY <1>7 DEF Nearest
<1>9. Kept(n) = h * u
    <2>1. Digits(n) - Precision = d /\ ~(d <= 0)
        BY <1>1, <1>3
    <2>2. Kept(n) = HalfEven(n, d) * Ten[d]
        BY <2>1, Zenon DEF Kept
    <2> QED  BY <1>6, <1>8, <2>2
<1>10. PICK t \in Nat : t = Ten[Precision - 1] /\ Ten[l - 1] = t * u
    <2>1. Precision - 1 \in Nat /\ (Precision - 1) + d = l - 1
        BY <1>2, <1>3
    <2>2. Ten[(Precision - 1) + d] = Ten[Precision - 1] * Ten[d]
        BY <2>1, TenSum
    <2> QED  BY <1>6, <2>1, <2>2, TenPositive
<1>11. Ten[l - 1] <= q * u
    <2>1. n = q * u + r /\ r < u
        BY <1>7 DEF Nearest
    <2>2. SUFFICES ASSUME q < t PROVE FALSE
        <3>1. q >= t => q * u >= t * u
            OBVIOUS
        <3> QED  BY <1>10, <3>1
    <2>3. (q + 1) * u <= t * u /\ (q + 1) * u = q * u + u
        BY <2>2
    <2> QED  BY <1>5, <1>10, <2>1, <2>3
<1>12. Long(n, l, d, u, q, r, h)
    BY <1>1, <1>3, <1>5, <1>6, <1>7, <1>8, <1>9, <1>11 DEF Long
<1> QED  BY <1>12

LEMMA KeptShort ==
    ASSUME NEW n \in Nat, Length[n] <= Precision
    PROVE  Kept(n) = n
BY DigitsAreCounted, PrecisionAssumption DEF Kept

LEMMA KeptNegative ==
    ASSUME NEW n \in Int
    PROVE  Kept(n) \in Int /\ Kept(-n) = -Kept(n)
<1>1. PICK l \in Nat : l = Digits(n) /\ l = Digits(-n)
    BY DigitsAreCounted
<1>2. Precision \in Nat
    BY PrecisionAssumption
<1>3. CASE l <= Precision
    BY <1>1, <1>2, <1>3 DEF Kept
<1>4. CASE l > Precision
    <2>1. PICK d \in Nat : d = l - Precision /\ d > 0
        BY <1>2, <1>4
    <2>2. PICK u \in Nat : u = Ten[d]
        BY TenPositive
    <2>3. PICK h \in Int : h = HalfEven(n, d) /\ -h = HalfEven(-n, d)
        BY HalfEvenNegative
    <2>4. Digits(n) - Precision = d /\ Digits(-n) - Precision = d /\ ~(d <= 0)
        BY <1>1, <2>1
    <2>5. Kept(n) = HalfEven(n, d) * Ten[d] /\ Kept(-n) = HalfEven(-n, d) * Ten[d]
        BY <2>4, Zenon DEF Kept
    <2>6. Kept(n) = h * u /\ Kept(-n) = (-h) * u
        BY <2>2, <2>3, <2>5
    <2> QED  BY <2>3, <2>6
<1> QED  BY <1>1, <1>2, <1>3, <1>4

\* Nothing is lost of a number of at most Precision digits, whatever its scale.
LEMMA KeptBelow ==
    ASSUME NEW m \in Nat, m < Ten[Precision], NEW j \in Nat,
           NEW n \in Nat, n <= m * Ten[j]
    PROVE  /\ Kept(n) \in Nat /\ Kept(n) <= m * Ten[j]
           /\ n = m * Ten[j] => Kept(n) = n
<1>1. CASE Length[n] <= Precision
    BY <1>1, KeptShort
<1>2. CASE Length[n] > Precision
    <2>1. PICK l, d, u, q, r, h \in Nat : Long(n, l, d, u, q, r, h)
        BY <1>2, KeptLong
    <2>2. Precision \in Nat \ {0}
        BY PrecisionAssumption
    <2>3. d <= j
        <3>1. SUFFICES ASSUME j < d PROVE FALSE
            OBVIOUS
        <3>2. j + Precision <= l - 1 /\ l - 1 \in Nat /\ j + Precision \in Nat
            BY <2>1, <2>2, <3>1 DEF Long
        <3>3. Ten[j + Precision] <= Ten[l - 1]
            BY <3>2, TenGrows
        <3>4. PICK a, b \in Nat : a = Ten[j] /\ b = Ten[Precision] /\ a >= 1
            BY <2>2, TenPositive
        <3>5. Ten[j + Precision] = a * b
            BY <2>2, <3>4, TenSum
        <3>6. (m + 1) * a <= b * a /\ (m + 1) * a = m * a + a
            BY <3>4
        <3>7. m * a < a * b
            BY <3>4, <3>6
        <3>8. Ten[l - 1] <= n
            BY <2>1 DEF Long
        <3>9. Ten[l - 1] \in Nat
            BY <3>2, TenPositive
        <3> QED  BY <3>3, <3>4, <3>5, <3>7, <3>8, <3>9
    <2>4. PICK t \in Nat : t = Ten[j - d] /\ Ten[j] = t * u
        <3>1. j - d \in Nat /\ (j - d) + d = j
            BY <2>3
        <3>2. Ten[(j - d) + d] = Ten[j - d] * Ten[d]
            BY <3>1, TenSum
        <3> QED  BY <2>1, <3>1, <3>2, TenPositive DEF Long
    <2>5. m * Ten[j] = (m * t) * u /\ m * t \in Nat
        BY <2>1, <2>4 DEF Long
    <2>6. u >= 1 /\ Nearest(n, u, q, r, h) /\ Kept(n) = h * u
        BY <2>1 DEF Long
    <2>7. h <= m * t
        BY <2>5, <2>6, NearestBelow
    <2>8. h * u <= (m * t) * u
        BY <2>5, <2>7
    <2>9. ASSUME n = m * Ten[j] PROVE h * u = n
        <3>1. Nearest((m * t) * u, u, q, r, h)
            BY <2>5, <2>6, <2>9
        <3>2. h = m * t
            BY <2>5, <2>6, <3>1, NearestExact
        <3> QED  BY <2>5, <2>9, <3>2
    <2> QED  BY <2>5, <2>6, <2>8, <2>9
<1>3. Length[n] \in Int /\ Precision \in Int
    BY LengthStep, PrecisionAssumption
<1> QED  BY <1>1, <1>2, <1>3

\* The error of a rounding: half a unit at most, and never below the digits.
LEMMA KeptError ==
    ASSUME NEW n \in Nat, NEW l \in Nat, NEW d \in Nat, NEW u \in Nat,
           NEW q \in Nat, NEW r \in Nat, NEW h \in Nat, Long(n, l, d, u, q, r, h)
    PROVE  LET error == Kept(n) - n
           IN  /\ error \in Int /\ 2 * error <= u /\ 2 * (-error) <= u
               /\ error <= n - Ten[l - 1] /\ -error <= n - Ten[l - 1]
<1>1. n = q * u + r /\ r < u /\ Kept(n) = h * u /\ Ten[l - 1] <= q * u
    BY DEF Long, Nearest
<1>2. Ten[l - 1] \in Nat
    <2>1. l - 1 \in Nat
        BY PrecisionAssumption DEF Long
    <2> QED  BY <2>1, TenPositive
<1>3. CASE h = q /\ 2 * r <= u
    BY <1>1, <1>2, <1>3
<1>4. CASE h = q + 1 /\ 2 * r >= u
    <2>1. h * u = q * u + u
        BY <1>4
    <2> QED  BY <1>1, <1>2, <1>4, <2>1
<1> QED  BY <1>3, <1>4 DEF Long, Nearest

LEMMA KeptNotZero ==
    ASSUME NEW n \in Int, Kept(n) = 0
    PROVE  n = 0
<1>1. ASSUME NEW m \in Nat, Kept(m) = 0 PROVE m = 0
    <2>1. CASE Length[m] <= Precision
        BY <1>1, <2>1, KeptShort
    <2>2. CASE Length[m] > Precision
        <3>1. PICK l, d, u, q, r, h \in Nat : Long(m, l, d, u, q, r, h)
            BY <2>2, KeptLong
        <3>2. l - 1 \in Nat /\ Ten[l - 1] >= 1 /\ Ten[l - 1] \in Nat
            <4>1. l - 1 \in Nat
                BY <3>1, PrecisionAssumption DEF Long
            <4> QED  BY <4>1, TenPositive
        <3>3. -(Kept(m) - m) <= m - Ten[l - 1]
            BY <3>1, KeptError
        <3> QED  BY <1>1, <3>2, <3>3
    <2>3. Length[m] \in Int /\ Precision \in Int
        BY LengthStep, PrecisionAssumption
    <2> QED  BY <2>1, <2>2, <2>3
<1>2. CASE n \in Nat
    BY <1>1, <1>2
<1>3. CASE n < 0
    <2>1. -n \in Nat /\ Kept(-n) = 0
        BY <1>3, KeptNegative
    <2> QED  BY <1>1, <1>3, <2>1
<1> QED  BY <1>2, <1>3

LEMMA NearestUnique ==
    ASSUME NEW n \in Nat, NEW u \in Nat, u >= 1,
           NEW q \in Nat, NEW r \in Nat, NEW h \in Nat, Nearest(n, u, q, r, h),
           NEW p \in Nat, NEW t \in Nat, NEW g \in Nat, Nearest(n, u, p, t, g)
    PROVE  h = g
<1>1. n = q * u + r /\ r < u /\ n = p * u + t /\ t < u
    BY DEF Nearest
<1>2. ASSUME NEW a \in Nat, NEW b \in Nat, a < b PROVE a * u + u <= b * u
    <2>1. (a + 1) * u <= b * u /\ (a + 1) * u = a * u + u
        BY <1>2
    <2> QED  BY <2>1
<1>3. q = p
    <2>1. ~(q < p)
        BY <1>1, <1>2
    <2>2. ~(p < q)
        BY <1>1, <1>2
    <2> QED  BY <2>1, <2>2
<1>4. r = t
    BY <1>1, <1>3
<1> QED  BY <1>3, <1>4 DEF Nearest

LEMMA KeptScaleOfNatural ==
    ASSUME NEW n \in Nat, NEW k \in Nat
    PROVE  Kept(n * Ten[k]) = Kept(n) * Ten[k]
<1>1. PICK t \in Nat : t = Ten[k] /\ t >= 1
    BY TenPositive
<1>2. Precision \in Nat \ {0} /\ Length[n] \in Nat
    BY PrecisionAssumption, LengthFacts, LengthStep
<1>3. CASE n = 0
    <2>1. n * t = 0 /\ Kept(0) = 0
        BY <1>2, <1>3, KeptShort, LengthStep
    <2> QED  BY <1>1, <1>3, <2>1
<1>4. CASE n # 0 /\ Length[n] <= Precision
    <2>1. n < Ten[Length[n]] /\ Ten[Length[n]] <= Ten[Precision]
        BY <1>2, <1>4, LengthFacts, TenGrows
    <2>2. n < Ten[Precision]
        BY <1>2, <2>1, TenPositive
    <2>3. Kept(n * t) = n * t
        BY <1>1, <2>2, KeptBelow
    <2> QED  BY <1>1, <1>4, <2>3, KeptShort
<1>5. CASE n # 0 /\ Length[n] > Precision
    <2>1. PICK l, d, u, q, r, h \in Nat : Long(n, l, d, u, q, r, h)
        BY <1>5, KeptLong
    <2>2. /\ l = Length[n] /\ l = Precision + d /\ u = Ten[d] /\ u >= 1
          /\ Ten[l - 1] <= n /\ n < Ten[l] /\ Nearest(n, u, q, r, h) /\ Kept(n) = h * u
        BY <2>1 DEF Long
    <2>3. PICK a, b \in Nat : a = Ten[l - 1] /\ b = Ten[l]
        BY <1>2, <1>5, <2>2, TenPositive
    <2>4. Ten[(l - 1) + k] = a * t /\ Ten[l + k] = b * t /\ Ten[d + k] = u * t
        <3>1. l - 1 \in Nat
            BY <1>2, <1>5, <2>2
        <3>2. Ten[(l - 1) + k] = Ten[l - 1] * Ten[k]
            BY <3>1, TenSum
        <3>3. Ten[l + k] = Ten[l] * Ten[k] /\ Ten[d + k] = Ten[d] * Ten[k]
            BY TenSum
        <3> QED  BY <1>1, <2>2, <2>3, <3>2, <3>3
    <2>5. a * t <= n * t /\ n * t < b * t /\ n * t \in Nat \ {0}
        BY <1>1, <1>5, <2>2, <2>3
    <2>6. Length[n * t] = l + k
        <3>1. (l + k) - 1 = (l - 1) + k /\ l + k \in Nat \ {0}
            BY <1>2, <1>5, <2>2
        <3>2. Ten[(l + k) - 1] <= n * t /\ n * t < Ten[l + k]
            BY <2>4, <2>5, <3>1
        <3> QED  BY <2>5, <3>1, <3>2, LengthIs
    <2>7. PICK N \in Nat : N = n * t
        BY <2>5
    <2>8. Length[N] > Precision
        BY <1>2, <1>5, <2>2, <2>6, <2>7
    <2>9. PICK l2, d2, u2, q2, r2, h2 \in Nat : Long(N, l2, d2, u2, q2, r2, h2)
        BY <2>8, KeptLong
    <2>10. d2 = d + k /\ u2 = u * t /\ Nearest(N, u2, q2, r2, h2) /\ Kept(N) = h2 * u2 /\ u2 >= 1
        <3>1. l2 = l + k /\ l2 = Precision + d2 /\ u2 = Ten[d2]
            BY <2>6, <2>7, <2>9 DEF Long
        <3>2. d2 = d + k
            BY <1>2, <2>2, <3>1
        <3> QED  BY <2>4, <2>9, <3>1, <3>2 DEF Long
    <2>11. Nearest(N, u * t, q, r * t, h)
        <3>1. n = q * u + r /\ r < u
            BY <2>2 DEF Nearest
        <3>2. N = (q * u) * t + r * t /\ (q * u) * t = q * (u * t)
            BY <2>7, <3>1
        <3>3. r * t < u * t
            BY <1>1, <3>1
        <3>4. PICK x, y \in Nat : x = r * t /\ y = u * t
            OBVIOUS
        <3>5. (2 * r <= u => 2 * x <= y) /\ (2 * r >= u => 2 * x >= y)
            <4>1. (2 * r) * t = 2 * x
                BY <3>4
            <4>2. 2 * r <= u => (2 * r) * t <= u * t
                OBVIOUS
            <4>3. 2 * r >= u => (2 * r) * t >= u * t
                OBVIOUS
            <4> QED  BY <3>4, <4>1, <4>2, <4>3
        <3>6. 2 * x = y => 2 * r = u
            <4>1. (2 * r) * t = 2 * x
                BY <3>4
            <4> QED  BY <1>1, <3>4, <4>1
        <3> QED  BY <2>2, <3>2, <3>3, <3>4, <3>5, <3>6 DEF Nearest
    <2>12. h2 = h
        <3>1. Nearest(N, u2, q, r * t, h) /\ r * t \in Nat
            BY <2>10, <2>11
        <3> QED  BY <2>10, <3>1, NearestUnique
    <2>13. h * (u * t) = (h * u) * t
        BY <1>1
    <2> QED  BY <1>1, <2>2, <2>7, <2>10, <2>12, <2>13
<1> QED  BY <1>2, <1>3, <1>4, <1>5

\* The scale a coefficient is given in changes nothing of what is kept.
LEMMA KeptScale ==
    ASSUME NEW n \in Int, NEW k \in Nat
    PROVE  Kept(n * Ten[k]) = Kept(n) * Ten[k]
<1>1. CASE n \in Nat
    BY <1>1, KeptScaleOfNatural
<1>2. CASE n < 0
    <2>1. PICK m \in Nat : m = -n
        BY <1>2
    <2>2. PICK t \in Nat : t = Ten[k]
        BY TenPositive
    <2>3. Kept(m * t) = Kept(m) * t
        BY <2>2, KeptScaleOfNatural
    <2>4. PICK x, y \in Int : x = Kept(m) /\ y = Kept(m * t)
        BY KeptNegative
    <2>5. Kept(-m) = -x /\ Kept(-(m * t)) = -y
        BY <2>4, KeptNegative
    <2>6. n = -m /\ n * t = -(m * t) /\ (-x) * t = -(x * t)
        BY <2>1, <2>4
    <2> QED  BY <2>2, <2>3, <2>4, <2>5, <2>6
<1> QED  BY <1>1, <1>2

(***************************************************************************)
(* What a difference loses in its rounding, the sum that undoes it loses   *)
(* again: S has a digit less than the context, and D is no longer than S.  *)
(***************************************************************************)
LEMMA SumBackOfNatural ==
    ASSUME NEW s \in Nat, s < Ten[Precision - 1], NEW k \in Nat,
           NEW S \in Nat, S = s * Ten[k],
           NEW D \in Int, D <= S, -D <= S
    PROVE  Kept(S + (Kept(D) - D)) = S
<1>1. Precision \in Nat \ {0} /\ Precision - 1 \in Nat
    BY PrecisionAssumption
<1>2. s < Ten[Precision]
    <2>1. Ten[Precision - 1] <= Ten[Precision]
        BY <1>1, TenGrows
    <2> QED  BY <1>1, <2>1, TenPositive
<1>3. Kept(S) = S
    BY <1>2, KeptBelow
<1>4. PICK a \in Nat : a <= S /\ (D = a \/ D = -a)
    OBVIOUS
<1>5. CASE Length[a] <= Precision
    <2>1. Kept(a) = a /\ Kept(-a) = -a
        BY <1>5, KeptShort, KeptNegative
    <2>2. Kept(D) = D
        BY <1>4, <2>1
    <2>3. S + (D - D) = S
        OBVIOUS
    <2> QED  BY <1>3, <2>2, <2>3
<1>6. CASE Length[a] > Precision
    <2>1. PICK l, d, u, q, r, h \in Nat : Long(a, l, d, u, q, r, h)
        BY <1>6, KeptLong
    <2>2. /\ l = Precision + d /\ u = Ten[d] /\ u >= 1 /\ d >= 1
          /\ Ten[l - 1] <= a
        BY <2>1 DEF Long
    <2>3. l - 1 \in Nat /\ l - 1 = (Precision - 1) + d
        BY <1>1, <2>2
    <2>4. PICK low \in Nat : low = Ten[l - 1] /\ low >= 1
        BY <2>3, TenPositive
    <2>5. PICK error \in Int : /\ error = Kept(D) - D /\ 2 * error <= u /\ 2 * (-error) <= u
                               /\ error <= a - low /\ -error <= a - low
        <3>1. PICK w \in Int : /\ w = Kept(a) - a /\ 2 * w <= u /\ 2 * (-w) <= u
                               /\ w <= a - low /\ -w <= a - low
            BY <2>1, <2>4, KeptError
        <3>2. Kept(D) - D = w \/ Kept(D) - D = -w
            <4>1. PICK x \in Int : x = Kept(a) /\ Kept(-a) = -x
                BY KeptNegative
            <4> QED  BY <1>4, <3>1, <4>1
        <3> QED  BY <3>1, <3>2
    <2>6. PICK X \in Nat : X = S + error /\ X >= low /\ 2 * (X - S) <= u /\ 2 * (S - X) <= u
        BY <1>4, <2>4, <2>5
    <2>7. PICK t, b \in Nat : t = Ten[k] /\ t >= 1 /\ b = Ten[Precision - 1]
        BY <1>1, TenPositive
    <2>8. Ten[(Precision - 1) + k] = b * t
        BY <1>1, <2>7, TenSum
    <2>9. S + t <= b * t
        <3>1. s + 1 <= b
            BY <2>7
        <3>2. (s + 1) * t <= b * t
            BY <2>7, <3>1
        <3>3. (s + 1) * t = s * t + t
            OBVIOUS
        <3> QED  BY <2>7, <3>2, <3>3
    <2>10. d < k
        <3>1. SUFFICES ASSUME k <= d PROVE FALSE
            OBVIOUS
        <3>2. (Precision - 1) + k <= l - 1 /\ (Precision - 1) + k \in Nat
            BY <1>1, <2>3, <3>1
        <3>3. b * t <= low
            BY <2>3, <2>4, <2>8, <3>2, TenGrows
        <3> QED  BY <1>4, <2>2, <2>4, <2>7, <2>9, <3>3
    <2>11. u <= t
        BY <2>2, <2>7, <2>10, TenGrows
    <2>12. X < b * t
        BY <2>2, <2>6, <2>9, <2>11
    <2>13. PICK v \in Nat : v = Length[X] /\ v >= 1 /\ Ten[v - 1] <= X /\ X < Ten[v]
        <3>1. X \in Nat \ {0}
            <4>1. low >= 1 /\ X >= low
                BY <2>4, <2>6
            <4>2. X # 0
                BY <4>1
            <4> QED  BY <4>2
        <3>2. /\ Length[X] \in Nat \ {0}
              /\ Ten[Length[X] - 1] <= X /\ X < Ten[Length[X]]
            BY <3>1, LengthFacts
        <3> QED  BY <3>2
    <2>14. l <= v
        <3>1. SUFFICES ASSUME v <= l - 1 PROVE FALSE
            BY <2>3
        <3>2. Ten[v] <= low
            BY <2>3, <2>4, <3>1, TenGrows
        <3>3. Ten[v] \in Nat
            BY TenPositive
        <3> QED  BY <2>6, <2>13, <3>2, <3>3
    <2>15. v - 1 < (Precision - 1) + k
        <3>1. SUFFICES ASSUME (Precision - 1) + k <= v - 1 PROVE FALSE
            BY <1>1, <2>13
        <3>2. v - 1 \in Nat /\ (Precision - 1) + k \in Nat
            BY <1>1, <2>13
        <3>3. b * t <= Ten[v - 1] /\ Ten[v - 1] \in Nat /\ b * t \in Nat
            BY <2>8, <3>1, <3>2, TenGrows, TenPositive
        <3> QED  BY <2>12, <2>13, <3>3
    <2>16. Length[X] > Precision
        BY <1>1, <2>2, <2>13, <2>14
    <2>17. PICK l2, d2, u2, q2, r2, h2 \in Nat : Long(X, l2, d2, u2, q2, r2, h2)
        BY <2>16, KeptLong
    <2>18. /\ v = Precision + d2 /\ u2 = Ten[d2] /\ u2 >= 1
           /\ Nearest(X, u2, q2, r2, h2) /\ Kept(X) = h2 * u2
        BY <2>13, <2>17 DEF Long
    <2>19. d <= d2 /\ d2 < k
        BY <1>1, <2>2, <2>14, <2>15, <2>18
    <2>20. u <= u2
        BY <2>2, <2>18, <2>19, TenGrows
    <2>21. PICK z \in Nat : t = (10 * z) * u2
        <3>1. (k - d2) + d2 = k /\ k - d2 \in Nat /\ k - d2 - 1 \in Nat /\ (k - d2 - 1) + 1 = k - d2
            BY <2>19
        <3>2. Ten[k] = Ten[k - d2] * Ten[d2]
            BY <3>1, TenSum
        <3>3. Ten[k - d2] = 10 * Ten[k - d2 - 1] /\ Ten[k - d2 - 1] \in Nat
            BY <3>1, TenStep, TenPositive
        <3> QED  BY <2>7, <2>18, <3>2, <3>3
    <2>22. PICK m \in Nat : m = s * (10 * z) /\ m % 2 = 0
        <3>1. s * (10 * z) = 2 * (5 * (s * z))
            OBVIOUS
        <3>2. PICK y \in Nat : y = 5 * (s * z)
            OBVIOUS
        <3>3. (2 * y) % 2 = 0
            OBVIOUS
        <3> QED  BY <3>1, <3>2, <3>3
    <2>23. S = m * u2
        BY <2>7, <2>21, <2>22
    <2>24. 2 * (X - m * u2) <= u2 /\ 2 * (m * u2 - X) <= u2
        BY <2>6, <2>20, <2>23
    <2>25. h2 = m
        <3>1. Nearest(X, u2, q2, r2, h2) /\ u2 >= 1
            BY <2>18
        <3>2. m % 2 = 0
            BY <2>22
        <3> QED  BY <2>24, <3>1, <3>2, NearestEven
    <2> QED  BY <2>5, <2>6, <2>18, <2>23, <2>25
<1>7. Length[a] \in Int
    BY LengthStep
<1> QED  BY <1>1, <1>5, <1>6, <1>7

LEMMA SumBack ==
    ASSUME NEW s \in Int, s < Ten[Precision - 1], -s < Ten[Precision - 1], NEW k \in Nat,
           NEW S \in Int, S = s * Ten[k],
           NEW D \in Int, D \in -S .. S \/ D \in S .. -S
    PROVE  Kept(S + (Kept(D) - D)) = S
<1>1. PICK t \in Nat : t = Ten[k] /\ t >= 1
    BY TenPositive
<1>2. CASE s >= 0
    <2>1. S \in Nat /\ D <= S /\ -D <= S
        BY <1>1, <1>2
    <2> QED  BY <1>2, <2>1, SumBackOfNatural
<1>3. CASE s < 0
    <2>1. PICK a \in Nat : a = -s
        BY <1>3
    <2>2. -S = a * t /\ -S \in Nat
        BY <1>1, <2>1
    <2>3. PICK E \in Int : E = -D
        OBVIOUS
    <2>4. PICK A \in Nat : A = -S
        BY <2>2
    <2>5. E <= A /\ -E <= A
        BY <2>3, <2>4
    <2>6. Kept(A + (Kept(E) - E)) = A
        BY <1>1, <2>1, <2>2, <2>4, <2>5, SumBackOfNatural
    <2>7. PICK x \in Int : x = Kept(E) /\ Kept(-E) = -x
        BY KeptNegative
    <2>8. PICK X \in Int : X = A + (x - E) /\ Kept(X) = A
        BY <2>6, <2>7
    <2>9. Kept(-X) = -A
        BY <2>8, KeptNegative
    <2>10. -E = D /\ S + (Kept(D) - D) = -X /\ -A = S
        BY <2>3, <2>4, <2>7, <2>8
    <2> QED  BY <2>9, <2>10
<1> QED  BY <1>2, <1>3

LEMMA DecimalFields ==
    /\ \A c, e \in Int : [c |-> c, e |-> e] \in Decimal
    /\ \A x \in Decimal : x.c \in Int /\ x.e \in Int /\ x = [c |-> x.c, e |-> x.e]
BY DEF Decimal

LEMMA TrailingZeros ==
    ASSUME NEW c \in Int, c # 0
    PROVE  \E k \in 0 .. Digits(c) : c % Ten[k] = 0 /\ c % Ten[k + 1] # 0
<1> DEFINE T == {k \in Nat : c % Ten[k + 1] # 0}
<1>1. PICK a \in Nat : a = Abs(c) /\ a # 0 /\ (c = a \/ c = -a)
    BY DEF Abs
<1>2. PICK l \in Nat : l = Digits(c) /\ l = Length[a]
    BY <1>1, DigitsAreCounted DEF Digits
<1>3. l \in T
    <2>1. a < Ten[l] /\ Ten[l] <= Ten[l + 1]
        BY <1>1, <1>2, LengthFacts, TenGrows
    <2>2. PICK u \in Nat : u = Ten[l + 1] /\ a < u
        BY <2>1, TenPositive
    <2>3. c % u # 0
        <3>1. SUFFICES ASSUME c % u = 0 PROVE FALSE
            OBVIOUS
        <3>2. c = ((c \div u) * u) + (c % u)
            BY <2>2
        <3>3. PICK y \in Int : c = y * u
            BY <2>2, <3>1, <3>2
        <3>4. y >= 1 => y * u >= u
            OBVIOUS
        <3>5. y <= -1 => y * u <= -u
            OBVIOUS
        <3>6. y = 0 => y * u = 0
            OBVIOUS
        <3> QED  BY <1>1, <2>2, <3>3, <3>4, <3>5, <3>6
    <2> QED  BY <2>2, <2>3
<1>4. PICK k \in T : \A m \in T : k <= m
    BY <1>3, Least
<1>5. k \in 0 .. l
    BY <1>3, <1>4
<1>6. c % Ten[k] = 0
    <2>1. CASE k = 0
        <3>1. c % 1 = 0
            OBVIOUS
        <3> QED  BY <2>1, <3>1, TenStep
    <2>2. CASE k # 0
        <3>1. k - 1 \in Nat /\ k - 1 \notin T /\ (k - 1) + 1 = k
            BY <1>4, <2>2
        <3> QED  BY <3>1
    <2> QED  BY <2>1, <2>2
<1> QED  BY <1>2, <1>4, <1>5, <1>6

\* Dec moves the trailing zeros into the exponent and changes nothing else.
LEMMA DecFacts ==
    ASSUME NEW c \in Int, NEW e \in Int
    PROVE  /\ Normal(Dec(c, e))
           /\ c = 0 => Dec(c, e) = [c |-> 0, e |-> 0]
           /\ c # 0 => \E k \in Nat : /\ Dec(c, e).c # 0 /\ Dec(c, e).e = e + k
                                      /\ c = Dec(c, e).c * Ten[k]
<1>1. CASE c = 0
    <2>1. Dec(c, e) = [c |-> 0, e |-> 0]
        BY <1>1, Zenon DEF Dec
    <2>2. Normal([c |-> 0, e |-> 0])
        BY DEF Normal, Decimal
    <2> QED  BY <1>1, <2>1, <2>2
<1>2. CASE c # 0
    <2> DEFINE zeros == CHOOSE k \in 0 .. Digits(c) : c % Ten[k] = 0 /\ c % Ten[k + 1] # 0
    <2>1. zeros \in 0 .. Digits(c) /\ c % Ten[zeros] = 0 /\ c % Ten[zeros + 1] # 0
        BY <1>2, TrailingZeros
    <2>2. Dec(c, e) = [c |-> c \div Ten[zeros], e |-> e + zeros]
        BY <1>2, Zenon DEF Dec
    <2> HIDE DEF zeros
    <2>3. PICK k \in Nat : k = zeros /\ c % Ten[k] = 0 /\ c % Ten[k + 1] # 0
        BY <2>1, DigitsAreCounted
    <2>4. PICK u \in Nat : u = Ten[k] /\ u >= 1
        BY TenPositive
    <2>5. PICK b \in Int : b = c \div u /\ c = b * u
        <3>1. c \div u \in Int /\ c = ((c \div u) * u) + (c % u)
            BY <2>4
        <3>2. c % u = 0
            BY <2>3, <2>4
        <3> QED  BY <3>1, <3>2
    <2>6. b % 10 # 0
        <3>1. SUFFICES ASSUME b % 10 = 0 PROVE FALSE
            OBVIOUS
        <3>2. PICK y \in Int : b = 10 * y
            BY <3>1
        <3>3. c = y * (10 * u)
            BY <2>5, <3>2
        <3>4. PICK v \in Nat : v = Ten[k + 1] /\ v = 10 * u /\ v >= 1
            BY <2>4, TenStep, TenPositive
        <3>5. (y * v) % v = 0
            BY <3>4
        <3> QED  BY <2>3, <3>3, <3>4, <3>5
    <2>7. PICK f \in Int : f = e + k
        OBVIOUS
    <2>8. Dec(c, e) = [c |-> b, e |-> f]
        BY <2>2, <2>3, <2>4, <2>5, <2>7
    <2>9. PICK x : x = Dec(c, e)
        OBVIOUS
    <2>10. x \in Decimal /\ x.c = b /\ x.e = f
        BY <2>8, <2>9, DecimalFields
    <2>11. b # 0
        BY <2>6
    <2>12. Normal(x)
        BY <2>6, <2>10, <2>11 DEF Normal
    <2> QED  BY <1>2, <2>4, <2>5, <2>7, <2>9, <2>10, <2>11, <2>12
<1> QED  BY <1>1, <1>2

LEMMA DecAligned ==
    ASSUME NEW c \in Int, NEW e \in Int, NEW w \in Int, w <= e, w <= 0
    PROVE  w <= Dec(c, e).e /\ Aligned(Dec(c, e), w) = c * Ten[e - w]
<1>1. PICK t \in Nat : t = Ten[e - w]
    BY TenPositive
<1>2. CASE c = 0
    <2>1. Dec(c, e).e = 0 /\ Dec(c, e).c = 0
        BY <1>2, DecFacts
    <2>2. PICK v \in Nat : v = Ten[0 - w]
        BY TenPositive
    <2>3. 0 * v = 0 /\ 0 * t = 0
        OBVIOUS
    <2> QED  BY <1>1, <1>2, <2>1, <2>2, <2>3 DEF Aligned
<1>3. CASE c # 0
    <2>1. PICK k \in Nat : Dec(c, e).e = e + k /\ c = Dec(c, e).c * Ten[k]
        BY <1>3, DecFacts
    <2>2. PICK b \in Int : b = Dec(c, e).c
        BY DecFacts, DecimalFields DEF Normal
    <2>3. PICK u \in Nat : u = Ten[k]
        BY TenPositive
    <2>4. (e + k) - w = k + (e - w) /\ e - w \in Nat
        OBVIOUS
    <2>5. Ten[k + (e - w)] = u * t
        BY <1>1, <2>3, <2>4, TenSum
    <2>6. Aligned(Dec(c, e), w) = b * (u * t)
        BY <2>1, <2>2, <2>4, <2>5 DEF Aligned
    <2>7. b * (u * t) = (b * u) * t
        OBVIOUS
    <2> QED  BY <1>1, <2>1, <2>2, <2>3, <2>6, <2>7
<1> QED  BY <1>2, <1>3

LEMMA AlignedLower ==
    ASSUME NEW x \in Decimal, NEW w \in Int, w <= x.e, NEW v \in Int, v <= w
    PROVE  Aligned(x, w) \in Int /\ Aligned(x, v) = Aligned(x, w) * Ten[w - v]
<1>1. PICK b \in Int, f \in Int : b = x.c /\ f = x.e
    BY DecimalFields
<1>2. f - w \in Nat /\ w - v \in Nat /\ f - v = (f - w) + (w - v)
    BY <1>1
<1>3. PICK t, u \in Nat : t = Ten[f - w] /\ u = Ten[w - v]
    BY <1>2, TenPositive
<1>4. Ten[f - v] = t * u
    BY <1>2, <1>3, TenSum
<1>5. Aligned(x, w) = b * t /\ Aligned(x, v) = b * (t * u)
    BY <1>1, <1>3, <1>4 DEF Aligned
<1>6. b * (t * u) = (b * t) * u
    OBVIOUS
<1> QED  BY <1>3, <1>5, <1>6

LEMMA RoundedAligned ==
    ASSUME NEW c \in Int, NEW e \in Int, NEW w \in Int, w <= e, w <= 0
    PROVE  /\ Normal(Rounded(c, e)) /\ w <= Rounded(c, e).e
           /\ Aligned(Rounded(c, e), w) = Kept(c * Ten[e - w])
<1>1. PICK l \in Nat : l = Digits(c)
    BY DigitsAreCounted
<1>2. Precision \in Nat
    BY PrecisionAssumption
<1>3. e - w \in Nat
    OBVIOUS
<1>4. PICK t \in Nat : t = Ten[e - w]
    BY <1>3, TenPositive
<1>5. Kept(c * Ten[e - w]) = Kept(c) * t
    BY <1>3, <1>4, KeptScale
<1>6. CASE l <= Precision
    <2>1. l - Precision <= 0
        BY <1>2, <1>6
    <2>2. Rounded(c, e) = Dec(c, e)
        BY <1>1, <2>1, Zenon DEF Rounded
    <2>3. Kept(c) = c
        BY <1>1, <2>1, Zenon DEF Kept
    <2>4. Normal(Dec(c, e)) /\ w <= Dec(c, e).e /\ Aligned(Dec(c, e), w) = c * t
        BY <1>4, DecFacts, DecAligned
    <2> QED  BY <1>5, <2>2, <2>3, <2>4
<1>7. CASE l > Precision
    <2>1. PICK d \in Nat : d = l - Precision /\ ~(d <= 0)
        BY <1>2, <1>7
    <2>2. PICK h \in Int : h = HalfEven(c, d)
        BY HalfEvenNegative
    <2>3. Rounded(c, e) = Dec(h, e + d)
        BY <1>1, <2>1, <2>2, Zenon DEF Rounded
    <2>4. Kept(c) = h * Ten[d]
        BY <1>1, <2>1, <2>2, Zenon DEF Kept
    <2>5. PICK u \in Nat : u = Ten[d]
        BY TenPositive
    <2>6. PICK f \in Int : f = e + d /\ w <= f /\ f - w = d + (e - w)
        OBVIOUS
    <2>7. Ten[f - w] = u * t
        BY <1>3, <1>4, <2>5, <2>6, TenSum
    <2>8. h * (u * t) = (h * u) * t
        OBVIOUS
    <2>9. Normal(Dec(h, f)) /\ w <= Dec(h, f).e /\ Aligned(Dec(h, f), w) = h * (u * t)
        BY <2>6, <2>7, DecFacts, DecAligned
    <2> QED  BY <1>5, <2>3, <2>4, <2>5, <2>6, <2>8, <2>9
<1> QED  BY <1>1, <1>2, <1>6, <1>7

LEMMA PlusAligned ==
    ASSUME NEW a \in Decimal, NEW b \in Decimal,
           NEW w \in Int, w <= a.e, w <= b.e, w <= 0
    PROVE  /\ Normal(Plus(a, b)) /\ w <= Plus(a, b).e
           /\ Aligned(Plus(a, b), w) = Kept(Aligned(a, w) + Aligned(b, w))
<1>1. PICK e \in Int : e = Lower(a, b) /\ e <= a.e /\ e <= b.e /\ w <= e
    BY DecimalFields DEF Lower
<1>2. PICK x, y \in Int : x = Aligned(a, e) /\ y = Aligned(b, e)
    BY <1>1, AlignedLower
<1>3. Plus(a, b) = Rounded(x + y, e)
    BY <1>1, <1>2, Zenon DEF Plus
<1>4. PICK t \in Nat : t = Ten[e - w]
    BY <1>1, TenPositive
<1>5. Aligned(a, w) = x * t /\ Aligned(b, w) = y * t
    BY <1>1, <1>2, <1>4, AlignedLower
<1>6. x * t + y * t = (x + y) * t
    OBVIOUS
<1>7. PICK z \in Int : z = x + y
    OBVIOUS
<1>8. /\ Normal(Rounded(z, e)) /\ w <= Rounded(z, e).e
      /\ Aligned(Rounded(z, e), w) = Kept(z * t)
    BY <1>1, <1>4, RoundedAligned
<1> QED  BY <1>3, <1>5, <1>6, <1>7, <1>8

LEMMA NegatedAligned ==
    ASSUME NEW b \in Decimal, NEW w \in Int, w <= b.e, w <= 0
    PROVE  /\ Dec(-b.c, b.e) \in Decimal /\ w <= Dec(-b.c, b.e).e
           /\ Aligned(b, w) \in Int /\ Aligned(Dec(-b.c, b.e), w) = -Aligned(b, w)
<1>1. PICK c, e \in Int : c = b.c /\ e = b.e
    BY DecimalFields
<1>2. PICK t \in Nat : t = Ten[e - w]
    BY <1>1, TenPositive
<1>3. PICK n \in Int : n = -c
    OBVIOUS
<1>4. Aligned(Dec(n, e), w) = n * t /\ w <= Dec(n, e).e /\ Normal(Dec(n, e))
    <2>1. w <= e
        BY <1>1
    <2>2. Normal(Dec(n, e))
        BY DecFacts
    <2>3. w <= Dec(n, e).e /\ Aligned(Dec(n, e), w) = n * Ten[e - w]
        BY <2>1, DecAligned
    <2> QED  BY <1>2, <2>2, <2>3
<1>5. Aligned(b, w) = c * t
    BY <1>1, <1>2 DEF Aligned
<1>6. n * t = -(c * t)
    BY <1>3
<1> QED  BY <1>1, <1>3, <1>4, <1>5, <1>6 DEF Normal

LEMMA MinusAligned ==
    ASSUME NEW a \in Decimal, NEW b \in Decimal,
           NEW w \in Int, w <= a.e, w <= b.e, w <= 0
    PROVE  /\ Normal(Minus(a, b)) /\ w <= Minus(a, b).e
           /\ Aligned(a, w) \in Int /\ Aligned(b, w) \in Int
           /\ Aligned(Minus(a, b), w) = Kept(Aligned(a, w) - Aligned(b, w))
<1>1. PICK n \in Decimal : n = Dec(-b.c, b.e) /\ w <= n.e /\ Aligned(n, w) = -Aligned(b, w)
    BY NegatedAligned
<1>2. Minus(a, b) = Plus(a, n)
    BY <1>1 DEF Minus
<1>3. PICK x, y \in Int : x = Aligned(a, w) /\ y = Aligned(b, w)
    BY AlignedLower
<1>4. x + (-y) = x - y
    OBVIOUS
<1>5. /\ Normal(Plus(a, n)) /\ w <= Plus(a, n).e
      /\ Aligned(Plus(a, n), w) = Kept(Aligned(a, w) + Aligned(n, w))
    BY <1>1, PlusAligned
<1> QED  BY <1>1, <1>2, <1>3, <1>4, <1>5

\* x has the sign of y and is not longer.
Within(x, y) == x \in 0 .. y \/ x \in y .. 0

LEMMA WithinFacts ==
    /\ \A x, y, z \in Int : Within(x, y) /\ Within(y, z) => Within(x, z)
    /\ \A x, y \in Int, t \in Nat : Within(x, y) => Within(x * t, y * t)
<1>1. \A x, y, z \in Int : Within(x, y) /\ Within(y, z) => Within(x, z)
    BY DEF Within
<1>2. ASSUME NEW x \in Int, NEW y \in Int, NEW t \in Nat, Within(x, y)
      PROVE  Within(x * t, y * t)
    <2>1. ASSUME NEW a \in Int, NEW b \in Int, a <= b PROVE a * t <= b * t
        BY <2>1
    <2>2. 0 * t = 0
        OBVIOUS
    <2>3. CASE 0 <= x /\ x <= y
        <3>1. 0 * t <= x * t /\ x * t <= y * t
            BY <2>1, <2>3
        <3> QED  BY <2>2, <3>1 DEF Within
    <2>4. CASE y <= x /\ x <= 0
        <3>1. y * t <= x * t /\ x * t <= 0 * t
            BY <2>1, <2>4
        <3> QED  BY <2>2, <3>1 DEF Within
    <2> QED  BY <1>2, <2>3, <2>4 DEF Within
<1> QED  BY <1>1, <1>2

LEMMA KeptWithin ==
    ASSUME NEW m \in Int, m < Ten[Precision], -m < Ten[Precision], NEW j \in Nat,
           NEW n \in Int, Within(n, m * Ten[j])
    PROVE  Within(Kept(n), m * Ten[j])
<1>1. PICK t \in Nat : t = Ten[j] /\ t >= 1
    BY TenPositive
<1>2. CASE n = 0
    <2>1. Kept(0) = 0
        BY KeptNegative
    <2> QED  BY <1>2, <2>1
<1>3. CASE n > 0
    <2>1. n <= m * t
        BY <1>1, <1>3 DEF Within
    <2>2. m >= 0
        <3>1. m <= -1 => m * t <= 0
            OBVIOUS
        <3> QED  BY <1>3, <2>1, <3>1
    <2>3. Kept(n) \in Nat /\ Kept(n) <= m * t
        BY <1>1, <1>3, <2>1, <2>2, KeptBelow
    <2> QED  BY <1>1, <2>3 DEF Within
<1>4. CASE n < 0
    <2>1. m * t <= n
        BY <1>1, <1>4 DEF Within
    <2>2. m <= 0
        <3>1. m >= 1 => m * t >= 0
            OBVIOUS
        <3> QED  BY <1>4, <2>1, <3>1
    <2>3. PICK a, b \in Nat : a = -m /\ b = -n
        BY <1>4, <2>2
    <2>4. a * t = -(m * t)
        BY <2>3
    <2>5. Kept(b) \in Nat /\ Kept(b) <= a * t
        BY <1>1, <2>1, <2>3, <2>4, KeptBelow
    <2>6. PICK k \in Nat : k = Kept(b) /\ Kept(-b) = -k
        BY <2>5, KeptNegative
    <2>7. -b = n
        BY <2>3
    <2>8. PICK y \in Int : y = m * t
        OBVIOUS
    <2>9. k <= -y
        BY <2>4, <2>5, <2>6, <2>8
    <2>10. Within(-k, y)
        BY <2>9 DEF Within
    <2> QED  BY <1>1, <2>6, <2>7, <2>8, <2>10
<1> QED  BY <1>2, <1>3, <1>4

LEMMA TimesAligned ==
    ASSUME NEW a \in Decimal, NEW b \in Decimal, NEW w \in Int, w <= a.e + b.e, w <= 0
    PROVE  /\ Normal(Times(a, b)) /\ w <= Times(a, b).e
           /\ Aligned(Times(a, b), w) = Kept((a.c * b.c) * Ten[(a.e + b.e) - w])
<1>1. PICK c, e \in Int : c = a.c * b.c /\ e = a.e + b.e
    BY DecimalFields
<1>2. Times(a, b) = Rounded(c, e)
    BY <1>1, Zenon DEF Times
<1> QED  BY <1>1, <1>2, RoundedAligned

\* A rate of at most one takes no more than there is.
LEMMA TimesRate ==
    ASSUME NEW x \in Decimal, NEW j \in Nat, NEW rate \in Nat, rate <= Ten[j],
           NEW w \in Int, w <= x.e - j, w <= 0,
           NEW m \in Int, m < Ten[Precision], -m < Ten[Precision], NEW k \in Nat,
           Within(Aligned(x, w), m * Ten[k])
    PROVE  /\ Normal(Times(x, Dec(rate, -j))) /\ w <= Times(x, Dec(rate, -j)).e
           /\ Within(Aligned(Times(x, Dec(rate, -j)), w), m * Ten[k])
<1>1. PICK c, e \in Int : c = x.c /\ e = x.e
    BY DecimalFields
<1>2. PICK r : r = Dec(rate, -j)
    OBVIOUS
<1>3. /\ Normal(r) /\ r \in Decimal
      /\ rate = 0 => r.c = 0 /\ r.e = 0
      /\ rate # 0 => \E i \in Nat : r.e = i - j /\ rate = r.c * Ten[i]
    <2>1. PICK f \in Int : f = -j
        OBVIOUS
    <2>2. /\ Normal(Dec(rate, f))
          /\ rate = 0 => Dec(rate, f) = [c |-> 0, e |-> 0]
          /\ rate # 0 => \E i \in Nat : /\ Dec(rate, f).e = f + i
                                        /\ rate = Dec(rate, f).c * Ten[i]
        <3>1. rate \in Int
            OBVIOUS
        <3> QED  BY <3>1, DecFacts, Zenon
    <2>3. r = Dec(rate, f)
        BY <1>2, <2>1
    <2>4. rate = 0 => r.c = 0 /\ r.e = 0
        BY <2>2, <2>3
    <2>5. \A i \in Nat : f + i = i - j
        BY <2>1
    <2>6. rate # 0 => \E i \in Nat : r.e = i - j /\ rate = r.c * Ten[i]
        BY <2>2, <2>3, <2>5
    <2> QED  BY <2>2, <2>3, <2>4, <2>6 DEF Normal
<1>4. PICK b, f \in Int : b = r.c /\ f = r.e
    BY <1>3, DecimalFields
<1>5. PICK g \in Nat : g = (e - j) - w
    BY <1>1
<1>6. PICK t, s \in Nat : t = Ten[g] /\ s = Ten[j]
    BY TenPositive
<1>7. Aligned(x, w) = c * (s * t) /\ Aligned(x, w) \in Int
    <2>1. e - w = j + g
        BY <1>5
    <2>2. Ten[e - w] = s * t
        BY <1>6, <2>1, TenSum
    <2> QED  BY <1>1, <2>2 DEF Aligned
<1>8. w <= e + f /\ (c * b) * Ten[(e + f) - w] = (c * rate) * t
    <2>1. CASE rate = 0
        <3>1. b = 0 /\ f = 0
            BY <1>3, <1>4, <2>1
        <3>2. PICK v \in Nat : v = Ten[(e + f) - w]
            BY <1>1, <3>1, TenPositive
        <3>3. (c * 0) * v = 0 /\ (c * 0) * t = 0
            OBVIOUS
        <3> QED  BY <1>1, <2>1, <3>1, <3>2, <3>3
    <2>2. CASE rate # 0
        <3>1. PICK i \in Nat : f = i - j /\ rate = b * Ten[i]
            BY <1>3, <1>4, <2>2
        <3>2. PICK v \in Nat : v = Ten[i]
            BY TenPositive
        <3>3. (e + f) - w = i + g
            BY <1>5, <3>1
        <3>4. Ten[(e + f) - w] = v * t
            BY <1>6, <3>2, <3>3, TenSum
        <3>5. (c * b) * (v * t) = (c * (b * v)) * t
            OBVIOUS
        <3> QED  BY <1>1, <3>1, <3>2, <3>4, <3>5
    <2> QED  BY <2>1, <2>2
<1>9. Within((c * rate) * t, c * (s * t))
    <2>1. Within(c * rate, c * s)
        <3>1. c >= 0 => 0 <= c * rate /\ c * rate <= c * s
            BY <1>6
        <3>2. c <= 0 => c * s <= c * rate /\ c * rate <= 0
            BY <1>6
        <3> QED  BY <3>1, <3>2 DEF Within
    <2>2. (c * s) * t = c * (s * t)
        OBVIOUS
    <2>3. c * rate \in Int /\ c * s \in Int
        OBVIOUS
    <2> QED  BY <2>1, <2>2, <2>3, WithinFacts
<1>10. PICK n \in Int : n = (c * rate) * t
    OBVIOUS
<1>11. m * Ten[k] \in Int
    BY TenPositive
<1>12. Within(n, m * Ten[k])
    BY <1>7, <1>9, <1>10, <1>11, WithinFacts
<1>13. Within(Kept(n), m * Ten[k])
    BY <1>12, KeptWithin
<1>14. /\ Normal(Times(x, r)) /\ w <= Times(x, r).e
       /\ Aligned(Times(x, r), w) = Kept(n)
    BY <1>1, <1>3, <1>4, <1>8, <1>10, TimesAligned
<1> QED  BY <1>2, <1>13, <1>14

LEMMA DividedWithin ==
    ASSUME NEW a \in Decimal, a.c < Ten[Precision], -a.c < Ten[Precision],
           NEW w \in Int, w <= a.e - Precision - 1, w <= 0
    PROVE  /\ Normal(DividedBy12(a)) /\ w <= DividedBy12(a).e
           /\ Within(Aligned(DividedBy12(a), w), Aligned(a, w))
<1>1. PICK c, e \in Int : c = a.c /\ e = a.e
    BY DecimalFields
<1>2. PICK P \in Nat : P = Precision
    BY PrecisionAssumption
<1>3. PICK p \in Nat : p = Ten[P] /\ p >= 1
    BY TenPositive
<1>4. PICK b \in Nat, sign \in {1, -1} : b = Abs(c) /\ c = sign * b /\ sign = IF c < 0 THEN -1 ELSE 1
    <2>1. CASE c < 0
        BY <2>1 DEF Abs
    <2>2. CASE ~(c < 0)
        BY <2>2 DEF Abs
    <2> QED  BY <2>1, <2>2
<1>5. PICK n \in Nat : n = (5 * b) * p
    OBVIOUS
<1>6. PICK q, r \in Nat : q = n \div 6 /\ r = n % 6 /\ n = q * 6 + r /\ r < 6
    BY Division
<1>7. DividedBy12(a) = IF r = 0 THEN Rounded(sign * q, e - P)
                       ELSE Rounded(sign * (10 * q + 1), e - P - 1)
    BY <1>1, <1>2, <1>3, <1>4, <1>5, <1>6, Zenon DEF DividedBy12
<1>8. 5 * (b * p) = n /\ b * p \in Nat
    BY <1>5
<1>9. Aligned(a, w) = c * Ten[e - w]
    BY <1>1 DEF Aligned
<1>10. ASSUME NEW i \in Nat, NEW x \in Nat, x <= (b * p) * Ten[i],
              NEW f \in Int, f = e - P - i, w <= f
       PROVE  /\ Normal(Rounded(sign * x, f)) /\ w <= Rounded(sign * x, f).e
              /\ Within(Aligned(Rounded(sign * x, f), w), Aligned(a, w))
    <2>1. PICK g \in Nat : g = f - w
        BY <1>10
    <2>2. PICK s, t \in Nat : s = Ten[i] /\ t = Ten[g]
        BY TenPositive
    <2>3. Ten[e - w] = p * (s * t)
        <3>1. e - w = P + (i + g)
            BY <1>2, <1>10, <2>1
        <3>2. Ten[i + g] = s * t
            BY <2>2, TenSum
        <3>3. Ten[P + (i + g)] = p * (s * t)
            BY <1>3, <3>2, TenSum
        <3> QED  BY <3>1, <3>3
    <2>4. PICK y \in Int : y = sign * x
        BY <1>4
    <2>5. Within(y, c * (p * s))
        <3>1. x <= b * (p * s) /\ b * (p * s) \in Nat
            <4>1. (b * p) * s = b * (p * s)
                OBVIOUS
            <4> QED  BY <1>10, <2>2, <4>1
        <3>2. CASE sign = 1
            <4>1. y = x /\ c = b
                <5>1. 1 * x = x /\ 1 * b = b
                    OBVIOUS
                <5> QED  BY <1>4, <2>4, <3>2, <5>1, Zenon
            <4> QED  BY <3>1, <4>1 DEF Within
        <3>3. CASE sign = -1
            <4>1. y = -x /\ c = -b
                <5>1. (-1) * x = -x /\ (-1) * b = -b
                    OBVIOUS
                <5> QED  BY <1>4, <2>4, <3>3, <5>1, Zenon
            <4>2. c * (p * s) = -(b * (p * s))
                BY <4>1
            <4>3. PICK z \in Nat : z = b * (p * s) /\ x <= z
                BY <3>1
            <4>4. Within(-x, -z)
                BY <4>3 DEF Within
            <4> QED  BY <4>1, <4>2, <4>3, <4>4
        <3> QED  BY <1>4, <3>2, <3>3
    <2>6. Within(y * t, c * Ten[e - w])
        <3>1. (c * (p * s)) * t = c * (p * (s * t))
            OBVIOUS
        <3>2. c * (p * s) \in Int
            OBVIOUS
        <3> QED  BY <2>3, <2>5, <3>1, <3>2, WithinFacts
    <2>7. PICK z \in Int : z = y * t
        OBVIOUS
    <2>8. e - w \in Nat
        BY <1>2, <1>10, <2>1
    <2>9. Within(Kept(z), c * Ten[e - w])
        BY <1>1, <2>6, <2>7, <2>8, KeptWithin
    <2>10. /\ Normal(Rounded(y, f)) /\ w <= Rounded(y, f).e
           /\ Aligned(Rounded(y, f), w) = Kept(z)
        <3>1. z = y * Ten[f - w]
            BY <2>1, <2>2, <2>7
        <3>2. /\ Normal(Rounded(y, f)) /\ w <= Rounded(y, f).e
              /\ Aligned(Rounded(y, f), w) = Kept(y * Ten[f - w])
            <4>1. w <= f /\ w <= 0
                BY <1>10
            <4> QED  BY <4>1, RoundedAligned
        <3> QED  BY <3>1, <3>2
    <2> QED  BY <1>9, <2>4, <2>9, <2>10
<1>11. CASE r = 0
    <2>1. PICK f \in Int : f = e - P /\ f = e - P - 0
        OBVIOUS
    <2>2. w <= f
        BY <1>1, <1>2, <2>1
    <2>3. q <= (b * p) * Ten[0]
        <3>1. Ten[0] = 1 /\ (b * p) * 1 = b * p
            BY TenStep
        <3>2. q <= b * p
            BY <1>6, <1>8
        <3> QED  BY <3>1, <3>2
    <2> QED  BY <1>7, <1>10, <1>11, <2>1, <2>2, <2>3
<1>12. CASE r # 0
    <2>1. PICK f \in Int : f = e - P - 1
        OBVIOUS
    <2>2. w <= f
        BY <1>1, <1>2, <2>1
    <2>3. Ten[1] = 10
        <3>1. Ten[0 + 1] = 10 * Ten[0] /\ 0 + 1 = 1 /\ Ten[0] = 1
            BY TenStep
        <3> QED  BY <3>1
    <2>4. PICK x \in Nat : x = 10 * q + 1
        OBVIOUS
    <2>5. x <= (b * p) * Ten[1]
        <3>1. PICK z \in Nat : z = b * p
            BY <1>8
        <3>2. 5 * z = q * 6 + r /\ r >= 1
            BY <1>6, <1>8, <1>12, <3>1
        <3> QED  BY <2>3, <2>4, <3>1, <3>2
    <2> QED  BY <1>7, <1>10, <1>12, <2>1, <2>2, <2>4, <2>5
<1> QED  BY <1>11, <1>12

\* Aligned at one scale, two decimals have the same value at any.
LEMMA SameAligned ==
    ASSUME NEW a \in Decimal, NEW b \in Decimal, NEW w \in Int, w <= a.e, w <= b.e,
           Aligned(a, w) = Aligned(b, w)
    PROVE  SameValue(a, b)
<1>1. PICK e \in Int : e = Lower(a, b) /\ e <= a.e /\ e <= b.e /\ w <= e
    BY DecimalFields DEF Lower
<1>2. PICK x, y \in Int : x = Aligned(a, e) /\ y = Aligned(b, e)
    BY <1>1, AlignedLower
<1>3. PICK t \in Nat : t = Ten[e - w] /\ t >= 1
    BY <1>1, TenPositive
<1>4. Aligned(a, w) = x * t /\ Aligned(b, w) = y * t
    BY <1>1, <1>2, <1>3, AlignedLower
<1>5. x = y
    <2>1. x < y => x * t + t <= y * t
        <3>1. x + 1 <= y => (x + 1) * t <= y * t
            OBVIOUS
        <3>2. (x + 1) * t = x * t + t
            OBVIOUS
        <3> QED  BY <3>1, <3>2
    <2>2. y < x => y * t + t <= x * t
        <3>1. y + 1 <= x => (y + 1) * t <= x * t
            OBVIOUS
        <3>2. (y + 1) * t = y * t + t
            OBVIOUS
        <3> QED  BY <3>1, <3>2
    <2>3. x * t = y * t
        BY <1>4, Zenon
    <2>4. x * t \in Int
        OBVIOUS
    <2> QED  BY <1>3, <2>1, <2>2, <2>3, <2>4
<1> QED  BY <1>1, <1>2, <1>5, Zenon DEF SameValue

(***************************************************************************)
(* The chain of a settlement (certified_calculator.py) gives back what it  *)
(* was given: when the total has a digit to spare and the rate is at most  *)
(* one, the invoice and the net payable, rounded as they are, add up to    *)
(* the sales exactly, and so do the commission and its tax to the invoice. *)
(***************************************************************************)
THEOREM CertifiedAddsUp ==
    ASSUME NEW S \in Decimal, S.c < Ten[Precision - 1], -S.c < Ten[Precision - 1],
           NEW rate \in 0 .. One
    PROVE  LET m == Certified(S, rate)
           IN  /\ SameValue(m.sales, Plus(m.net, m.ttc))
               /\ SameValue(m.ttc, Plus(m.commission, m.tva))
<1>1. PICK c, e \in Int : c = S.c /\ e = S.e
    BY DecimalFields
<1>2. PICK P \in Nat \ {0} : P = Precision
    BY PrecisionAssumption
<1>3. PICK p \in Nat : p = Ten[P - 1] /\ Ten[P] = 10 * p /\ p >= 1
    <2>1. P - 1 \in Nat /\ (P - 1) + 1 = P
        OBVIOUS
    <2> QED  BY <2>1, TenStep, TenPositive
<1>4. c < p /\ -c < p
    BY <1>1, <1>2, <1>3
<1>5. PICK v \in Int : v <= 0 /\ v <= e - P - 1
    <2>1. PICK x \in Int : x = e - P - 1
        OBVIOUS
    <2>2. CASE x <= 0
        <3>1. x <= 0 /\ x <= e - P - 1
            BY <2>1, <2>2
        <3> QED  BY <3>1, Zenon
    <2>3. CASE 0 < x
        <3>1. 0 \in Int /\ 0 <= 0 /\ 0 <= e - P - 1
            BY <2>1, <2>3
        <3> QED  BY <3>1, Zenon
    <2> QED  BY <2>1, <2>2, <2>3
<1>6. PICK w \in Int : w = v - 6
    OBVIOUS
<1>7. w <= e /\ w <= 0 /\ w <= e - P - 1
    BY <1>5, <1>6
<1>8. PICK ht : ht = DividedBy12(S)
    OBVIOUS
<1>9. c < Ten[Precision] /\ -c < Ten[Precision]
    BY <1>2, <1>3, <1>4
<1>10. Normal(ht) /\ v <= ht.e /\ Within(Aligned(ht, v), Aligned(S, v))
    BY <1>1, <1>2, <1>5, <1>8, <1>9, DividedWithin
<1>11. w <= ht.e /\ Within(Aligned(ht, w), Aligned(S, w))
    BY <1>1, <1>2, <1>7, <1>8, <1>9, DividedWithin
<1>12. Aligned(S, w) = c * Ten[e - w] /\ e - w \in Nat
    BY <1>1, <1>7 DEF Aligned
<1>13. PICK k \in Nat : k = e - w
    BY <1>12
<1>14. PICK t \in Nat : t = Ten[k]
    BY TenPositive
<1>15. ht \in Decimal /\ ht.e \in Int
    BY <1>10, DecimalFields DEF Normal
<1>16. PICK C : C = Times(ht, Dec(rate, -4))
    OBVIOUS
<1>17. Ten[4] = 10000 /\ Ten[2] = 100
    <2>1. /\ Ten[0] = 1 /\ Ten[0 + 1] = 10 * Ten[0] /\ Ten[1 + 1] = 10 * Ten[1]
          /\ Ten[2 + 1] = 10 * Ten[2] /\ Ten[3 + 1] = 10 * Ten[3]
        BY TenStep
    <2> QED  BY <2>1
<1>18. rate \in Nat /\ rate <= Ten[4]
    BY <1>17 DEF One
<1>19. Within(Aligned(ht, v - 4), c * Ten[e - (v - 4)]) /\ v - 4 \in Int /\ e - (v - 4) \in Nat
    <2>1. PICK x \in Int : x = v - 4 /\ x <= e - P - 1 /\ x <= 0 /\ x <= e
        BY <1>5
    <2>2. Within(Aligned(ht, x), Aligned(S, x))
        BY <1>1, <1>2, <1>8, <1>9, <2>1, DividedWithin
    <2>3. Aligned(S, x) = c * Ten[e - x] /\ e - x \in Nat
        BY <1>1, <2>1 DEF Aligned
    <2> QED  BY <2>1, <2>2, <2>3
<1>20. Normal(C) /\ v - 4 <= C.e
    <2>1. PICK x \in Int : x = v - 4
        OBVIOUS
    <2>2. x <= ht.e - 4 /\ x <= 0
        BY <1>5, <1>10, <1>15, <2>1
    <2>3. PICK j \in Nat : j = e - x
        BY <1>19, <2>1
    <2>4. Within(Aligned(ht, x), c * Ten[j])
        BY <1>19, <2>1, <2>3
    <2> QED  BY <1>9, <1>15, <1>16, <1>18, <2>1, <2>2, <2>4, TimesRate
<1>21. w <= C.e /\ Within(Aligned(C, w), c * t)
    <2>1. w <= ht.e - 4
        BY <1>6, <1>10, <1>15
    <2>2. Within(Aligned(ht, w), c * Ten[k])
        BY <1>11, <1>12, <1>13
    <2> QED  BY <1>7, <1>9, <1>14, <1>15, <1>16, <1>18, <2>1, <2>2, TimesRate
<1>22. C \in Decimal /\ C.e \in Int
    BY <1>20, DecimalFields DEF Normal
<1>23. PICK V : V = Times(C, Dec(20, -2))
    OBVIOUS
<1>24. Normal(V) /\ w <= V.e /\ Within(Aligned(V, w), c * t)
    <2>1. w <= C.e - 2
        BY <1>6, <1>20, <1>22
    <2>2. 20 \in Nat /\ 20 <= Ten[2]
        BY <1>17
    <2>3. Within(Aligned(C, w), c * Ten[k])
        BY <1>14, <1>21
    <2> QED  BY <1>7, <1>9, <1>14, <1>22, <1>23, <2>1, <2>2, <2>3, TimesRate
<1>25. V \in Decimal
    BY <1>24 DEF Normal
<1>26. PICK T : T = Plus(C, V)
    OBVIOUS
<1>27. Normal(T) /\ w <= T.e /\ Aligned(T, w) = Kept(Aligned(C, w) + Aligned(V, w))
    BY <1>7, <1>21, <1>22, <1>24, <1>25, <1>26, PlusAligned
<1>28. PICK x, y \in Int : x = Aligned(C, w) /\ y = Aligned(V, w)
    BY <1>7, <1>21, <1>22, <1>24, <1>25, AlignedLower
<1>29. PICK S1 \in Int : S1 = c * t
    OBVIOUS
<1>30. Within(Kept(x + y), 2 * S1)
    <2>1. PICK n \in Int : n = x + y
        OBVIOUS
    <2>2. PICK m \in Int : m = 2 * c
        OBVIOUS
    <2>3. m < Ten[Precision] /\ -m < Ten[Precision]
        BY <1>2, <1>3, <1>4, <2>2
    <2>4. m * t = 2 * S1
        BY <1>29, <2>2
    <2>5. Within(x, S1) /\ Within(y, S1)
        BY <1>21, <1>24, <1>28, <1>29
    <2>6. Within(n, 2 * S1)
        BY <2>1, <2>5 DEF Within
    <2>7. Within(n, m * Ten[k])
        BY <1>14, <2>4, <2>6
    <2>8. Within(Kept(n), m * Ten[k])
        BY <2>3, <2>7, KeptWithin
    <2> QED  BY <1>14, <2>1, <2>4, <2>8
<1>31. PICK T1 \in Int : T1 = Aligned(T, w) /\ Within(T1, 2 * S1)
    BY <1>27, <1>28, <1>30, KeptNegative
<1>32. T \in Decimal
    BY <1>27 DEF Normal
<1>33. PICK N : N = Minus(S, T)
    OBVIOUS
<1>34. PICK D \in Int : D = S1 - T1 /\ (D \in -S1 .. S1 \/ D \in S1 .. -S1)
    BY <1>31 DEF Within
<1>35. Aligned(S, w) = S1
    BY <1>12, <1>13, <1>14, <1>29
<1>36. Normal(N) /\ w <= N.e /\ Aligned(N, w) = Kept(D)
    BY <1>1, <1>7, <1>27, <1>31, <1>32, <1>33, <1>34, <1>35, MinusAligned
<1>37. N \in Decimal
    BY <1>36 DEF Normal
<1>38. /\ Normal(Plus(N, T)) /\ w <= Plus(N, T).e
       /\ Aligned(Plus(N, T), w) = Kept(Kept(D) + T1)
    BY <1>7, <1>27, <1>31, <1>32, <1>36, <1>37, PlusAligned
<1>39. Kept(S1 + (Kept(D) - D)) = S1
    <2>1. c < Ten[Precision - 1] /\ -c < Ten[Precision - 1]
        BY <1>1
    <2> QED  BY <1>14, <1>29, <1>34, <2>1, SumBack
<1>40. PICK K \in Int : K = Kept(D)
    BY KeptNegative
<1>41. K + T1 = S1 + (K - D)
    BY <1>34
<1>42. Aligned(Plus(N, T), w) = S1
    BY <1>38, <1>39, <1>40, <1>41
<1>43. SameValue(S, Plus(N, T))
    <2>1. Plus(N, T) \in Decimal
        BY <1>38 DEF Normal
    <2>2. w <= S.e
        BY <1>1, <1>7
    <2> QED  BY <1>35, <1>38, <1>42, <2>1, <2>2, SameAligned
<1>44. SameValue(T, T)
    BY Zenon DEF SameValue
<1>45. Certified(S, rate) = [sales |-> S, salesHT |-> ht, commission |-> C,
                             tva |-> V, ttc |-> T, net |-> N]
    BY <1>8, <1>16, <1>23, <1>26, <1>33, Zenon DEF Certified
<1>46. PICK m : m = [sales |-> S, salesHT |-> ht, commission |-> C,
                     tva |-> V, ttc |-> T, net |-> N]
    OBVIOUS
<1>47. m.sales = S /\ m.net = N /\ m.ttc = T /\ m.commission = C /\ m.tva = V
    BY <1>46
<1> QED  BY <1>26, <1>43, <1>44, <1>45, <1>46, <1>47

----------------------------------------------------------------------------
(***************************************************************************)
(* Sums.  MapThenSumSet takes an element after the other away; what it     *)
(* returns is found by the smallest set of which it would not hold.        *)
(***************************************************************************)
Picked(s) == CHOOSE x \in s : TRUE

\* One more step of the sum of the amounts of the orders in the subsets of S.
Folded(orders, S, g) ==
    [s \in SUBSET S |-> IF s = {} THEN 0
                        ELSE orders[Picked(s)].amount + g[s \ {Picked(s)}]]

SumOf(orders, S) == MapThenSumSet(LAMBDA o : orders[o].amount, S)

LEMMA SumIsFold ==
    ASSUME NEW orders, NEW S
    PROVE  SumOf(orders, S) = (CHOOSE g : g = Folded(orders, S, g))[S]
BY Zenon DEF SumOf, MapThenSumSet, MapThenFoldSet, Folded, Picked

LEMMA SmallestSet ==
    ASSUME NEW F, F # {}, \A s \in F : IsFiniteSet(s)
    PROVE  \E s \in F : \A t \in F : Cardinality(s) <= Cardinality(t)
<1> DEFINE T == {Cardinality(s) : s \in F}
           R == OpToRel(<, Nat)
<1>1. T \subseteq Nat /\ T # {}
    BY FS_CardinalityType
<1>2. IsWellFoundedOn(R, Nat)
    BY NatLessThanWellFounded
<1>3. \A m, n \in Nat : <<m, n>> \in R <=> m < n
    BY DEF OpToRel
<1> HIDE DEF R
<1>4. PICK n \in T : \A m \in T : ~(<<m, n>> \in R)
    BY <1>1, <1>2, WFMin
<1>5. (\A t \in F : Cardinality(t) \in T) /\ \E s \in F : n = Cardinality(s)
    BY <1>4
<1> HIDE DEF T
<1>6. ASSUME NEW m \in T PROVE n <= m
    <2>1. m \in Nat /\ n \in Nat
        BY <1>1
    <2>2. ~(<<m, n>> \in R)
        BY <1>4
    <2>3. ~(m < n)
        BY <1>3, <2>1, <2>2
    <2> QED  BY <2>1, <2>3
<1> QED  BY <1>5, <1>6

LEMMA FoldExists ==
    ASSUME NEW orders, NEW S, IsFiniteSet(S)
    PROVE  \E g : g = Folded(orders, S, g)
<1> DEFINE Upto(g, n) == \A s \in SUBSET S : Cardinality(s) <= n => g[s] = Folded(orders, S, g)[s]
           Bad == {n \in Nat : ~ \E g : Upto(g, n)}
           R == OpToRel(<, Nat)
<1>0. \A s \in SUBSET S : IsFiniteSet(s) /\ Cardinality(s) \in Nat /\ Cardinality(s) <= Cardinality(S)
    BY FS_Subset, FS_CardinalityType
<1>1. \A n \in Nat : \E g : Upto(g, n)
    <2> SUFFICES ASSUME Bad # {} PROVE FALSE
        OBVIOUS
    <2>1. IsWellFoundedOn(R, Nat) /\ Bad \subseteq Nat
        BY NatLessThanWellFounded
    <2>2. \A m, n \in Nat : <<m, n>> \in R <=> m < n
        BY DEF OpToRel
    <2> HIDE DEF R
    <2>3. PICK n \in Bad : \A m \in Bad : ~(<<m, n>> \in R)
        BY <2>1, WFMin
    <2>4. n \in Nat /\ ~ \E g : Upto(g, n)
        BY <2>3
    <2>5. n # 0
        <3> SUFFICES ASSUME n = 0 PROVE FALSE
            OBVIOUS
        <3> DEFINE zero == [s \in SUBSET S |-> 0]
        <3>1. Upto(zero, 0)
            <4> SUFFICES ASSUME NEW s \in SUBSET S, Cardinality(s) <= 0
                         PROVE  zero[s] = Folded(orders, S, zero)[s]
                OBVIOUS
            <4>1. s = {}
                BY <1>0, FS_EmptySet
            <4> QED  BY <4>1 DEF Folded
        <3> QED  BY <2>4, <3>1
    <2>6. n - 1 \in Nat /\ n - 1 \notin Bad
        <3> HIDE DEF Bad, Upto
        <3>1. n - 1 \in Nat /\ <<n - 1, n>> \in R
            BY <2>2, <2>4, <2>5
        <3> QED  BY <2>3, <3>1
    <2>7. PICK g : Upto(g, n - 1)
        BY <2>6
    <2> DEFINE h == Folded(orders, S, g)
    <2>8. Upto(h, n)
        <3> SUFFICES ASSUME NEW s \in SUBSET S, Cardinality(s) <= n
                     PROVE  h[s] = Folded(orders, S, h)[s]
            OBVIOUS
        <3>1. CASE s = {}
            BY <3>1 DEF Folded
        <3>2. CASE s # {}
            <4> DEFINE t == s \ {Picked(s)}
            <4>1. Picked(s) \in s
                BY <3>2 DEF Picked
            <4>2. t \in SUBSET S /\ Cardinality(t) = Cardinality(s) - 1
                BY <1>0, <4>1, FS_RemoveElement
            <4>3. g[t] = h[t]
                BY <1>0, <2>4, <2>7, <4>2
            <4> HIDE DEF h
            <4>4. h[s] = orders[Picked(s)].amount + g[t]
                BY <3>2 DEF h, Folded
            <4>5. Folded(orders, S, h)[s] = orders[Picked(s)].amount + h[t]
                BY <3>2 DEF Folded
            <4> QED  BY <4>3, <4>4, <4>5
        <3> QED  BY <3>1, <3>2
    <2> QED  BY <2>4, <2>8
<1>2. PICK g : Upto(g, Cardinality(S))
    BY <1>1, FS_CardinalityType
<1> DEFINE h == [s \in SUBSET S |-> g[s]]
<1>3. \A s \in SUBSET S : h[s] = Folded(orders, S, g)[s]
    BY <1>0, <1>2
<1>4. Folded(orders, S, g) = Folded(orders, S, h)
    <2>1. \A s \in SUBSET S : s \ {Picked(s)} \in SUBSET S
        OBVIOUS
    <2> QED  BY <2>1 DEF Folded
<1>5. h = Folded(orders, S, h)
    <2> HIDE DEF Upto
    <2>1. \A s \in SUBSET S : h[s] = Folded(orders, S, h)[s]
        BY <1>3, <1>4
    <2> QED  BY <2>1 DEF Folded
<1> QED  BY <1>5

LEMMA FoldIsUnique ==
    ASSUME NEW orders, NEW S, NEW T, IsFiniteSet(S), T \subseteq S, NEW g, NEW h,
           g = Folded(orders, S, g), h = Folded(orders, T, h)
    PROVE  g[T] = h[T]
<1> DEFINE F == {s \in SUBSET T : g[s] # h[s]}
<1> SUFFICES ASSUME F # {} PROVE FALSE
    OBVIOUS
<1>1. \A s \in SUBSET S : IsFiniteSet(s)
    BY FS_Subset
<1>2. PICK s \in F : \A t \in F : Cardinality(s) <= Cardinality(t)
    BY <1>1, SmallestSet
<1>3. s # {}
    BY <1>2 DEF Folded
<1> DEFINE t == s \ {Picked(s)}
<1>4. Picked(s) \in s
    BY <1>3 DEF Picked
<1>5. t \in SUBSET T /\ Cardinality(t) = Cardinality(s) - 1 /\ Cardinality(s) \in Nat
    BY <1>1, <1>2, <1>4, FS_RemoveElement, FS_CardinalityType
<1>6. t \notin F
    BY <1>2, <1>5
<1>7. g[t] = h[t]
    BY <1>5, <1>6
<1>8. g[s] = orders[Picked(s)].amount + g[t]
    BY <1>2, <1>3 DEF Folded
<1>9. h[s] = orders[Picked(s)].amount + h[t]
    BY <1>2, <1>3 DEF Folded
<1> QED  BY <1>2, <1>7, <1>8, <1>9

LEMMA SumStep ==
    ASSUME NEW orders, NEW S, IsFiniteSet(S)
    PROVE  SumOf(orders, S) = IF S = {} THEN 0
               ELSE orders[Picked(S)].amount + SumOf(orders, S \ {Picked(S)})
<1> DEFINE T == S \ {Picked(S)}
           g == CHOOSE g : g = Folded(orders, S, g)
           h == CHOOSE h : h = Folded(orders, T, h)
<1>1. IsFiniteSet(T) /\ T \subseteq S
    BY FS_Subset
<1>2. g = Folded(orders, S, g) /\ h = Folded(orders, T, h)
    BY <1>1, FoldExists
<1>3. SumOf(orders, S) = g[S] /\ SumOf(orders, T) = h[T]
    BY SumIsFold
<1> HIDE DEF g, h
<1>4. g[T] = h[T]
    BY <1>1, <1>2, FoldIsUnique
<1>5. g[S] = IF S = {} THEN 0 ELSE orders[Picked(S)].amount + g[T]
    BY <1>2 DEF Folded
<1> QED  BY <1>3, <1>4, <1>5

HasAmounts(orders, S) == \A o \in S : orders[o].amount \in Int

LEMMA SumIsInteger ==
    ASSUME NEW orders, NEW S, IsFiniteSet(S), HasAmounts(orders, S)
    PROVE  SumOf(orders, S) \in Int
<1> DEFINE F == {s \in SUBSET S : SumOf(orders, s) \notin Int}
<1> SUFFICES ASSUME F # {} PROVE FALSE
    OBVIOUS
<1>1. \A s \in SUBSET S : IsFiniteSet(s)
    BY FS_Subset
<1>2. PICK s \in F : \A t \in F : Cardinality(s) <= Cardinality(t)
    BY <1>1, SmallestSet
<1> DEFINE t == s \ {Picked(s)}
<1>3. s # {}
    <2>1. SumOf(orders, {}) = 0
        BY FS_EmptySet, SumStep
    <2> QED  BY <1>2, <2>1
<1>4. Picked(s) \in s
    BY <1>3 DEF Picked
<1>5. t \in SUBSET S /\ Cardinality(t) = Cardinality(s) - 1 /\ Cardinality(s) \in Nat
    BY <1>1, <1>2, <1>4, FS_RemoveElement, FS_CardinalityType
<1>6. SumOf(orders, t) \in Int
    BY <1>2, <1>5
<1>7. SumOf(orders, s) = orders[Picked(s)].amount + SumOf(orders, t)
    BY <1>1, <1>2, <1>3, SumStep
<1>8. orders[Picked(s)].amount \in Int
    BY <1>2, <1>4 DEF HasAmounts
<1> QED  BY <1>2, <1>6, <1>7, <1>8

\* A sum is of the amounts, whatever else the orders say.
LEMMA SumOfEqualAmounts ==
    ASSUME NEW orders, NEW others, NEW S, IsFiniteSet(S),
           \A o \in S : orders[o].amount = others[o].amount
    PROVE  SumOf(orders, S) = SumOf(others, S)
<1> DEFINE F == {s \in SUBSET S : SumOf(orders, s) # SumOf(others, s)}
<1> SUFFICES ASSUME F # {} PROVE FALSE
    OBVIOUS
<1>1. \A s \in SUBSET S : IsFiniteSet(s)
    BY FS_Subset
<1>2. PICK s \in F : \A t \in F : Cardinality(s) <= Cardinality(t)
    BY <1>1, SmallestSet
<1> DEFINE t == s \ {Picked(s)}
<1>3. s # {}
    <2>1. SumOf(orders, {}) = 0 /\ SumOf(others, {}) = 0
        BY FS_EmptySet, SumStep
    <2> QED  BY <1>2, <2>1
<1>4. Picked(s) \in s
    BY <1>3 DEF Picked
<1>5. t \in SUBSET S /\ Cardinality(t) = Cardinality(s) - 1 /\ Cardinality(s) \in Nat
    BY <1>1, <1>2, <1>4, FS_RemoveElement, FS_CardinalityType
<1>6. SumOf(orders, t) = SumOf(others, t)
    BY <1>2, <1>5
<1>7. /\ SumOf(orders, s) = orders[Picked(s)].amount + SumOf(orders, t)
      /\ SumOf(others, s) = others[Picked(s)].amount + SumOf(others, t)
    BY <1>1, <1>2, <1>3, SumStep
<1>8. orders[Picked(s)].amount = others[Picked(s)].amount
    BY <1>2, <1>4
<1> QED  BY <1>2, <1>6, <1>7, <1>8

LEMMA SumWithout ==
    ASSUME NEW orders, NEW S, IsFiniteSet(S), HasAmounts(orders, S), NEW x \in S
    PROVE  SumOf(orders, S) = orders[x].amount + SumOf(orders, S \ {x})
<1> DEFINE Sum(s) == SumOf(orders, s)
           F == {s \in SUBSET S : \E o \in s : Sum(s) # orders[o].amount + Sum(s \ {o})}
<1> SUFFICES ASSUME F # {} PROVE FALSE
    OBVIOUS
<1>1. \A s \in SUBSET S : IsFiniteSet(s) /\ Sum(s) \in Int
    <2> SUFFICES ASSUME NEW s \in SUBSET S PROVE IsFiniteSet(s) /\ Sum(s) \in Int
        OBVIOUS
    <2>1. IsFiniteSet(s) /\ HasAmounts(orders, s)
        BY FS_Subset DEF HasAmounts
    <2> QED  BY <2>1, SumIsInteger
<1>2. PICK s \in F : \A t \in F : Cardinality(s) <= Cardinality(t)
    BY <1>1, SmallestSet
<1>3. PICK o \in s : Sum(s) # orders[o].amount + Sum(s \ {o})
    BY <1>2
<1> DEFINE p == Picked(s)
<1>4. p \in s
    BY <1>3 DEF Picked
<1>5. Sum(s) = orders[p].amount + Sum(s \ {p})
    BY <1>1, <1>2, <1>4, SumStep
<1>6. \A q \in s : s \ {q} \in SUBSET S /\ Cardinality(s \ {q}) = Cardinality(s) - 1
    BY <1>1, <1>2, FS_RemoveElement
<1>7. Cardinality(s) \in Nat
    BY <1>1, <1>2, FS_CardinalityType
<1>8. s \ {p} \notin F /\ s \ {o} \notin F
    <2> HIDE DEF F, p
    <2>1. Cardinality(s \ {p}) = Cardinality(s) - 1 /\ Cardinality(s \ {o}) = Cardinality(s) - 1
        BY <1>3, <1>4, <1>6
    <2>2. \A t : Cardinality(t) = Cardinality(s) - 1 => t \notin F
        BY <1>2, <1>7
    <2> QED  BY <2>1, <2>2
<1>9. p # o
    BY <1>3, <1>5
<1>10. Sum(s \ {p}) = orders[o].amount + Sum(s \ {p, o})
    <2>1. (s \ {p}) \ {o} = s \ {p, o} /\ o \in s \ {p} /\ s \ {p} \in SUBSET S
        BY <1>2, <1>9, <1>3
    <2> QED  BY <1>8, <2>1
<1>11. Sum(s \ {o}) = orders[p].amount + Sum(s \ {p, o})
    <2>1. (s \ {o}) \ {p} = s \ {p, o} /\ p \in s \ {o} /\ s \ {o} \in SUBSET S
        BY <1>2, <1>4, <1>9
    <2> QED  BY <1>8, <2>1
<1>12. Sum(s \ {p, o}) \in Int /\ orders[p].amount \in Int /\ orders[o].amount \in Int
    BY <1>1, <1>2, <1>3, <1>4 DEF HasAmounts
<1> HIDE DEF Sum, p
<1> QED  BY <1>3, <1>5, <1>10, <1>11, <1>12

LEMMA SumOfParts ==
    ASSUME NEW orders, NEW S, IsFiniteSet(S), HasAmounts(orders, S),
           NEW A, NEW B, A \cup B = S, A \cap B = {}
    PROVE  SumOf(orders, S) = SumOf(orders, A) + SumOf(orders, B)
<1> DEFINE Sum(s) == SumOf(orders, s)
           F == {s \in SUBSET A : Sum(s \cup B) # Sum(s) + Sum(B)}
<1> SUFFICES ASSUME F # {} PROVE FALSE
    OBVIOUS
<1>1. \A s \in SUBSET S : IsFiniteSet(s) /\ HasAmounts(orders, s) /\ Sum(s) \in Int
    <2> SUFFICES ASSUME NEW s \in SUBSET S
                 PROVE  IsFiniteSet(s) /\ HasAmounts(orders, s) /\ Sum(s) \in Int
        OBVIOUS
    <2>1. IsFiniteSet(s) /\ HasAmounts(orders, s)
        BY FS_Subset DEF HasAmounts
    <2> QED  BY <2>1, SumIsInteger
<1>2. PICK s \in F : \A t \in F : Cardinality(s) <= Cardinality(t)
    BY <1>1, SmallestSet
<1>3. s \in SUBSET S /\ s \cup B \in SUBSET S /\ B \in SUBSET S
    BY <1>2
<1>4. s # {}
    <2>1. Sum({}) = 0
        BY FS_EmptySet, SumStep
    <2>2. {} \cup B = B /\ Sum(B) \in Int
        BY <1>1, <1>3
    <2> HIDE DEF Sum
    <2> QED  BY <1>2, <2>1, <2>2
<1>5. PICK x \in s : TRUE
    BY <1>4
<1> DEFINE t == s \ {x}
<1>6. t \in SUBSET A /\ Cardinality(t) = Cardinality(s) - 1 /\ Cardinality(s) \in Nat
    BY <1>1, <1>2, <1>3, <1>5, FS_RemoveElement, FS_CardinalityType
<1>7. Sum(t \cup B) = Sum(t) + Sum(B)
    BY <1>2, <1>6
<1>8. Sum(s) = orders[x].amount + Sum(t)
    BY <1>1, <1>3, <1>5, SumWithout
<1>9. Sum(s \cup B) = orders[x].amount + Sum(t \cup B)
    <2>1. (s \cup B) \ {x} = t \cup B /\ x \in s \cup B
        BY <1>2, <1>5
    <2> QED  BY <1>1, <1>3, <2>1, SumWithout
<1>10. Sum(t) \in Int /\ Sum(B) \in Int /\ orders[x].amount \in Int
    BY <1>1, <1>3, <1>5, <1>6 DEF HasAmounts
<1>11. Sum(s \cup B) # Sum(s) + Sum(B)
    BY <1>2
<1> HIDE DEF Sum, t
<1> QED  BY <1>7, <1>8, <1>9, <1>10, <1>11

----------------------------------------------------------------------------
(***************************************************************************)
(* What a READY settlement accounts for.  Whatever was read, the orders    *)
(* are those of some publication and the overrides of the log decide with  *)
(* a decision, so each order of a READY settlement is in one of the three  *)
(* totals.                                                                 *)
(***************************************************************************)
Published(canonical) == \E s \in Sources : canonical = s.canonical

\* what a log decides is a decision
Decides(log) == \A o : Deciding(log, o) = 0 \/ log[Deciding(log, o)].new \in Decisions

\* the net payable and the invoice give the sales back, to the last digit
Exact(money) == /\ SameValue(money.sales, Plus(money.net, money.ttc))
                /\ SameValue(money.ttc, Plus(money.commission, money.tva))

\* no choice among these orders has a total as long as the context
Short(canonical) ==
    \A chosen \in SUBSET DOMAIN canonical :
        Digits(Dec(Total(canonical, chosen), 0).c) < Precision

\* every order of a READY settlement is decided, and the totals add up
AddsUp(s) ==
    s.status = "READY" =>
        /\ s.gross = s.eligible + s.excluded + s.compensation
        /\ \A o \in DOMAIN s.orders : s.orders[o].amount # None
        /\ Exact(s.money)

EveryOrderAddsUp(summary) ==
    \A k \in DOMAIN summary.restaurants : AddsUp(summary.restaurants[k])

Read == {"orders", "issues", "registry", "overrides"}

ReadsInv ==
    /\ \A i \in DOMAIN overrides : overrides[i].new \in Decisions
    /\ \A r \in Reviewers : dialog[r].step # "closed" => dialog[r].new \in Decisions
    /\ session = [e \in Evaluators |-> session[e]]
    /\ \A e \in Evaluators :
          /\ DOMAIN session[e] = SessionFields
          /\ session[e].step \in Read => Published(session[e].canonical)
          /\ session[e].step = "overrides" => session[e].seen \in 0 .. Len(overrides)
    /\ source \in Sources
    /\ cache # None => EveryOrderAddsUp(cache.summary)

\* A rule decides with a decision.
LEMMA ClassifyDecides ==
    ASSUME NEW status, NEW reason
    PROVE  Classify(status, reason).decision \in Decisions
<1> DEFINE who == CancellationResponsibility(status, reason)
<1>1. \A class, responsibility, decision, rule :
          Outcome(class, responsibility, decision, rule).decision = decision
    BY DEF Outcome
<1> HIDE DEF who
<1>2. CASE status \in {"DELIVERED", "NONE", "OTHER"}
    BY <1>1, <1>2 DEF Classify, Decisions
<1>3. CASE status \notin {"DELIVERED", "NONE", "OTHER"}
    BY <1>1, <1>3 DEF Classify, Decisions
<1> QED  BY <1>2, <1>3

\* The entries a computation saw are the first of the table, and the latest of an
\* order among them decides with what its reviewer chose.
LEMMA LogDecides ==
    ASSUME OverridesInv, ReadsInv, NEW n \in 0 .. Len(overrides)
    PROVE  Decides(SubSeq(overrides, 1, n))
<1>1. PICK S : overrides \in Seq(S)
    BY DEF OverridesInv, Listed
<1>2. PICK log : log = SubSeq(overrides, 1, n)
    OBVIOUS
<1>3. n \in Nat /\ DOMAIN log = 1 .. n /\ DOMAIN overrides = 1 .. Len(overrides)
      /\ \A i \in 1 .. n : i \in DOMAIN overrides /\ log[i] = overrides[i]
    BY <1>1, <1>2
<1>4. \A i \in DOMAIN log : log[i].at \in Nat /\ log[i].at < clock /\ log[i].new \in Decisions
    BY <1>3 DEF OverridesInv, EntryInv, ReadsInv
<1>5. ASSUME NEW o PROVE Deciding(log, o) = 0 \/ log[Deciding(log, o)].new \in Decisions
    <2> SUFFICES ASSUME History(log, o) # {} PROVE log[Deciding(log, o)].new \in Decisions
        BY DEF Deciding
    <2> DEFINE H == History(log, o)
               gaps == {clock - log[i].at : i \in H}
               R == OpToRel(<, Nat)
    <2>1. H \subseteq DOMAIN log /\ clock \in Nat
        BY DEF History, OverridesInv
    <2> HIDE DEF H
    <2>2. gaps \subseteq Nat /\ gaps # {}
        <3>1. \A i \in H : clock - log[i].at \in Nat
            BY <1>4, <2>1
        <3>2. H # {}
            BY DEF H
        <3> QED  BY <3>1, <3>2
    <2>3. IsWellFoundedOn(R, Nat)
        BY NatLessThanWellFounded
    <2>4. \A a, b \in Nat : <<a, b>> \in R <=> a < b
        BY DEF OpToRel
    <2> HIDE DEF R
    <2>5. PICK gap \in gaps : \A g \in gaps : ~(<<g, gap>> \in R)
        BY <2>2, <2>3, WFMin
    <2>6. PICK i \in H : gap = clock - log[i].at
        BY <2>5
    <2>7. ASSUME NEW j \in H PROVE log[j].at <= log[i].at
        <3>1. clock - log[j].at \in gaps
            OBVIOUS
        <3> HIDE DEF gaps
        <3>2. ~(clock - log[j].at < gap)
            BY <2>2, <2>4, <2>5, <3>1
        <3>3. log[i].at \in Nat /\ log[j].at \in Nat
            BY <1>4, <2>1
        <3> QED  BY <2>1, <2>6, <3>2, <3>3
    <2>8. Deciding(log, o) \in H
        BY <2>7 DEF Deciding, H
    <2> QED  BY <1>4, <2>1, <2>8
<1> QED  BY <1>2, <1>5 DEF Decides

\* An order of an evaluation.
LEMMA OrderDecided ==
    ASSUME NEW row \in CanonicalRows, NEW o, NEW invalid, NEW log, Decides(log)
    PROVE  LET order == SettlementOrder(row, o, invalid, log)
           IN  /\ order.final \in Decisions
               /\ order.amount \in Int \cup {None}
               /\ order.amount = None => "INVALID_ORDER_AMOUNT" \in order.issues
<1> DEFINE outcome == Classify(row.status, row.reason)
           override == Deciding(log, o)
           order == SettlementOrder(row, o, invalid, log)
<1>1. outcome.decision \in Decisions
    BY ClassifyDecides
<1>2. override = 0 \/ log[override].new \in Decisions
    BY DEF Decides
<1>3. PICK final : final = IF override = 0 THEN outcome.decision ELSE log[override].new
    OBVIOUS
<1>4. PICK issues : issues = (IF o \in invalid THEN {"INVALID_FINANCIAL_VALUE"} ELSE {})
                             \cup (IF row.amount = None THEN {"INVALID_ORDER_AMOUNT"} ELSE {})
                             \cup ({outcome.rule} \cap ReviewRules)
    OBVIOUS
<1>5. final \in Decisions
    BY <1>1, <1>2, <1>3
<1>6. row.amount = None => "INVALID_ORDER_AMOUNT" \in issues
    BY <1>4
<1>7. row.amount \in Int \cup {None}
    BY DEF CanonicalRows
<1>8. order = [rid |-> row.rid, system |-> outcome.decision, final |-> final,
               override |-> override, amount |-> row.amount, issues |-> issues]
    BY <1>3, <1>4, Zenon DEF SettlementOrder
<1> HIDE DEF outcome, override, order
<1>9. order.final = final /\ order.amount = row.amount /\ order.issues = issues
    BY <1>8
<1> QED  BY <1>5, <1>6, <1>7, <1>9 DEF order

\* The three totals of decided orders with amounts are the gross.
LEMMA TotalsAddUp ==
    ASSUME NEW mine, IsFiniteSet(DOMAIN mine), HasAmounts(mine, DOMAIN mine),
           \A o \in DOMAIN mine : /\ mine[o].amount # None
                                  /\ mine[o].final \in Decisions \ {"MANUAL_REVIEW"}
    PROVE  Total(mine, DOMAIN mine)
               = Total(mine, DecidedAs(mine, "PAY_PARTNER")) + Total(mine, DecidedAs(mine, "EXCLUDE"))
                     + Total(mine, DecidedAs(mine, "YASSIR_COMPENSATION"))
<1> DEFINE all == DOMAIN mine
           paid == DecidedAs(mine, "PAY_PARTNER")
           excluded == DecidedAs(mine, "EXCLUDE")
           compensated == DecidedAs(mine, "YASSIR_COMPENSATION")
           rest == excluded \cup compensated
<1>1. ASSUME NEW chosen \in SUBSET all PROVE Total(mine, chosen) = SumOf(mine, chosen)
    <2>1. {o \in chosen : mine[o].amount # None} = chosen
        BY DEF HasAmounts
    <2> QED  BY <2>1 DEF Total, SumOf
<1>2. /\ paid \cup rest = all /\ paid \cap rest = {} /\ excluded \cap compensated = {}
      /\ rest \subseteq all
    BY DEF DecidedAs, Decisions
<1> HIDE DEF all, paid, excluded, compensated
<1>3. IsFiniteSet(all) /\ HasAmounts(mine, all) /\ IsFiniteSet(rest) /\ HasAmounts(mine, rest)
    BY <1>2, FS_Subset DEF HasAmounts, all
<1>4. SumOf(mine, all) = SumOf(mine, paid) + SumOf(mine, rest)
    BY <1>2, <1>3, SumOfParts
<1>5. SumOf(mine, rest) = SumOf(mine, excluded) + SumOf(mine, compensated)
    BY <1>2, <1>3, SumOfParts
<1>6. SumOf(mine, paid) \in Int /\ SumOf(mine, excluded) \in Int /\ SumOf(mine, compensated) \in Int
    <2>1. \A part \in SUBSET all : IsFiniteSet(part) /\ HasAmounts(mine, part)
        BY <1>3, FS_Subset DEF HasAmounts
    <2>2. paid \in SUBSET all /\ excluded \in SUBSET all /\ compensated \in SUBSET all
        BY <1>2
    <2> QED  BY <2>1, <2>2, SumIsInteger
<1>7. SumOf(mine, all) = SumOf(mine, paid) + SumOf(mine, excluded) + SumOf(mine, compensated)
    BY <1>4, <1>5, <1>6
<1>8. /\ Total(mine, all) = SumOf(mine, all) /\ Total(mine, paid) = SumOf(mine, paid)
      /\ Total(mine, excluded) = SumOf(mine, excluded)
      /\ Total(mine, compensated) = SumOf(mine, compensated)
    BY <1>1, <1>2
<1> QED  BY <1>7, <1>8 DEF all, paid, excluded, compensated

LEMMA RateIsResolved ==
    ASSUME NEW scopeRaw \in Int \cup {None}, NEW rstRaw,
           \A c \in RateIssues(scopeRaw, rstRaw) : ~CommissionIssue(c)
    PROVE  ResolveCommission(NormalRate(scopeRaw).rate, NormalRate(rstRaw).rate).effective
               \in 0 .. One
<1>1. CommissionIssue("MISSING_INVOICE_SCOPE_COMMISSION")
    BY DEF CommissionIssue
<1>2. PICK scope, rst : scope = NormalRate(scopeRaw) /\ rst = NormalRate(rstRaw)
    OBVIOUS
<1>3. scope.rate # None
    <2>1. scope.rate = None => "MISSING_INVOICE_SCOPE_COMMISSION" \in RateIssues(scopeRaw, rstRaw)
        BY <1>2, Zenon DEF RateIssues
    <2> QED  BY <1>1, <2>1
<1>4. scope.rate \in 0 .. One
    <2>1. CASE scopeRaw = None
        <3>1. scope = [rate |-> None, issue |-> None]
            BY <1>2, <2>1 DEF NormalRate
        <3> QED  BY <1>3, <3>1
    <2>2. CASE scopeRaw # None /\ (scopeRaw < 0 \/ scopeRaw > 100 * One)
        <3>1. scope = [rate |-> None, issue |-> "INVALID_INVOICE_SCOPE_COMMISSION"]
            BY <1>2, <2>2 DEF NormalRate
        <3> QED  BY <1>3, <3>1
    <2>3. CASE scopeRaw # None /\ ~(scopeRaw < 0 \/ scopeRaw > 100 * One)
        <3>1. PICK n \in Int : n = IF scopeRaw > One THEN scopeRaw \div 100 ELSE scopeRaw
            BY <2>3 DEF One
        <3>2. scope = [rate |-> n, issue |-> None]
            BY <1>2, <2>3, <3>1 DEF NormalRate
        <3>3. n \in 0 .. One
            BY <2>3, <3>1 DEF One
        <3> QED  BY <3>2, <3>3
    <2> QED  BY <2>1, <2>2, <2>3
<1>5. ResolveCommission(scope.rate, rst.rate).effective = scope.rate
    BY <1>3 DEF ResolveCommission
<1> QED  BY <1>2, <1>4, <1>5

LEMMA ShortCoefficient ==
    ASSUME NEW c \in Int, Digits(c) < Precision
    PROVE  c < Ten[Precision - 1] /\ -c < Ten[Precision - 1]
<1>1. PICK a \in Nat : a = Abs(c) /\ c <= a /\ -c <= a
    BY DEF Abs
<1>2. PICK l \in Nat : l = Length[a] /\ l < Precision
    BY <1>1, DigitsAreCounted DEF Digits
<1>3. Precision - 1 \in Nat /\ l <= Precision - 1
    BY <1>2, PrecisionAssumption
<1>4. PICK t \in Nat : t = Ten[Precision - 1] /\ t >= 1
    BY <1>3, TenPositive
<1>5. a < t
    <2>1. CASE a = 0
        BY <1>4, <2>1
    <2>2. CASE a # 0
        <3>1. a < Ten[l] /\ Ten[l] <= t /\ Ten[l] \in Nat
            BY <1>2, <1>3, <1>4, <2>2, LengthFacts, TenGrows, TenPositive
        <3> QED  BY <3>1
    <2> QED  BY <2>1, <2>2
<1> QED  BY <1>1, <1>4, <1>5

LEMMA TotalOfEqualAmounts ==
    ASSUME NEW orders, NEW canonical, NEW chosen, IsFiniteSet(chosen),
           \A o \in chosen : /\ orders[o].amount = canonical[o].amount
                             /\ orders[o].amount # None
    PROVE  Total(orders, chosen) = Total(canonical, chosen)
<1>1. /\ {o \in chosen : orders[o].amount # None} = chosen
      /\ {o \in chosen : canonical[o].amount # None} = chosen
    OBVIOUS
<1>2. SumOf(orders, chosen) = SumOf(canonical, chosen)
    BY SumOfEqualAmounts
<1> QED  BY <1>1, <1>2 DEF Total, SumOf

\* READY has no data issue, hence an amount for every order, and none to review;
\* it has no commission issue either, hence a rate the chain is exact for.
LEMMA SettlementAddsUp ==
    ASSUME NEW entry, entry.scopeRate \in Int \cup {None},
           NEW orders, NEW duplicates, IsFiniteSet(DOMAIN orders),
           NEW canonical, Short(canonical),
           \A o \in DOMAIN orders :
               /\ o \in DOMAIN canonical /\ orders[o].amount = canonical[o].amount
               /\ orders[o].final \in Decisions /\ orders[o].amount \in Int \cup {None}
               /\ orders[o].amount = None => "INVALID_ORDER_AMOUNT" \in orders[o].issues
    PROVE  AddsUp(RestaurantSettlement(entry, orders, duplicates))
<1> DEFINE mine == OrdersOf(orders, entry.id)
           issues == RateIssues(entry.scopeRate, entry.rstRate)
                     \cup (IF entry.id \in duplicates
                           THEN {"DUPLICATE_READY_RESTAURANT_ID"} ELSE {})
                     \cup UNION {mine[o].issues : o \in DOMAIN mine}
           eligible == Total(mine, DecidedAs(mine, "PAY_PARTNER"))
           rate == ResolveCommission(NormalRate(entry.scopeRate).rate,
                                     NormalRate(entry.rstRate).rate).effective
           s == RestaurantSettlement(entry, orders, duplicates)
<1>1. /\ s.orders = mine /\ s.status = SettlementStatus(mine, issues)
      /\ s.gross = Total(mine, DOMAIN mine)
      /\ s.eligible = eligible
      /\ s.excluded = Total(mine, DecidedAs(mine, "EXCLUDE"))
      /\ s.compensation = Total(mine, DecidedAs(mine, "YASSIR_COMPENSATION"))
      /\ s.money = IF SettlementStatus(mine, issues) = "READY"
                   THEN Certified(Dec(eligible, 0), rate) ELSE None
    BY Zenon DEF RestaurantSettlement
<1>2. DOMAIN mine \subseteq DOMAIN orders /\ \A o \in DOMAIN mine : mine[o] = orders[o]
    BY DEF OrdersOf
<1>3. \A o \in DOMAIN mine : mine[o].issues \subseteq issues
    OBVIOUS
<1>4. DataIssue("INVALID_ORDER_AMOUNT")
    BY DEF DataIssue
<1>5. RateIssues(entry.scopeRate, entry.rstRate) \subseteq issues
    OBVIOUS
<1>6. (\A c \in RateIssues(entry.scopeRate, entry.rstRate) : ~CommissionIssue(c))
          => rate \in 0 .. One
    BY RateIsResolved
<1>7. DecidedAs(mine, "PAY_PARTNER") \subseteq DOMAIN mine
    BY DEF DecidedAs
<1> DEFINE paid == DecidedAs(mine, "PAY_PARTNER")
<1>8. eligible = Total(mine, paid)
    OBVIOUS
<1> HIDE DEF mine, issues, s, rate, eligible
<1> SUFFICES ASSUME s.status = "READY"
             PROVE  /\ s.gross = s.eligible + s.excluded + s.compensation
                    /\ \A o \in DOMAIN s.orders : s.orders[o].amount # None
                    /\ Exact(s.money)
    BY DEF AddsUp, s
<1>9. /\ DecidedAs(mine, "MANUAL_REVIEW") = {} /\ \A c \in issues : ~DataIssue(c)
      /\ \A c \in issues : ~CommissionIssue(c)
    BY <1>1 DEF SettlementStatus
<1>10. \A o \in DOMAIN mine : mine[o].amount # None
    BY <1>2, <1>3, <1>4, <1>9
<1>11. \A o \in DOMAIN mine : mine[o].final \in Decisions \ {"MANUAL_REVIEW"}
    BY <1>2, <1>9 DEF DecidedAs
<1>12. IsFiniteSet(DOMAIN mine) /\ HasAmounts(mine, DOMAIN mine)
    BY <1>2, <1>10, FS_Subset DEF HasAmounts
<1>13. Total(mine, DOMAIN mine)
         = Total(mine, DecidedAs(mine, "PAY_PARTNER")) + Total(mine, DecidedAs(mine, "EXCLUDE"))
               + Total(mine, DecidedAs(mine, "YASSIR_COMPENSATION"))
    BY <1>10, <1>11, <1>12, TotalsAddUp
<1>14. rate \in 0 .. One
    BY <1>5, <1>6, <1>9
<1>15. eligible \in Int /\ eligible = Total(canonical, paid) /\ paid \subseteq DOMAIN canonical
    <2>1. IsFiniteSet(paid) /\ paid \subseteq DOMAIN canonical /\ HasAmounts(mine, paid)
        BY <1>2, <1>7, <1>12, FS_Subset DEF HasAmounts
    <2>2. \A o \in paid : mine[o].amount = canonical[o].amount /\ mine[o].amount # None
        BY <1>2, <1>7, <1>10
    <2>3. {o \in paid : mine[o].amount # None} = paid
        BY <2>2
    <2>4. Total(mine, paid) = SumOf(mine, paid)
        BY <2>3 DEF Total, SumOf
    <2> HIDE DEF paid
    <2>5. Total(mine, paid) = Total(canonical, paid)
        BY <2>1, <2>2, TotalOfEqualAmounts
    <2>6. SumOf(mine, paid) \in Int
        BY <2>1, SumIsInteger
    <2> QED  BY <1>8, <2>1, <2>4, <2>5, <2>6
<1>16. Exact(Certified(Dec(eligible, 0), rate))
    <2>1. PICK S : S = Dec(eligible, 0)
        OBVIOUS
    <2>2. S \in Decimal /\ S.c \in Int
        <3>1. eligible \in Int /\ 0 \in Int
            BY <1>15
        <3>2. Normal(S)
            BY <2>1, <3>1, DecFacts
        <3> QED  BY <3>2, DecimalFields DEF Normal
    <2>3. Digits(S.c) < Precision
        BY <1>15, <2>1 DEF Short
    <2>4. S.c < Ten[Precision - 1] /\ -S.c < Ten[Precision - 1]
        BY <2>2, <2>3, ShortCoefficient
    <2> QED  BY <1>14, <2>1, <2>2, <2>4, CertifiedAddsUp DEF Exact
<1>17. s.money = Certified(Dec(eligible, 0), rate)
    BY <1>1, Zenon
<1>18. Exact(s.money)
    BY <1>16, <1>17, Zenon
<1>19. s.gross = s.eligible + s.excluded + s.compensation
    BY <1>1, <1>8, <1>13, Zenon
<1>20. \A o \in DOMAIN s.orders : s.orders[o].amount # None
    BY <1>1, <1>10, Zenon
<1> QED  BY <1>18, <1>19, <1>20

\* The rate of an entry is the one of a row of the sheet.
LEMMA RatesOfRegistry ==
    ASSUME NEW registry, FromSheets(registry), NEW k \in DOMAIN registry
    PROVE  registry[k].scopeRate \in Int \cup {None}
<1>1. PICK s \in Sources : registry = Registry(s.scope, s.rst)
    BY DEF FromSheets
<1>2. PICK sheet, rst : sheet = s.scope /\ rst = s.rst
    OBVIOUS
<1>3. sheet \in Seq(ScopeRows)
    BY <1>2, SettlementAssumption
<1>4. k \in ScopeGroups(sheet) /\ registry[k] = Entry(sheet, RSTRecords(rst), k)
    BY <1>1, <1>2 DEF Registry
<1>5. PICK rows : rows = Group(sheet, k)
    OBVIOUS
<1>6. rows # {} /\ rows \subseteq DOMAIN sheet
    BY <1>4, <1>5 DEF ScopeGroups, Group, ActiveRows
<1>7. PICK first : first = FirstRow(rows)
    OBVIOUS
<1>8. first \in rows
    <2>1. rows \subseteq Nat
        BY <1>3, <1>6
    <2>2. \E n \in rows : \A m \in rows : n <= m
        BY <1>6, <2>1, Least
    <2> QED  BY <1>7, <2>2 DEF FirstRow
<1>9. sheet[first].rate \in Int \cup {None}
    <2>1. sheet[first] \in ScopeRows
        BY <1>3, <1>6, <1>8
    <2> QED  BY <2>1 DEF ScopeRows
<1>10. \A row, mapping, status, issues : Registered(row, mapping, status, issues).scopeRate = row.rate
    BY DEF Registered
<1>11. \E mapping, status, issues :
           Entry(sheet, RSTRecords(rst), k) = Registered(sheet[first], mapping, status, issues)
    BY <1>5, <1>7, Zenon DEF Entry
<1>12. registry[k].scopeRate = sheet[first].rate
    BY <1>4, <1>10, <1>11
<1> QED  BY <1>9, <1>12

LEMMA EvaluationAddsUp ==
    ASSUME NEW canonical, Published(canonical), NEW invalid, NEW registry, FromSheets(registry),
           NEW log, Decides(log)
    PROVE  EveryOrderAddsUp(Evaluate(canonical, invalid, registry, log))
<1> DEFINE orders == [o \in Evaluated(canonical, registry) |->
                          SettlementOrder(canonical[o], o, invalid, log)]
           restaurants == [k \in IdentityReady(registry) |->
               RestaurantSettlement(registry[k], orders, DuplicateReadyIds(registry))]
           summary == Evaluate(canonical, invalid, registry, log)
<1>1. summary.restaurants = restaurants
    BY Zenon DEF Evaluate
<1>2. DOMAIN orders \subseteq DOMAIN canonical
    BY DEF Evaluated, InPeriod
<1>3. IsFiniteSet(DOMAIN canonical) /\ \A o \in DOMAIN canonical : canonical[o] \in CanonicalRows
    BY SettlementAssumption DEF Published
<1>4. IsFiniteSet(DOMAIN orders)
    BY <1>2, <1>3, FS_Subset
<1>5. ASSUME NEW o \in DOMAIN orders
      PROVE  /\ o \in DOMAIN canonical /\ orders[o].amount = canonical[o].amount
             /\ orders[o].final \in Decisions /\ orders[o].amount \in Int \cup {None}
             /\ orders[o].amount = None => "INVALID_ORDER_AMOUNT" \in orders[o].issues
    <2>1. canonical[o] \in CanonicalRows
        BY <1>2, <1>3
    <2>2. orders[o] = SettlementOrder(canonical[o], o, invalid, log)
        OBVIOUS
    <2>3. orders[o].amount = canonical[o].amount
        BY <2>2, Zenon DEF SettlementOrder
    <2> HIDE DEF orders
    <2> QED  BY <1>2, <2>1, <2>2, <2>3, OrderDecided
<1> HIDE DEF orders, summary
<1>6. Short(canonical)
    BY TotalsAreShort DEF Published, Short
<1>7. ASSUME NEW k \in DOMAIN restaurants PROVE AddsUp(restaurants[k])
    <2>1. k \in DOMAIN registry
        BY DEF IdentityReady
    <2>2. registry[k].scopeRate \in Int \cup {None}
        BY <2>1, RatesOfRegistry
    <2>3. AddsUp(RestaurantSettlement(registry[k], orders, DuplicateReadyIds(registry)))
        BY <1>4, <1>5, <1>6, <2>2, SettlementAddsUp
    <2> QED  BY <2>3
<1> HIDE DEF restaurants
<1> QED  BY <1>1, <1>7 DEF EveryOrderAddsUp, summary

----------------------------------------------------------------------------
LEMMA ReadsInit == Init => ReadsInv
<1> SUFFICES ASSUME Init PROVE ReadsInv
    OBVIOUS
<1>1. DOMAIN NoSession = SessionFields /\ NoSession.step = "idle" /\ NoDialog.step = "closed"
    BY DEF NoSession, SessionFields, NoDialog
<1>2. DOMAIN overrides = {}
    BY DEF Init
<1> QED  BY <1>1, <1>2 DEF Init, ReadsInv, Read

\* A step of one session.
LEMMA ReadsMove ==
    ASSUME ReadsInv, NEW e \in Evaluators, NEW s, session' = [session EXCEPT ![e] = s],
           DOMAIN s = SessionFields, s.step \in Read => Published(s.canonical),
           s.step = "overrides" => s.seen \in 0 .. Len(overrides),
           UNCHANGED <<source, overrides, dialog>>,
           cache' # None => cache' = cache \/ EveryOrderAddsUp(cache'.summary)
    PROVE  ReadsInv'
<1>1. \A d \in Evaluators : session'[d] = IF d = e THEN s ELSE session[d]
    BY DEF ReadsInv
<1>2. session' = [d \in Evaluators |-> session'[d]]
    BY DEF ReadsInv
<1>3. \A d \in Evaluators :
          /\ DOMAIN session'[d] = SessionFields
          /\ session'[d].step \in Read => Published(session'[d].canonical)
          /\ session'[d].step = "overrides" => session'[d].seen \in 0 .. Len(overrides)
    BY <1>1 DEF ReadsInv
<1>4. cache' # None => EveryOrderAddsUp(cache'.summary)
    BY DEF ReadsInv
<1> QED  BY <1>2, <1>3, <1>4 DEF ReadsInv

LEMMA EvaluationReads ==
    ASSUME ReadsInv, OverridesInv, WorkspaceInv, NEW e \in Evaluators, Evaluation(e)
    PROVE  ReadsInv'
<1>0. DOMAIN session[e] = SessionFields /\ DOMAIN session = Evaluators /\ Len(overrides) \in Nat
    BY DEF ReadsInv, OverridesInv, Listed
<1>1. CASE ReadOrders(e)
    <2> DEFINE c == source.canonical
               s == [[NoSession EXCEPT !.step = "orders"] EXCEPT !.canonical = c]
    <2>1. session' = [session EXCEPT ![e] = s] /\ UNCHANGED <<source, overrides, dialog, cache>>
        BY <1>1 DEF ReadOrders
    <2>2. Published(c)
        BY DEF ReadsInv, Published
    <2> HIDE DEF c
    <2>3. DOMAIN s = SessionFields /\ s.step = "orders" /\ s.canonical = c
        BY DEF NoSession, SessionFields
    <2> HIDE DEF s
    <2> QED  BY <2>1, <2>2, <2>3, ReadsMove
<1>2. CASE ReadIssues(e)
    <2> DEFINE c == source.invalid
               s == [[session[e] EXCEPT !.step = "issues"] EXCEPT !.invalid = c]
    <2>1. session' = [session EXCEPT ![e] = s] /\ UNCHANGED <<source, overrides, dialog, cache>>
        BY <1>0, <1>2 DEF ReadIssues
    <2>2. Published(session[e].canonical)
        BY <1>2 DEF ReadIssues, ReadsInv, Read
    <2> HIDE DEF c
    <2>3. DOMAIN s = SessionFields /\ s.step = "issues" /\ s.canonical = session[e].canonical
        BY <1>0 DEF SessionFields
    <2> HIDE DEF s
    <2> QED  BY <2>1, <2>2, <2>3, ReadsMove
<1>3. CASE ReadRegistry(e)
    <2> DEFINE c == Registry(source.scope, source.rst)
               s == [[session[e] EXCEPT !.step = "registry"] EXCEPT !.registry = c]
    <2>1. session' = [session EXCEPT ![e] = s] /\ UNCHANGED <<source, overrides, dialog, cache>>
        BY <1>0, <1>3 DEF ReadRegistry
    <2>2. Published(session[e].canonical)
        BY <1>3 DEF ReadRegistry, ReadsInv, Read
    <2> HIDE DEF c
    <2>3. DOMAIN s = SessionFields /\ s.step = "registry" /\ s.canonical = session[e].canonical
        BY <1>0 DEF SessionFields
    <2> HIDE DEF s
    <2> QED  BY <2>1, <2>2, <2>3, ReadsMove
<1>4. CASE ReadOverrides(e)
    <2> DEFINE n == Len(overrides)
               s == [[session[e] EXCEPT !.step = "overrides"] EXCEPT !.seen = n]
    <2>1. session' = [session EXCEPT ![e] = s] /\ UNCHANGED <<source, overrides, dialog, cache>>
        BY <1>0, <1>4 DEF ReadOverrides
    <2>2. Published(session[e].canonical)
        BY <1>4 DEF ReadOverrides, ReadsInv, Read
    <2>3. n \in 0 .. Len(overrides)
        BY <1>0
    <2> HIDE DEF n
    <2>4. DOMAIN s = SessionFields /\ s.seen = n /\ s.canonical = session[e].canonical
        BY <1>0 DEF SessionFields
    <2> HIDE DEF s
    <2> QED  BY <2>1, <2>2, <2>3, <2>4, ReadsMove
<1>5. CASE FinishEvaluation(e)
    <2> DEFINE s == session[e]
               log == SubSeq(overrides, 1, s.seen)
               summary == Evaluate(s.canonical, s.invalid, s.registry, log)
               w == [seen |-> s.seen, registry |-> s.registry, summary |-> summary]
    <2>1. (cache' = cache \/ cache' = w) /\ UNCHANGED <<source, overrides, dialog>>
          /\ session' = [session EXCEPT ![e] = NoSession] /\ s.step = "overrides"
        BY <1>5 DEF FinishEvaluation
    <2>2. Published(s.canonical) /\ s.seen \in 0 .. Len(overrides)
        BY <2>1 DEF ReadsInv, Read
    <2>3. Decides(log)
        BY <2>2, LogDecides
    <2>4. FromSheets(s.registry)
        BY <2>1 DEF WorkspaceInv
    <2> HIDE DEF log
    <2>5. EveryOrderAddsUp(summary)
        BY <2>2, <2>3, <2>4, EvaluationAddsUp
    <2> HIDE DEF summary, s
    <2>6. w.summary = summary
        OBVIOUS
    <2> HIDE DEF w
    <2>7. cache' # None => cache' = cache \/ EveryOrderAddsUp(cache'.summary)
        BY <2>1, <2>5, <2>6
    <2>8. DOMAIN NoSession = SessionFields /\ NoSession.step = "idle"
        BY DEF NoSession, SessionFields
    <2> QED  BY <2>1, <2>7, <2>8, ReadsMove DEF Read
<1>6. CASE AbortEvaluation(e)
    <2>1. DOMAIN NoSession = SessionFields /\ NoSession.step = "idle"
        BY DEF NoSession, SessionFields
    <2>2. session' = [session EXCEPT ![e] = NoSession] /\ UNCHANGED <<source, overrides, dialog, cache>>
        BY <1>6 DEF AbortEvaluation
    <2> QED  BY <2>1, <2>2, ReadsMove DEF Read
<1> QED  BY <1>1, <1>2, <1>3, <1>4, <1>5, <1>6 DEF Evaluation

\* A step of one dialog, which writes at most the entry it stands for.
LEMMA DialogReads ==
    ASSUME ReadsInv, OverridesInv, NEW r \in Reviewers, NEW d, dialog' = [dialog EXCEPT ![r] = d],
           d.step # "closed" => d.new \in Decisions,
           UNCHANGED <<session, source>>, cache' = cache \/ cache' = None,
           Len(overrides) \in Nat /\ Len(overrides') \in Nat /\ Len(overrides) <= Len(overrides'),
           \A i \in DOMAIN overrides' : overrides'[i].new \in Decisions
    PROVE  ReadsInv'
<1>1. \A t \in Reviewers : dialog'[t] = IF t = r THEN d ELSE dialog[t]
    BY DEF OverridesInv
<1>2. \A t \in Reviewers : dialog'[t].step # "closed" => dialog'[t].new \in Decisions
    BY <1>1 DEF ReadsInv
<1>3. \A e \in Evaluators : session[e].step = "overrides" => session[e].seen \in 0 .. Len(overrides')
    BY DEF ReadsInv
<1> QED  BY <1>2, <1>3 DEF ReadsInv

LEMMA ReviewReads ==
    ASSUME ReadsInv, OverridesInv, NEW r \in Reviewers, Review(r)
    PROVE  ReadsInv'
<1>0. /\ IsDialog(dialog[r]) /\ DOMAIN dialog = Reviewers /\ NoDialog.step = "closed"
      /\ Len(overrides) \in Nat /\ \A i \in DOMAIN overrides : overrides[i].new \in Decisions
    BY DEF OverridesInv, DialogInv, NoDialog, Listed, ReadsInv
<1>1. CASE OpenDialog(r)
    <2>1. PICK o \in DOMAIN cache.summary.orders, new \in ReviewChoices :
              dialog' = [dialog EXCEPT ![r] =
                  [step |-> "confirmed", order |-> o, rid |-> cache.summary.orders[o].rid,
                   system |-> cache.summary.orders[o].system, new |-> new, last |-> 0, at |-> 0]]
        BY <1>1, Zenon DEF OpenDialog
    <2>2. PICK d : d = [step |-> "confirmed", order |-> o, rid |-> cache.summary.orders[o].rid,
                        system |-> cache.summary.orders[o].system, new |-> new,
                        last |-> 0, at |-> 0]
        OBVIOUS
    <2>3. d.new \in Decisions
        BY <2>2, SettlementAssumption
    <2>4. dialog' = [dialog EXCEPT ![r] = d]
        BY <2>1, <2>2
    <2>5. UNCHANGED <<session, source, cache, overrides>>
        BY <1>1 DEF OpenDialog
    <2>6. Len(overrides) \in Nat /\ Len(overrides') \in Nat /\ Len(overrides) <= Len(overrides')
         /\ \A i \in DOMAIN overrides' : overrides'[i].new \in Decisions
        BY <1>0, <2>5
    <2> QED  BY <2>3, <2>4, <2>5, <2>6, DialogReads
<1>2. CASE CloseDialog(r) \/ CheckLock(r) \/ ReadHistory(r) \/ Stamp(r)
    <2> DEFINE last == Deciding(overrides, dialog[r].order)
    <2>1. PICK n : n = last
        OBVIOUS
    <2>2. PICK d : /\ dialog' = [dialog EXCEPT ![r] = d]
                   /\ \/ d = NoDialog
                      \/ dialog[r].step # "closed" /\ d = [dialog[r] EXCEPT !.step = "unlocked"]
                      \/ dialog[r].step # "closed"
                         /\ d = [[dialog[r] EXCEPT !.step = "read"] EXCEPT !.last = n]
                      \/ dialog[r].step # "closed"
                         /\ d = [[dialog[r] EXCEPT !.step = "stamped"] EXCEPT !.at = clock]
        <3>1. CASE CloseDialog(r)
            BY <3>1 DEF CloseDialog
        <3>2. CASE CheckLock(r)
            BY <1>0, <3>2 DEF CheckLock
        <3>3. CASE ReadHistory(r)
            BY <1>0, <2>1, <3>3 DEF ReadHistory
        <3>4. CASE Stamp(r)
            BY <1>0, <3>4 DEF Stamp
        <3> QED  BY <1>2, <3>1, <3>2, <3>3, <3>4
    <2>3. d.step # "closed" => d.new = dialog[r].new /\ dialog[r].step # "closed"
        BY <1>0, <2>2 DEF IsDialog, NoDialog
    <2>4. d.step # "closed" => d.new \in Decisions
        BY <2>3 DEF ReadsInv
    <2>5. UNCHANGED <<session, source, cache, overrides>>
        BY <1>2 DEF CloseDialog, CheckLock, ReadHistory, Stamp
    <2>6. Len(overrides) \in Nat /\ Len(overrides') \in Nat /\ Len(overrides) <= Len(overrides')
         /\ \A i \in DOMAIN overrides' : overrides'[i].new \in Decisions
        BY <1>0, <2>5
    <2> HIDE DEF last
    <2> QED  BY <2>2, <2>4, <2>5, <2>6, DialogReads
<1>3. CASE SaveOverride(r)
    <2>1. PICK d : d = dialog[r]
        OBVIOUS
    <2>2. PICK new : new = [order |-> d.order, rid |-> d.rid, previous |-> Previous(d),
                            new |-> d.new, at |-> d.at, supersedes |-> d.last]
        OBVIOUS
    <2>3. /\ d.step = "stamped" /\ overrides' = Append(overrides, new)
          /\ dialog' = [dialog EXCEPT ![r] = NoDialog]
          /\ UNCHANGED <<session, source>> /\ cache' = None
        BY <1>3, <2>1, <2>2 DEF SaveOverride
    <2>4. new.new \in Decisions
        BY <2>1, <2>2, <2>3 DEF ReadsInv
    <2>5. PICK S, old : old = overrides /\ old \in Seq(S)
        BY DEF OverridesInv, Listed
    <2>6. /\ DOMAIN Append(old, new) = DOMAIN old \cup {Len(old) + 1}
          /\ \A i \in DOMAIN old : Append(old, new)[i] = old[i]
          /\ Append(old, new)[Len(old) + 1] = new
          /\ Append(old, new) \in Seq(S \cup {new}) /\ Len(Append(old, new)) = Len(old) + 1
        BY <2>5, AppendKeeps
    <2>7. \A i \in DOMAIN overrides' : overrides'[i].new \in Decisions
        BY <1>0, <2>3, <2>4, <2>5, <2>6
    <2>8. Len(overrides') = Len(overrides) + 1
        BY <2>3, <2>5, <2>6
    <2>9. Len(overrides) \in Nat /\ Len(overrides') \in Nat /\ Len(overrides) <= Len(overrides')
         /\ \A i \in DOMAIN overrides' : overrides'[i].new \in Decisions
        BY <1>0, <2>7, <2>8
    <2>10. PICK e : e = NoDialog
        OBVIOUS
    <2>11. dialog' = [dialog EXCEPT ![r] = e] /\ e.step = "closed"
        BY <1>0, <2>3, <2>10
    <2> QED  BY <2>3, <2>9, <2>11, DialogReads
<1> QED  BY <1>1, <1>2, <1>3 DEF Review

LEMMA ReadsKeeps == ReadsInv /\ OverridesInv /\ WorkspaceInv /\ [Next]_vars => ReadsInv'
<1> SUFFICES ASSUME ReadsInv, OverridesInv, WorkspaceInv, [Next]_vars PROVE ReadsInv'
    OBVIOUS
<1>1. CASE ClearCache \/ LockChanges \/ UNCHANGED vars
    <2>1. UNCHANGED <<source, session, overrides, dialog>> /\ (cache' = cache \/ cache' = None)
        BY <1>1 DEF ClearCache, LockChanges, vars
    <2> QED  BY <2>1 DEF ReadsInv
<1>2. CASE SourceChanges
    <2>1. source' \in Sources /\ UNCHANGED <<session, cache, overrides, dialog>>
        BY <1>2, SettlementAssumption DEF SourceChanges
    <2> QED  BY <2>1 DEF ReadsInv
<1> QED  BY <1>1, <1>2, EvaluationReads, ReviewReads DEF Next

(***************************************************************************)
(* phase5_service.py: in a READY settlement every order has an amount and  *)
(* is in exactly one of the totals, whatever was overridden or published   *)
(* while the evaluation read its sources one by one; and whatever the      *)
(* roundings of its chain lost, the net payable and the invoice it shows   *)
(* add up to the sales exactly, as reconcile of the document candidate     *)
(* demands.                                                                *)
(***************************************************************************)
THEOREM ReadyIsAccountedFor == Spec => []ReadyAccountsForEveryOrder
<1>1. Spec => []OverridesInv
    BY InitInv, NextKeeps, PTL DEF Spec
<1>2. ReadsInv => ReadyAccountsForEveryOrder
    <2> SUFFICES ASSUME ReadsInv, NEW k \in ReadyEntries
                 PROVE  LET s == cache.summary.restaurants[k]
                        IN  /\ s.gross = s.eligible + s.excluded + s.compensation
                            /\ \A o \in DOMAIN s.orders : s.orders[o].amount # None
                            /\ SameValue(s.money.sales, Plus(s.money.net, s.money.ttc))
                            /\ SameValue(s.money.ttc, Plus(s.money.commission, s.money.tva))
        BY Zenon DEF ReadyAccountsForEveryOrder
    <2>1. cache # None /\ k \in DOMAIN cache.summary.restaurants
          /\ cache.summary.restaurants[k].status = "READY"
        BY DEF ReadyEntries
    <2>2. AddsUp(cache.summary.restaurants[k])
        BY <2>1 DEF ReadsInv, EveryOrderAddsUp
    <2> QED  BY <2>1, <2>2, Zenon DEF AddsUp, Exact
<1> QED  BY <1>1, <1>2, WorkspaceInvariant, ReadsInit, ReadsKeeps, PTL DEF Spec

============================================================================
