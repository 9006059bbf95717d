--------------------------- MODULE FirstPhaseProofs ---------------------------
(***************************************************************************)
(* The sandbox drafts and the first services of documents and e-mail, for  *)
(* any number of processes, callers, packages, settings, settlements,      *)
(* failures and crashes.                                                   *)
(*                                                                         *)
(* Gmail holds one sandbox draft of a key at most: the last row of a key   *)
(* lets a process in only when the key has no draft, and a process between *)
(* its claim and its record is the only one of its key, since the row it   *)
(* wrote keeps the others out.                                             *)
(***************************************************************************)
EXTENDS FirstPhase, WellFoundedInduction, TLAPS

Listed == (\E S : rows \in Seq(S)) /\ (\E S : mailbox \in Seq(S))

RowsOf(k) == {i \in DOMAIN rows : rows[i].key = k}

\* a key with rows has a last one
HasLast(k) == RowsOf(k) # {} => \E i \in RowsOf(k) : \A j \in RowsOf(k) : j <= i

\* a key that is free to claim has no draft
FreeKey(k) == LatestDraft(k) \in {None, "FAILED"} => k \notin Range(mailbox)

IsScript(x) == x = [step |-> x.step, key |-> x.key, answer |-> x.answer]

\* between the claim and the record; and before the call went through
Holding(x) == x.step \in {"announce", "call", "fail", "record"}
Unsent(x) == x.step \in {"announce", "call", "fail"}

HolderInv(p) ==
    /\ IsScript(script[p])
    /\ Holding(script[p]) => LatestDraft(script[p].key) = "PENDING"
    /\ Unsent(script[p]) => script[p].key \notin Range(mailbox)

Exclusive ==
    \A p, q \in Scripts : p # q /\ Holding(script[p]) /\ Holding(script[q])
                              => script[p].key # script[q].key

DraftInv ==
    /\ Listed
    /\ \A k : HasLast(k) /\ FreeKey(k)
    /\ DOMAIN script = Scripts /\ script = [p \in Scripts |-> script[p]]
    /\ \A p \in Scripts : HolderInv(p)
    /\ Exclusive
    /\ OneDraftPerKey

----------------------------------------------------------------------------
LEMMA AppendKeeps ==
    ASSUME NEW S, NEW old \in Seq(S), NEW new
    PROVE  /\ \E T : Append(old, new) \in Seq(T)
           /\ DOMAIN old = 1 .. Len(old) /\ Len(old) \in Nat
           /\ DOMAIN Append(old, new) = DOMAIN old \cup {Len(old) + 1}
           /\ \A i \in DOMAIN old : Append(old, new)[i] = old[i]
           /\ Append(old, new)[Len(old) + 1] = new
<1>1. old \in Seq(S \cup {new}) /\ new \in S \cup {new}
    OBVIOUS
<1>2. Append(old, new) \in Seq(S \cup {new})
    BY <1>1
<1>3. \E T : Append(old, new) \in Seq(T)
    BY <1>2
<1> QED  BY <1>1, <1>3

LEMMA RangeOfAppend ==
    ASSUME NEW S, NEW old \in Seq(S), NEW new
    PROVE  Range(Append(old, new)) = Range(old) \cup {new}
    BY AppendKeeps DEF Range

(* The row of a key that counts is the last: a new one is, for its key,    *)
(* and the other keys keep theirs.                                         *)
LEMMA LatestOfAppend ==
    ASSUME DraftInv, NEW row, NEW k, rows' = Append(rows, row)
    PROVE  /\ HasLast(k)'
           /\ row.key = k => LatestDraft(k)' = row.status
           /\ row.key # k => LatestDraft(k)' = LatestDraft(k)
<1>1. PICK S : rows \in Seq(S)
    BY DEF DraftInv, Listed
<1> DEFINE n == Len(rows) + 1
<1>2. /\ DOMAIN rows = 1 .. Len(rows) /\ Len(rows) \in Nat
      /\ DOMAIN rows' = DOMAIN rows \cup {n}
      /\ \A i \in DOMAIN rows : rows'[i] = rows[i]
      /\ rows'[n] = row
    <2>1. \A list \in Seq(S) :
             /\ DOMAIN list = 1 .. Len(list) /\ Len(list) \in Nat
             /\ DOMAIN Append(list, row) = DOMAIN list \cup {Len(list) + 1}
             /\ \A i \in DOMAIN list : Append(list, row)[i] = list[i]
             /\ Append(list, row)[Len(list) + 1] = row
        BY AppendKeeps
    <2> QED  BY <1>1, <2>1, Zenon
<1> HIDE DEF n
<1>3. CASE row.key = k
    <2>1. n \in RowsOf(k)' /\ \A j \in RowsOf(k)' : j \in Nat /\ j <= n
        BY <1>2, <1>3 DEF RowsOf, n
    <2>2. \A i \in RowsOf(k)' : (\A j \in RowsOf(k)' : j <= i) => i = n
        BY <1>2, <2>1 DEF n
    <2>3. LatestDraft(k)' = rows'[n].status
        BY <2>1, <2>2 DEF LatestDraft, RowsOf
    <2> QED  BY <1>2, <1>3, <2>1, <2>3 DEF HasLast
<1>4. CASE row.key # k
    <2>1. RowsOf(k)' = RowsOf(k) /\ \A i \in RowsOf(k) : rows'[i] = rows[i]
        BY <1>2, <1>4 DEF RowsOf
    <2>2. HasLast(k) /\ HasLast(k)'
        BY <2>1 DEF DraftInv, HasLast
    <2>3. LatestDraft(k)' = LatestDraft(k)
        <3>1. CASE RowsOf(k) = {}
            BY <2>1, <3>1 DEF LatestDraft, RowsOf
        <3>2. CASE RowsOf(k) # {}
            <4> DEFINE last == CHOOSE i \in RowsOf(k) : \A j \in RowsOf(k) : j <= i
            <4>1. last \in RowsOf(k)
                BY <2>2, <3>2 DEF HasLast
            <4>2. LatestDraft(k) = rows[last].status
                BY <3>2 DEF LatestDraft, RowsOf
            <4>3. LatestDraft(k)' = rows'[last].status
                BY <2>1, <3>2 DEF LatestDraft, RowsOf
            <4> QED  BY <2>1, <4>1, <4>2, <4>3
        <3> QED  BY <3>1, <3>2
    <2> QED  BY <1>4, <2>2, <2>3
<1> QED  BY <1>3, <1>4

----------------------------------------------------------------------------
LEMMA InitInv == SandboxInit => DraftInv
<1> SUFFICES ASSUME SandboxInit PROVE DraftInv
    OBVIOUS
<1>1. rows = <<>> /\ mailbox = <<>> /\ script = [p \in Scripts |-> Idle]
    BY DEF SandboxInit
<1>2. rows \in Seq({}) /\ mailbox \in Seq({}) /\ DOMAIN rows = {} /\ DOMAIN mailbox = {}
    BY <1>1
<1>3. Listed
    BY <1>2 DEF Listed
<1>4. \A k : HasLast(k) /\ FreeKey(k)
    BY <1>2 DEF HasLast, RowsOf, FreeKey, Range
<1>5. \A p \in Scripts : HolderInv(p) /\ ~Holding(script[p])
    BY <1>1 DEF HolderInv, IsScript, Holding, Unsent, Idle
<1>6. OneDraftPerKey
    BY <1>2 DEF OneDraftPerKey
<1> QED  BY <1>1, <1>3, <1>4, <1>5, <1>6 DEF DraftInv, Exclusive

(* What a step that changes one process leaves of the others. *)
LEMMA OneScript ==
    ASSUME DraftInv, NEW p \in Scripts, NEW d, script' = [script EXCEPT ![p] = d]
    PROVE  /\ DOMAIN script' = Scripts /\ script' = [q \in Scripts |-> script'[q]]
           /\ script'[p] = d /\ \A q \in Scripts \ {p} : script'[q] = script[q]
    BY DEF DraftInv

(* A step of a process that writes no row and makes no draft. *)
LEMMA QuietStep ==
    ASSUME DraftInv, UNCHANGED <<rows, mailbox>>,
           NEW p \in Scripts, NEW d, script' = [script EXCEPT ![p] = d], IsScript(d),
           Holding(d) => Holding(script[p]) /\ d.key = script[p].key,
           Unsent(d) => Unsent(script[p])
    PROVE  DraftInv'
<1>1. /\ DOMAIN script' = Scripts /\ script' = [q \in Scripts |-> script'[q]]
      /\ script'[p] = d /\ \A q \in Scripts \ {p} : script'[q] = script[q]
    BY OneScript
<1>2. \A k : LatestDraft(k)' = LatestDraft(k)
    BY DEF LatestDraft
<1>3. Listed' /\ OneDraftPerKey'
    BY DEF DraftInv, Listed, OneDraftPerKey
<1>4. ASSUME NEW k PROVE HasLast(k)' /\ FreeKey(k)'
    <2>1. HasLast(k) /\ FreeKey(k)
        BY DEF DraftInv
    <2>2. RowsOf(k)' = RowsOf(k)
        BY DEF RowsOf
    <2> QED  BY <1>2, <2>1, <2>2 DEF HasLast, FreeKey
<1>5. ASSUME NEW q \in Scripts PROVE HolderInv(q)'
    <2>1. CASE q = p
        <3>1. Holding(d) => LatestDraft(d.key)' = "PENDING"
            BY <1>2 DEF DraftInv, HolderInv
        <3>2. Unsent(d) => d.key \notin Range(mailbox')
            BY DEF DraftInv, HolderInv, Holding, Unsent
        <3> QED  BY <1>1, <2>1, <3>1, <3>2 DEF HolderInv, IsScript, Holding, Unsent
    <2>2. CASE q # p
        <3>1. script'[q] = script[q] /\ HolderInv(q)
            BY <1>1, <2>2 DEF DraftInv
        <3> QED  BY <1>2, <3>1 DEF HolderInv, IsScript, Holding, Unsent
    <2> QED  BY <2>1, <2>2
<1>6. Exclusive'
    BY <1>1 DEF DraftInv, Exclusive, Holding
<1> QED  BY <1>1, <1>3, <1>4, <1>5, <1>6 DEF DraftInv

(* The claim: nobody holds a free key, and from now on this process does. *)
LEMMA ClaimKeeps ==
    ASSUME DraftInv, NEW p \in Scripts, ClaimFree(p)
    PROVE  DraftInv'
<1>1. PICK old : old = script[p]
    OBVIOUS
<1>2. PICK d : d = [old EXCEPT !.step = "announce"]
    OBVIOUS
<1>3. PICK row : row = [key |-> old.key, status |-> "PENDING"]
    OBVIOUS
<1>4. /\ LatestDraft(old.key) \in {None, "FAILED"} /\ rows' = Append(rows, row)
      /\ UNCHANGED mailbox
    BY <1>1, <1>3 DEF ClaimFree, Append2
<1>5. script' = [script EXCEPT ![p] = d]
    BY <1>1, <1>2 DEF ClaimFree, To, DraftInv
<1>6. IsScript(d) /\ d.step = "announce" /\ d.key = old.key
    BY <1>1, <1>2 DEF DraftInv, HolderInv, IsScript
<1>7. /\ DOMAIN script' = Scripts /\ script' = [q \in Scripts |-> script'[q]]
      /\ script'[p] = d /\ \A q \in Scripts \ {p} : script'[q] = script[q]
    BY <1>5, OneScript
<1>8. ASSUME NEW k
      PROVE  /\ HasLast(k)' /\ (k = old.key => LatestDraft(k)' = "PENDING")
             /\ k # old.key => LatestDraft(k)' = LatestDraft(k)
    BY <1>3, <1>4, LatestOfAppend
<1>9. old.key \notin Range(mailbox)
    BY <1>4 DEF DraftInv, FreeKey
<1>10. ASSUME NEW q \in Scripts \ {p}, Holding(script[q]) PROVE script[q].key # old.key
    <2>1. LatestDraft(script[q].key) = "PENDING"
        BY <1>10 DEF DraftInv, HolderInv
    <2> QED  BY <1>4, <2>1, SandboxAssumption
<1>11. Listed'
    <2>1. PICK S : rows \in Seq(S)
        BY DEF DraftInv, Listed
    <2>2. \A list \in Seq(S) : \E T : Append(list, row) \in Seq(T)
        BY AppendKeeps
    <2>3. \E T : rows' \in Seq(T)
        BY <1>4, <2>1, <2>2
    <2> QED  BY <1>4, <2>3 DEF DraftInv, Listed
<1>12. ASSUME NEW k PROVE FreeKey(k)'
    <2>1. CASE k = old.key
        BY <1>4, <1>8, <1>9, <2>1 DEF FreeKey
    <2>2. CASE k # old.key
        BY <1>4, <1>8, <2>2 DEF DraftInv, FreeKey
    <2> QED  BY <2>1, <2>2
<1>13. ASSUME NEW q \in Scripts PROVE HolderInv(q)'
    <2>1. CASE q = p
        BY <1>4, <1>6, <1>7, <1>8, <1>9, <2>1 DEF HolderInv, IsScript
    <2>2. CASE q # p
        <3>1. script'[q] = script[q] /\ HolderInv(q)
            BY <1>7, <2>2 DEF DraftInv
        <3>2. Holding(script[q]) => LatestDraft(script[q].key)' = "PENDING"
            <4>1. PICK k : k = script[q].key
                OBVIOUS
            <4>2. Holding(script[q]) => LatestDraft(k)' = "PENDING"
                BY <1>8, <1>10, <2>2, <3>1, <4>1 DEF HolderInv
            <4>3. script'[q].key = k
                BY <3>1, <4>1
            <4> QED  BY <3>1, <4>2, <4>3
        <3> QED  BY <1>4, <3>1, <3>2 DEF HolderInv, IsScript, Holding, Unsent
    <2> QED  BY <2>1, <2>2
<1>14. Exclusive'
    BY <1>6, <1>7, <1>10 DEF DraftInv, Exclusive, Holding
<1>15. OneDraftPerKey'
    BY <1>4 DEF DraftInv, OneDraftPerKey
<1> QED  BY <1>7, <1>8, <1>11, <1>12, <1>13, <1>14, <1>15 DEF DraftInv

(* The record: the process gives its key back, FAILED only with no draft.  *)
LEMMA RecordKeeps ==
    ASSUME DraftInv, NEW p \in Scripts, RecordDraft(p)
    PROVE  DraftInv'
<1>1. PICK old : old = script[p]
    OBVIOUS
<1>2. IsScript(old) /\ HolderInv(p) /\ old.step \in {"record", "fail"}
    BY <1>1 DEF RecordDraft, DraftInv, HolderInv
<1>3. PICK status, d :
          /\ rows' = Append(rows, [key |-> old.key, status |-> status])
          /\ script' = [script EXCEPT ![p] = d] /\ IsScript(d) /\ d.step \in {"confirm", "idle"}
          /\ status \in {"CREATED", "FAILED"}
          /\ status = "FAILED" => old.step = "fail"
    <2>1. CASE old.step = "record"
        <3>1. PICK d : d = [old EXCEPT !.step = "confirm"]
            OBVIOUS
        <3>2. /\ rows' = Append(rows, [key |-> old.key, status |-> "CREATED"])
              /\ script' = [script EXCEPT ![p] = d]
            BY <1>1, <2>1, <3>1 DEF RecordDraft, Append2, To, DraftInv
        <3>3. IsScript(d) /\ d.step \in {"confirm", "idle"}
            BY <1>2, <3>1 DEF IsScript
        <3>4. "CREATED" \in {"CREATED", "FAILED"} /\ "CREATED" # "FAILED"
            OBVIOUS
        <3> QED  BY <3>2, <3>3, <3>4, Zenon
    <2>2. CASE old.step = "fail"
        <3>1. PICK d : d = [[old EXCEPT !.step = "idle"] EXCEPT !.answer = "FAILED"]
            OBVIOUS
        <3>2. /\ rows' = Append(rows, [key |-> old.key, status |-> "FAILED"])
              /\ script' = [script EXCEPT ![p] = d]
            BY <1>1, <2>2, <3>1 DEF RecordDraft, Append2, Answer, DraftInv
        <3>3. IsScript(d) /\ d.step \in {"confirm", "idle"}
            BY <1>2, <3>1 DEF IsScript
        <3>4. "FAILED" \in {"CREATED", "FAILED"}
            OBVIOUS
        <3> QED  BY <2>2, <3>2, <3>3, <3>4, Zenon
    <2> QED  BY <1>2, <2>1, <2>2
<1>4. PICK row : row = [key |-> old.key, status |-> status]
    OBVIOUS
<1>5. rows' = Append(rows, row) /\ UNCHANGED mailbox
    BY <1>3, <1>4 DEF RecordDraft
<1>6. /\ DOMAIN script' = Scripts /\ script' = [q \in Scripts |-> script'[q]]
      /\ script'[p] = d /\ \A q \in Scripts \ {p} : script'[q] = script[q]
    BY <1>3, OneScript
<1>7. ASSUME NEW k
      PROVE  /\ HasLast(k)' /\ (k = old.key => LatestDraft(k)' = status)
             /\ k # old.key => LatestDraft(k)' = LatestDraft(k)
    BY <1>4, <1>5, LatestOfAppend
<1>8. status = "FAILED" => old.key \notin Range(mailbox)
    BY <1>1, <1>2, <1>3 DEF HolderInv, Unsent
<1>9. ASSUME NEW q \in Scripts \ {p}, Holding(script[q]) PROVE script[q].key # old.key
    BY <1>1, <1>2, <1>9 DEF DraftInv, Exclusive, Holding
<1>10. Listed'
    <2>1. PICK S : rows \in Seq(S)
        BY DEF DraftInv, Listed
    <2>2. \A list \in Seq(S) : \E T : Append(list, row) \in Seq(T)
        BY AppendKeeps
    <2>3. \E T : rows' \in Seq(T)
        BY <1>5, <2>1, <2>2
    <2> QED  BY <1>5, <2>3 DEF DraftInv, Listed
<1>11. ASSUME NEW k PROVE FreeKey(k)'
    <2>1. CASE k = old.key
        BY <1>3, <1>5, <1>7, <1>8, <2>1, SandboxAssumption DEF FreeKey
    <2>2. CASE k # old.key
        BY <1>5, <1>7, <2>2 DEF DraftInv, FreeKey
    <2> QED  BY <2>1, <2>2
<1>12. ASSUME NEW q \in Scripts PROVE HolderInv(q)'
    <2>1. CASE q = p
        BY <1>3, <1>6, <2>1 DEF HolderInv, IsScript, Holding, Unsent
    <2>2. CASE q # p
        <3>1. script'[q] = script[q] /\ HolderInv(q)
            BY <1>6, <2>2 DEF DraftInv
        <3>2. PICK k : k = script[q].key
            OBVIOUS
        <3>3. Holding(script[q]) => LatestDraft(k)' = "PENDING"
            BY <1>7, <1>9, <2>2, <3>1, <3>2 DEF HolderInv
        <3>4. script'[q].key = k
            BY <3>1, <3>2
        <3>5. Holding(script[q]) => LatestDraft(script[q].key)' = "PENDING"
            BY <3>1, <3>3, <3>4
        <3> QED  BY <1>5, <3>1, <3>5 DEF HolderInv, IsScript, Holding, Unsent
    <2> QED  BY <2>1, <2>2
<1>13. Exclusive'
    BY <1>3, <1>6 DEF DraftInv, Exclusive, Holding
<1>14. OneDraftPerKey'
    BY <1>5 DEF DraftInv, OneDraftPerKey
<1> QED  BY <1>6, <1>7, <1>10, <1>11, <1>12, <1>13, <1>14 DEF DraftInv

(* The draft is made: its key had none, and its holder is past the call.    *)
LEMMA DraftMade ==
    ASSUME DraftInv, NEW p \in Scripts, script[p].step = "call",
           mailbox' = Append(mailbox, script[p].key), UNCHANGED rows,
           NEW d, script' = [script EXCEPT ![p] = d], IsScript(d),
           d.step \in {"record", "idle"}, d.step = "record" => d.key = script[p].key
    PROVE  DraftInv'
<1>1. PICK key : key = script[p].key
    OBVIOUS
<1>2. key \notin Range(mailbox) /\ LatestDraft(key) = "PENDING"
    BY <1>1 DEF DraftInv, HolderInv, Holding, Unsent
<1>3. /\ DOMAIN script' = Scripts /\ script' = [q \in Scripts |-> script'[q]]
      /\ script'[p] = d /\ \A q \in Scripts \ {p} : script'[q] = script[q]
    BY OneScript
<1>4. PICK S : mailbox \in Seq(S)
    BY DEF DraftInv, Listed
<1>5. /\ \E T : mailbox' \in Seq(T)
      /\ DOMAIN mailbox' = DOMAIN mailbox \cup {Len(mailbox) + 1}
      /\ \A i \in DOMAIN mailbox : mailbox'[i] = mailbox[i]
      /\ mailbox'[Len(mailbox) + 1] = key
      /\ Range(mailbox') = Range(mailbox) \cup {key}
    <2>1. \A list \in Seq(S) :
             /\ \E T : Append(list, key) \in Seq(T)
             /\ DOMAIN list = 1 .. Len(list) /\ Len(list) \in Nat
             /\ DOMAIN Append(list, key) = DOMAIN list \cup {Len(list) + 1}
             /\ \A i \in DOMAIN list : Append(list, key)[i] = list[i]
             /\ Append(list, key)[Len(list) + 1] = key
        BY AppendKeeps
    <2>2. \A list \in Seq(S) : Range(Append(list, key)) = Range(list) \cup {key}
        BY RangeOfAppend
    <2>3. mailbox' = Append(mailbox, key)
        BY <1>1
    <2> QED  BY <1>4, <2>1, <2>2, <2>3, Zenon
<1>6. \A k : LatestDraft(k)' = LatestDraft(k)
    BY DEF LatestDraft
<1>7. ASSUME NEW k PROVE HasLast(k)' /\ FreeKey(k)'
    <2>1. HasLast(k) /\ FreeKey(k)
        BY DEF DraftInv
    <2>2. RowsOf(k)' = RowsOf(k)
        BY DEF RowsOf
    <2>3. LatestDraft(k) \in {None, "FAILED"} => k # key
        BY <1>2, SandboxAssumption
    <2> QED  BY <1>5, <1>6, <2>1, <2>2, <2>3 DEF HasLast, FreeKey
<1>8. ASSUME NEW q \in Scripts PROVE HolderInv(q)'
    <2>1. CASE q = p
        BY <1>1, <1>2, <1>3, <1>6, <2>1 DEF HolderInv, IsScript, Holding, Unsent
    <2>2. CASE q # p
        <3>1. script'[q] = script[q] /\ HolderInv(q)
            BY <1>3, <2>2 DEF DraftInv
        <3>2. Unsent(script[q]) => script[q].key # key
            BY <1>1, <2>2 DEF DraftInv, Exclusive, Holding, Unsent
        <3> QED  BY <1>5, <1>6, <3>1, <3>2 DEF HolderInv, IsScript, Holding, Unsent
    <2> QED  BY <2>1, <2>2
<1>9. Exclusive'
    BY <1>3 DEF DraftInv, Exclusive, Holding
<1>10. OneDraftPerKey'
    <2>1. \A i \in DOMAIN mailbox : mailbox[i] # key
        BY <1>2 DEF Range
    <2> QED  BY <1>5, <2>1 DEF DraftInv, OneDraftPerKey
<1>11. Listed'
    BY <1>5 DEF DraftInv, Listed
<1> QED  BY <1>3, <1>7, <1>8, <1>9, <1>10, <1>11 DEF DraftInv

----------------------------------------------------------------------------
LEMMA CreateKeeps ==
    ASSUME DraftInv, NEW p \in Scripts, NEW k, NEW s, CreateDraft(p, k, s)
    PROVE  DraftInv'
<1>1. PICK key : key = SandboxKey(k, s)
    OBVIOUS
<1>2. PICK d : d = [step |-> "claim", key |-> key, answer |-> None]
    OBVIOUS
<1>3. script' = [script EXCEPT ![p] = d] /\ UNCHANGED <<rows, mailbox>>
    BY <1>1, <1>2 DEF CreateDraft
<1>4. IsScript(d) /\ ~ Holding(d) /\ ~ Unsent(d)
    BY <1>2 DEF IsScript, Holding, Unsent
<1> QED  BY <1>3, <1>4, QuietStep

(* A process that goes on to another step, with its key and its answer.     *)
LEMMA GoesOn ==
    ASSUME DraftInv, UNCHANGED <<rows, mailbox>>, NEW p \in Scripts, NEW step, To(p, step),
           script[p].step \in {"announce", "call"}, step \in {"call", "fail"}
    PROVE  DraftInv'
<1>1. PICK old : old = script[p]
    OBVIOUS
<1>2. PICK d : d = [old EXCEPT !.step = step]
    OBVIOUS
<1>3. script' = [script EXCEPT ![p] = d]
    BY <1>1, <1>2 DEF To, DraftInv
<1>4. IsScript(d) /\ d.step = step /\ d.key = script[p].key
    BY <1>1, <1>2 DEF DraftInv, HolderInv, IsScript
<1>5. Holding(script[p]) /\ Unsent(script[p])
    BY DEF Holding, Unsent
<1> QED  BY <1>3, <1>4, <1>5, QuietStep

(* A process that answers keeps its key and holds nothing.                  *)
LEMMA Answers ==
    ASSUME DraftInv, UNCHANGED <<rows, mailbox>>, NEW p \in Scripts, NEW a, Answer(p, a)
    PROVE  DraftInv'
<1>1. PICK old : old = script[p]
    OBVIOUS
<1>2. PICK d : d = [[old EXCEPT !.step = "idle"] EXCEPT !.answer = a]
    OBVIOUS
<1>3. script' = [script EXCEPT ![p] = d]
    BY <1>1, <1>2 DEF Answer, DraftInv
<1>4. IsScript(old)
    BY <1>1 DEF DraftInv, HolderInv
<1>5. d = [step |-> "idle", key |-> old.key, answer |-> a]
    BY <1>2, <1>4 DEF IsScript
<1>6. IsScript(d) /\ ~ Holding(d) /\ ~ Unsent(d)
    BY <1>5 DEF IsScript, Holding, Unsent
<1> QED  BY <1>3, <1>6, QuietStep

LEMMA Stops ==
    ASSUME DraftInv, UNCHANGED <<rows, mailbox>>, NEW p \in Scripts,
           script' = [script EXCEPT ![p] = Idle]
    PROVE  DraftInv'
<1>1. IsScript(Idle) /\ ~ Holding(Idle) /\ ~ Unsent(Idle)
    BY DEF IsScript, Holding, Unsent, Idle
<1> QED  BY <1>1, QuietStep

LEMMA GmailCreatesKeeps ==
    ASSUME DraftInv, NEW p \in Scripts, GmailCreates(p)
    PROVE  DraftInv'
<1>1. PICK old : old = script[p]
    OBVIOUS
<1>2. PICK d : d = [old EXCEPT !.step = "record"]
    OBVIOUS
<1>3. /\ script' = [script EXCEPT ![p] = d] /\ UNCHANGED rows
      /\ mailbox' = Append(mailbox, script[p].key) /\ script[p].step = "call"
    BY <1>1, <1>2 DEF GmailCreates, At, To, DraftInv
<1>4. IsScript(d) /\ d.step = "record" /\ d.key = script[p].key
    BY <1>1, <1>2 DEF DraftInv, HolderInv, IsScript
<1> QED  BY <1>3, <1>4, DraftMade

LEMMA GmailFailsKeeps ==
    ASSUME DraftInv, NEW p \in Scripts, GmailFails(p)
    PROVE  DraftInv'
<1>1. /\ script[p].step = "call" /\ UNCHANGED rows
      /\ script' = [script EXCEPT ![p] = Idle]
      /\ mailbox' = mailbox \/ mailbox' = Append(mailbox, script[p].key)
    BY DEF GmailFails, At
<1>2. CASE mailbox' = mailbox
    BY <1>1, <1>2, Stops
<1>3. CASE mailbox' = Append(mailbox, script[p].key)
    <2>1. IsScript(Idle) /\ Idle.step = "idle"
        BY DEF IsScript, Idle
    <2> QED  BY <1>1, <1>3, <2>1, DraftMade
<1> QED  BY <1>1, <1>2, <1>3

LEMMA SandboxKeeps == DraftInv /\ SandboxNext => DraftInv'
<1> SUFFICES ASSUME DraftInv, SandboxNext PROVE DraftInv'
    OBVIOUS
<1>1. PICK p \in Scripts :
          \/ \E k \in Packages, s \in Configs : CreateDraft(p, k, s)
          \/ ClaimFree(p) \/ ClaimTaken(p) \/ Announce(p)
          \/ GmailCreates(p) \/ GmailFails(p) \/ Unbuildable(p)
          \/ RecordDraft(p) \/ Confirm(p) \/ ScriptCrash(p)
    BY Zenon DEF SandboxNext
<1>2. CASE \E k \in Packages, s \in Configs : CreateDraft(p, k, s)
    BY <1>2, CreateKeeps
<1>3. CASE ClaimFree(p)
    BY <1>3, ClaimKeeps
<1>4. CASE ClaimTaken(p)
    BY <1>4, Answers DEF ClaimTaken
<1>5. CASE Announce(p)
    <2>1. UNCHANGED <<rows, mailbox>> /\ To(p, "call") /\ script[p].step = "announce"
        BY <1>5 DEF Announce, At
    <2> QED  BY <2>1, GoesOn, Zenon
<1>6. CASE GmailCreates(p)
    BY <1>6, GmailCreatesKeeps
<1>7. CASE GmailFails(p)
    BY <1>7, GmailFailsKeeps
<1>8. CASE Unbuildable(p)
    BY <1>8, GoesOn DEF Unbuildable, At
<1>9. CASE RecordDraft(p)
    BY <1>9, RecordKeeps
<1>10. CASE Confirm(p)
    BY <1>10, Answers DEF Confirm
<1>11. CASE ScriptCrash(p)
    BY <1>11, Stops DEF ScriptCrash
<1> QED  BY <1>1, <1>2, <1>3, <1>4, <1>5, <1>6, <1>7, <1>8, <1>9, <1>10, <1>11, Zenon

(* The other services of the first phase leave the drafts alone.            *)
LEMMA OthersKeep ==
    ASSUME DraftInv, UNCHANGED <<rows, mailbox, script>>
    PROVE  DraftInv'
<1>1. \A k : LatestDraft(k)' = LatestDraft(k) /\ RowsOf(k)' = RowsOf(k)
    BY DEF LatestDraft, RowsOf
<1>2. ASSUME NEW k PROVE HasLast(k)' /\ FreeKey(k)'
    <2>1. HasLast(k) /\ FreeKey(k)
        BY DEF DraftInv
    <2> QED  BY <1>1, <2>1 DEF HasLast, FreeKey
<1>3. ASSUME NEW q \in Scripts PROVE HolderInv(q)'
    <2>1. HolderInv(q)
        BY DEF DraftInv
    <2> QED  BY <1>1, <2>1 DEF HolderInv, IsScript, Holding, Unsent
<1>4. Listed' /\ OneDraftPerKey' /\ Exclusive'
    BY DEF DraftInv, Listed, OneDraftPerKey, Exclusive, Holding
<1>5. DOMAIN script' = Scripts /\ script' = [q \in Scripts |-> script'[q]]
    BY DEF DraftInv
<1> QED  BY <1>2, <1>3, <1>4, <1>5 DEF DraftInv

(* Gmail never holds two drafts of one package for one recipient, whatever  *)
(* the number of processes and wherever they fail or stop.                  *)
THEOREM OneDraft == Spec => []OneDraftPerKey
<1>1. Init => DraftInv
    BY InitInv DEF Init
<1>2. DraftInv /\ [Next]_<<desk, sandboxVars, firstVars>> => DraftInv'
    <2> SUFFICES ASSUME DraftInv, [Next]_<<desk, sandboxVars, firstVars>> PROVE DraftInv'
        OBVIOUS
    <2>1. CASE SandboxNext
        BY <2>1, SandboxKeeps
    <2>2. CASE UNCHANGED <<rows, mailbox, script>>
        BY <2>2, OthersKeep
    <2> QED  BY <2>1, <2>2 DEF Next, sandboxVars
<1>3. DraftInv => OneDraftPerKey
    BY DEF DraftInv
<1> QED  BY <1>1, <1>2, <1>3, PTL DEF Spec

----------------------------------------------------------------------------
(***************************************************************************)
(* What the answers and the audit trail say.  A row CREATED, a process     *)
(* past the call and an answer that counts have a draft; the call is made  *)
(* once the package is announced.                                          *)
(***************************************************************************)
HasDraft(k) == k \in Range(mailbox)

ScriptTrue(x) ==
    /\ x.step \in {"record", "confirm"} => HasDraft(x.key)
    /\ x.answer \in {"CREATED", "ALREADY_CREATED"} => HasDraft(x.key)
    /\ x.step = "call" => <<"PACKAGE_BUILT", x.key>> \in audit

RowTrue(row) == row.status = "CREATED" => HasDraft(row.key)

EventTrue(event) == event[1] = "DRAFT_CREATED" => HasDraft(event[2])

TruthInv ==
    /\ \A p \in Scripts : \A x : x = script[p] => ScriptTrue(x)
    /\ \A i \in DOMAIN rows : \A row : row = rows[i] => RowTrue(row)
    /\ \A event \in audit : EventTrue(event)
    /\ \A k : HasDraft(k) => <<"PACKAGE_BUILT", k>> \in audit

MoreDrafts == \A k : HasDraft(k) => HasDraft(k)'

LEMMA TruthStep ==
    ASSUME DraftInv, TruthInv, MoreDrafts, audit \subseteq audit',
           NEW p \in Scripts, NEW d, script' = [script EXCEPT ![p] = d], ScriptTrue(d)',
           rows' = rows \/ \E row : rows' = Append(rows, row) /\ RowTrue(row)',
           \A event \in audit' \ audit : EventTrue(event)',
           \A k : HasDraft(k)' => HasDraft(k) \/ <<"PACKAGE_BUILT", k>> \in audit
    PROVE  TruthInv'
<1>1. ASSUME NEW q \in Scripts, NEW x, x = script'[q] PROVE ScriptTrue(x)'
    <2>1. CASE q = p
        <3>1. x = d
            BY <1>1, <2>1 DEF DraftInv
        <3> QED  BY <3>1
    <2>2. CASE q # p
        <3>1. x = script[q] /\ ScriptTrue(x)
            BY <1>1, <2>2 DEF DraftInv, TruthInv
        <3> QED  BY <3>1 DEF ScriptTrue, MoreDrafts
    <2> QED  BY <2>1, <2>2
<1>2. ASSUME NEW i \in DOMAIN rows', NEW row, row = rows'[i] PROVE RowTrue(row)'
    <2>1. CASE i \in DOMAIN rows /\ rows'[i] = rows[i]
        <3>1. RowTrue(row)
            BY <1>2, <2>1 DEF TruthInv
        <3> QED  BY <3>1 DEF RowTrue, MoreDrafts
    <2>2. CASE ~ (i \in DOMAIN rows /\ rows'[i] = rows[i])
        <3>1. PICK new : rows' = Append(rows, new) /\ RowTrue(new)'
            BY <1>2, <2>2
        <3>2. PICK S : rows \in Seq(S)
            BY DEF DraftInv, Listed
        <3>3. \A list \in Seq(S) :
                 /\ DOMAIN Append(list, new) = DOMAIN list \cup {Len(list) + 1}
                 /\ \A j \in DOMAIN list : Append(list, new)[j] = list[j]
                 /\ Append(list, new)[Len(list) + 1] = new
            BY AppendKeeps
        <3>4. row = new
            BY <1>2, <2>2, <3>1, <3>2, <3>3
        <3> QED  BY <3>1, <3>4
    <2> QED  BY <2>1, <2>2
<1>3. ASSUME NEW event \in audit' PROVE EventTrue(event)'
    <2>1. CASE event \in audit
        <3>1. EventTrue(event)
            BY <2>1 DEF TruthInv
        <3> QED  BY <3>1 DEF EventTrue, MoreDrafts
    <2> QED  BY <2>1
<1>4. ASSUME NEW k, HasDraft(k)' PROVE <<"PACKAGE_BUILT", k>> \in audit'
    <2>1. HasDraft(k) => <<"PACKAGE_BUILT", k>> \in audit
        BY DEF TruthInv
    <2> QED  BY <1>4, <2>1
<1> QED  BY <1>1, <1>2, <1>3, <1>4 DEF TruthInv

LEMMA SameDrafts ==
    ASSUME UNCHANGED mailbox
    PROVE  MoreDrafts /\ \A k : HasDraft(k)' <=> HasDraft(k)
BY DEF MoreDrafts, HasDraft

LEMMA LatestIsTrue ==
    ASSUME DraftInv, TruthInv, NEW k, LatestDraft(k) = "CREATED"
    PROVE  HasDraft(k)
<1>1. RowsOf(k) # {}
    BY SandboxAssumption DEF LatestDraft, RowsOf
<1>2. PICK last : last = CHOOSE i \in RowsOf(k) : \A j \in RowsOf(k) : j <= i
    OBVIOUS
<1>3. last \in RowsOf(k)
    BY <1>1, <1>2 DEF DraftInv, HasLast
<1>4. LatestDraft(k) = rows[last].status
    BY <1>1, <1>2 DEF LatestDraft, RowsOf
<1>5. PICK row : row = rows[last]
    OBVIOUS
<1>6. RowTrue(row) /\ row.key = k /\ row.status = "CREATED"
    BY <1>3, <1>4, <1>5 DEF TruthInv, RowsOf
<1> QED  BY <1>6 DEF RowTrue

(* The process of a step, before it and after.                              *)
LEMMA Turns ==
    ASSUME DraftInv, NEW p \in Scripts, NEW step, To(p, step)
    PROVE  \E d : /\ script' = [script EXCEPT ![p] = d]
                  /\ d.step = step /\ d.key = script[p].key /\ d.answer = script[p].answer
<1>1. PICK old : old = script[p]
    OBVIOUS
<1>2. PICK d : d = [old EXCEPT !.step = step]
    OBVIOUS
<1>3. script' = [script EXCEPT ![p] = d]
    BY <1>1, <1>2 DEF To, DraftInv
<1>4. d.step = step /\ d.key = old.key /\ d.answer = old.answer
    BY <1>1, <1>2 DEF DraftInv, HolderInv, IsScript
<1> QED  BY <1>1, <1>3, <1>4

LEMMA AnswersWith ==
    ASSUME DraftInv, NEW p \in Scripts, NEW a, Answer(p, a)
    PROVE  \E d : /\ script' = [script EXCEPT ![p] = d]
                  /\ d.step = "idle" /\ d.key = script[p].key /\ d.answer = a
<1>1. PICK old : old = script[p]
    OBVIOUS
<1>2. PICK d : d = [[old EXCEPT !.step = "idle"] EXCEPT !.answer = a]
    OBVIOUS
<1>3. script' = [script EXCEPT ![p] = d]
    BY <1>1, <1>2 DEF Answer, DraftInv
<1>4. IsScript(old)
    BY <1>1 DEF DraftInv, HolderInv
<1>5. d = [step |-> "idle", key |-> old.key, answer |-> a]
    BY <1>2, <1>4 DEF IsScript
<1>6. d.step = "idle" /\ d.key = script[p].key /\ d.answer = a
    BY <1>1, <1>5
<1> QED  BY <1>3, <1>6

LEMMA IdleIsTrue == ScriptTrue(Idle)'
BY SandboxAssumption DEF ScriptTrue, Idle

LEMMA ClaimsAreTrue ==
    ASSUME DraftInv, TruthInv, NEW p \in Scripts, ClaimFree(p) \/ ClaimTaken(p)
    PROVE  TruthInv'
<1>1. UNCHANGED <<audit, mailbox>>
    BY DEF ClaimFree, ClaimTaken
<1>2. MoreDrafts /\ \A k : HasDraft(k)' <=> HasDraft(k)
    BY <1>1, SameDrafts
<1>3. PICK old : old = script[p]
    OBVIOUS
<1>4. ScriptTrue(old)
    BY <1>3 DEF TruthInv
<1>5. CASE ClaimFree(p)
    <2>1. PICK d : /\ script' = [script EXCEPT ![p] = d]
                   /\ d.step = "announce" /\ d.key = old.key /\ d.answer = old.answer
        BY <1>3, <1>5, Turns DEF ClaimFree
    <2>2. ScriptTrue(d)'
        BY <1>2, <1>4, <2>1 DEF ScriptTrue
    <2>3. PICK row : row = [key |-> script[p].key, status |-> "PENDING"]
        OBVIOUS
    <2>4. rows' = Append(rows, row) /\ RowTrue(row)'
        BY <1>5, <2>3 DEF ClaimFree, Append2, RowTrue
    <2> QED  BY <1>1, <1>2, <2>1, <2>2, <2>4, TruthStep
<1>6. CASE ClaimTaken(p)
    <2>1. PICK a : Answer(p, a) /\ (a = "PENDING" \/ (a = "ALREADY_CREATED" /\ LatestDraft(old.key) = "CREATED"))
        BY <1>3, <1>6 DEF ClaimTaken
    <2>2. PICK d : /\ script' = [script EXCEPT ![p] = d]
                   /\ d.step = "idle" /\ d.key = old.key /\ d.answer = a
        BY <1>3, <2>1, AnswersWith
    <2>3. ScriptTrue(d)'
        BY <1>2, <2>1, <2>2, LatestIsTrue DEF ScriptTrue
    <2> QED  BY <1>1, <1>2, <1>6, <2>2, <2>3, TruthStep DEF ClaimTaken
<1> QED  BY <1>5, <1>6

LEMMA AnnounceIsTrue ==
    ASSUME DraftInv, TruthInv, NEW p \in Scripts, Announce(p)
    PROVE  TruthInv'
<1>1. PICK old : old = script[p]
    OBVIOUS
<1>2. /\ UNCHANGED <<rows, mailbox>> /\ ScriptTrue(old)
      /\ audit' = audit \cup {<<"PACKAGE_BUILT", old.key>>}
    BY <1>1 DEF Announce, TruthInv
<1>3. MoreDrafts /\ \A k : HasDraft(k)' <=> HasDraft(k)
    BY <1>2, SameDrafts
<1>4. PICK d : /\ script' = [script EXCEPT ![p] = d]
               /\ d.step = "call" /\ d.key = old.key /\ d.answer = old.answer
    BY <1>1, Turns DEF Announce
<1>5. ScriptTrue(d)'
    BY <1>2, <1>3, <1>4 DEF ScriptTrue
<1>6. \A event \in audit' \ audit : EventTrue(event)'
    BY <1>2 DEF EventTrue
<1> QED  BY <1>2, <1>3, <1>4, <1>5, <1>6, TruthStep

LEMMA CallsAreTrue ==
    ASSUME DraftInv, TruthInv, NEW p \in Scripts, GmailCreates(p) \/ GmailFails(p)
    PROVE  TruthInv'
<1>1. PICK old : old = script[p]
    OBVIOUS
<1>2. /\ UNCHANGED <<rows, audit>> /\ old.step = "call" /\ ScriptTrue(old)
      /\ mailbox' \in {mailbox, Append(mailbox, old.key)}
    BY <1>1 DEF GmailCreates, GmailFails, At, TruthInv
<1>3. /\ MoreDrafts
      /\ \A k : HasDraft(k)' => HasDraft(k) \/ k = old.key
      /\ mailbox' = Append(mailbox, old.key) => HasDraft(old.key)'
    <2>1. PICK S : mailbox \in Seq(S)
        BY DEF DraftInv, Listed
    <2>2. \A list \in Seq(S) : Range(Append(list, old.key)) = Range(list) \cup {old.key}
        BY RangeOfAppend
    <2>3. mailbox' = Append(mailbox, old.key) => Range(mailbox)' = Range(mailbox) \cup {old.key}
        BY <2>1, <2>2
    <2> QED  BY <1>2, <2>3 DEF HasDraft, MoreDrafts
<1>4. \A k : HasDraft(k)' => HasDraft(k) \/ <<"PACKAGE_BUILT", k>> \in audit
    BY <1>2, <1>3 DEF ScriptTrue
<1>5. CASE GmailCreates(p)
    <2>1. PICK d : /\ script' = [script EXCEPT ![p] = d]
                   /\ d.step = "record" /\ d.key = old.key /\ d.answer = old.answer
        BY <1>1, <1>5, Turns DEF GmailCreates
    <2>2. HasDraft(old.key)'
        BY <1>1, <1>3, <1>5 DEF GmailCreates
    <2>3. ScriptTrue(d)'
        BY <2>1, <2>2 DEF ScriptTrue
    <2> QED  BY <1>2, <1>3, <1>4, <2>1, <2>3, TruthStep
<1>6. CASE GmailFails(p)
    <2>1. script' = [script EXCEPT ![p] = Idle]
        BY <1>6 DEF GmailFails
    <2> QED  BY <1>2, <1>3, <1>4, <2>1, IdleIsTrue, TruthStep
<1> QED  BY <1>5, <1>6

LEMMA RecordsAreTrue ==
    ASSUME DraftInv, TruthInv, NEW p \in Scripts, RecordDraft(p)
    PROVE  TruthInv'
<1>1. PICK old : old = script[p]
    OBVIOUS
<1>2. UNCHANGED <<audit, mailbox>> /\ ScriptTrue(old)
    BY <1>1 DEF RecordDraft, TruthInv
<1>3. MoreDrafts /\ \A k : HasDraft(k)' <=> HasDraft(k)
    BY <1>2, SameDrafts
<1>4. CASE old.step = "record"
    <2>1. PICK row : row = [key |-> old.key, status |-> "CREATED"]
        OBVIOUS
    <2>2. rows' = Append(rows, row) /\ To(p, "confirm")
        BY <1>1, <1>4, <2>1 DEF RecordDraft, Append2
    <2>3. HasDraft(old.key)'
        BY <1>2, <1>3, <1>4 DEF ScriptTrue
    <2>4. PICK d : /\ script' = [script EXCEPT ![p] = d]
                   /\ d.step = "confirm" /\ d.key = old.key /\ d.answer = old.answer
        BY <1>1, <2>2, Turns
    <2>5. ScriptTrue(d)' /\ RowTrue(row)'
        BY <2>1, <2>3, <2>4 DEF ScriptTrue, RowTrue
    <2> QED  BY <1>2, <1>3, <2>2, <2>4, <2>5, TruthStep
<1>5. CASE old.step # "record"
    <2>1. PICK row : row = [key |-> old.key, status |-> "FAILED"]
        OBVIOUS
    <2>2. rows' = Append(rows, row) /\ Answer(p, "FAILED")
        BY <1>1, <1>5, <2>1 DEF RecordDraft, Append2
    <2>3. PICK d : /\ script' = [script EXCEPT ![p] = d]
                   /\ d.step = "idle" /\ d.key = old.key /\ d.answer = "FAILED"
        BY <1>1, <2>2, AnswersWith
    <2>4. ScriptTrue(d)' /\ RowTrue(row)'
        BY <2>1, <2>3 DEF ScriptTrue, RowTrue
    <2> QED  BY <1>2, <1>3, <2>2, <2>3, <2>4, TruthStep
<1> QED  BY <1>4, <1>5

LEMMA ConfirmIsTrue ==
    ASSUME DraftInv, TruthInv, NEW p \in Scripts, Confirm(p)
    PROVE  TruthInv'
<1>1. PICK old : old = script[p]
    OBVIOUS
<1>2. /\ UNCHANGED <<rows, mailbox>> /\ ScriptTrue(old) /\ old.step = "confirm"
      /\ audit' = audit \cup {<<"DRAFT_CREATED", old.key>>}
    BY <1>1 DEF Confirm, At, TruthInv
<1>3. MoreDrafts /\ \A k : HasDraft(k)' <=> HasDraft(k)
    BY <1>2, SameDrafts
<1>4. HasDraft(old.key)'
    BY <1>2, <1>3 DEF ScriptTrue
<1>5. PICK d : /\ script' = [script EXCEPT ![p] = d]
               /\ d.step = "idle" /\ d.key = old.key /\ d.answer = "CREATED"
    BY <1>1, AnswersWith DEF Confirm
<1>6. ScriptTrue(d)'
    BY <1>4, <1>5 DEF ScriptTrue
<1>7. \A event \in audit' \ audit : EventTrue(event)'
    BY <1>2, <1>4 DEF EventTrue
<1> QED  BY <1>2, <1>3, <1>5, <1>6, <1>7, TruthStep

LEMMA OtherScriptsAreTrue ==
    ASSUME DraftInv, TruthInv, NEW p \in Scripts,
           \/ \E k \in Packages, s \in Configs : CreateDraft(p, k, s)
           \/ Unbuildable(p) \/ ScriptCrash(p)
    PROVE  TruthInv'
<1>1. UNCHANGED <<rows, audit, mailbox>>
    BY DEF CreateDraft, Unbuildable, ScriptCrash
<1>2. MoreDrafts /\ \A k : HasDraft(k)' <=> HasDraft(k)
    BY <1>1, SameDrafts
<1>3. PICK d : script' = [script EXCEPT ![p] = d] /\ ScriptTrue(d)'
    <2>1. ASSUME NEW k, NEW s, CreateDraft(p, k, s)
          PROVE  \E d : script' = [script EXCEPT ![p] = d] /\ ScriptTrue(d)'
        <3>1. PICK d : d = [step |-> "claim", key |-> SandboxKey(k, s), answer |-> None]
            OBVIOUS
        <3>2. script' = [script EXCEPT ![p] = d]
            BY <2>1, <3>1 DEF CreateDraft
        <3>3. ScriptTrue(d)'
            BY <3>1, SandboxAssumption DEF ScriptTrue
        <3> QED  BY <3>2, <3>3
    <2>2. CASE Unbuildable(p)
        <3>1. PICK old : old = script[p]
            OBVIOUS
        <3>2. PICK d : /\ script' = [script EXCEPT ![p] = d]
                       /\ d.step = "fail" /\ d.key = old.key /\ d.answer = old.answer
            BY <2>2, <3>1, Turns DEF Unbuildable
        <3>3. ScriptTrue(old)
            BY <3>1 DEF TruthInv
        <3>4. ScriptTrue(d)'
            BY <1>2, <3>2, <3>3 DEF ScriptTrue
        <3> QED  BY <3>2, <3>4
    <2>3. CASE ScriptCrash(p)
        BY <2>3, IdleIsTrue DEF ScriptCrash
    <2> QED  BY <2>1, <2>2, <2>3
<1> QED  BY <1>1, <1>2, <1>3, TruthStep

LEMMA TruthKeeps ==
    ASSUME DraftInv, TruthInv, [Next]_<<desk, sandboxVars, firstVars>>
    PROVE  TruthInv'
<1>1. CASE SandboxNext
    BY <1>1, ClaimsAreTrue, AnnounceIsTrue, CallsAreTrue, RecordsAreTrue, ConfirmIsTrue,
       OtherScriptsAreTrue DEF SandboxNext
<1>2. CASE UNCHANGED <<rows, audit, mailbox, script>>
    BY <1>2 DEF TruthInv, ScriptTrue, RowTrue, EventTrue, HasDraft
<1> QED  BY <1>1, <1>2 DEF Next, sandboxVars

(* Who is told CREATED or ALREADY_CREATED has a draft at Gmail, and the     *)
(* audit trail announced a draft before it was made and confirms only what  *)
(* was made (emails/sandbox.py).                                            *)
THEOREM DraftAnswers == Spec => []DraftAnswersAreTrue
<1>1. Init => DraftInv /\ TruthInv
    <2> SUFFICES ASSUME Init PROVE DraftInv /\ TruthInv
        OBVIOUS
    <2>1. /\ rows = <<>> /\ mailbox = <<>> /\ audit = {}
          /\ script = [p \in Scripts |-> Idle]
        BY DEF Init, SandboxInit
    <2>2. DOMAIN rows = {} /\ DOMAIN mailbox = {}
        BY <2>1
    <2>3. ScriptTrue(Idle)
        BY SandboxAssumption DEF ScriptTrue, Idle
    <2>4. TruthInv
        BY <2>1, <2>2, <2>3 DEF TruthInv, HasDraft, Range
    <2> QED  BY <2>4, InitInv DEF Init
<1>2. DraftInv /\ [Next]_<<desk, sandboxVars, firstVars>> => DraftInv'
    <2>1. CASE SandboxNext
        BY <2>1, SandboxKeeps
    <2>2. CASE UNCHANGED <<rows, mailbox, script>>
        BY <2>2, OthersKeep
    <2> QED  BY <2>1, <2>2 DEF Next, sandboxVars
<1>3. TruthInv => DraftAnswersAreTrue
    BY DEF TruthInv, ScriptTrue, EventTrue, HasDraft, DraftAnswersAreTrue
<1> QED  BY <1>1, <1>2, <1>3, TruthKeeps, PTL DEF Spec

----------------------------------------------------------------------------
(***************************************************************************)
(* The first services.  Documents keep their figures and stay STALE;       *)
(* an authorization keeps its mode and figures, and only the last one can  *)
(* be ACTIVE; the records of a communication only grow.  So what a caller  *)
(* has read stays true of what it read, whatever the others do: the        *)
(* documents it listed, the authorization it began under, an authorization *)
(* of its figures since, and the records it knew.                          *)
(***************************************************************************)
IsList(list) == \E S : list \in Seq(S)

Modes == {"CREATE_DRAFTS", "SEND_EMAILS"}

Authorization == [mode : Modes, figures : Nat, status : {"ACTIVE", "SUPERSEDED", "STALE"}]

DocumentOK(d) ==
    /\ {"figures", "status"} \subseteq DOMAIN d
    /\ d.status \in {"GENERATED", "STALE"}

\* who did not ask again found no SENT
Looked(known, reason) == ~ reason => known = 0 \/ records[known].status # "SENT"

Approved(auth, s) == \E j \in auth .. Len(auths) : auths[j].figures = s

Asking == {"step", "message", "held", "reason", "auth", "mode", "known", "entry"}
Steps == {"validate", "status", "call", "record", "failed"}

MailOK(x) ==
    /\ DOMAIN x = Asking
    /\ x.reason \in BOOLEAN
    /\ x.auth \in 1 .. Len(auths) /\ auths[x.auth].mode = x.mode
    /\ x.step # "validate" => Approved(x.auth, x.message)
    /\ x.step \in {"call", "record", "failed"} =>
        x.known \in 0 .. Len(records) /\ Looked(x.known, x.reason)
    /\ x.step = "record" => x.entry \in 1 .. Len(outbox) /\ outbox[x.entry].mode = x.mode

ClerkOK(x) ==
    /\ "step" \in DOMAIN x
    /\ x.step = "mark" => DOMAIN x = {"step", "figures", "listed"}
    /\ x.step \in {"mark", "compared"} => x.listed \in 0 .. Len(documents)
    /\ x.step = "compared" =>
        \A i \in 1 .. x.listed : documents[i].figures # x.figures => documents[i].status = "STALE"
    /\ x.step = "stale" => x.auth \in 1 .. Len(auths)
    /\ x.step \in Steps => MailOK(x)

MessageOK(m) ==
    /\ {"mode", "figures", "auth", "reason", "known", "recorded"} = DOMAIN m
    /\ m.reason \in BOOLEAN
    /\ m.auth \in 1 .. Len(auths) /\ auths[m.auth].mode = m.mode
    /\ Approved(m.auth, m.figures)
    /\ m.known \in 0 .. Len(records) /\ Looked(m.known, m.reason)
    /\ m.recorded \in 0 .. Len(records)
    /\ m.recorded # 0 /\ m.mode = "SEND_EMAILS" => records[m.recorded].status = "SENT"

RecordOK(n) ==
    /\ records[n].reason \in BOOLEAN
    /\ records[n].known \in 0 .. n - 1 /\ Looked(records[n].known, records[n].reason)

Tables ==
    /\ IsList(documents) /\ IsList(records) /\ IsList(outbox)
    /\ figures \in Nat /\ auths \in Seq(Authorization) /\ Active(auths) \subseteq {Len(auths)}

FirstInv ==
    /\ Tables
    /\ \A i \in DOMAIN documents : \A d : d = documents[i] => DocumentOK(d)
    /\ \A n \in DOMAIN records : RecordOK(n)
    /\ \A i \in DOMAIN outbox : \A m : m = outbox[i] => MessageOK(m)
    /\ DOMAIN clerk = Clerks /\ clerk = [c \in Clerks |-> clerk[c]]
    /\ \A c \in Clerks : \A x : x = clerk[c] => ClerkOK(x)

----------------------------------------------------------------------------
(* What a step keeps of the tables, and of what was read of them *)

LEMMA ListGrows ==
    ASSUME NEW list, NEW new, IsList(list)
    PROVE  /\ IsList(Append(list, new))
           /\ DOMAIN list = 1 .. Len(list) /\ Len(list) \in Nat
           /\ Len(Append(list, new)) = Len(list) + 1
           /\ DOMAIN Append(list, new) = 1 .. Len(list) + 1
           /\ \A i \in DOMAIN list : Append(list, new)[i] = list[i]
           /\ Append(list, new)[Len(list) + 1] = new
<1>1. PICK S : list \in Seq(S)
    BY DEF IsList
<1>2. list \in Seq(S \cup {new}) /\ new \in S \cup {new}
    BY <1>1
<1>3. Append(list, new) \in Seq(S \cup {new})
    BY <1>2
<1> QED  BY <1>2, <1>3 DEF IsList

Keeps ==
    /\ Tables /\ Tables'
    /\ \A i \in 1 .. Len(documents) :
        /\ i \in 1 .. Len(documents') /\ documents'[i].figures = documents[i].figures
        /\ documents[i].status = "STALE" => documents'[i].status = "STALE"
    /\ \A i \in 1 .. Len(auths) :
        /\ i \in 1 .. Len(auths') /\ auths'[i].mode = auths[i].mode
        /\ auths'[i].figures = auths[i].figures
    /\ \A n \in 1 .. Len(records) : n \in 1 .. Len(records') /\ records'[n] = records[n]
    /\ \A i \in 1 .. Len(outbox) :
        i \in 1 .. Len(outbox') /\ outbox'[i].mode = outbox[i].mode

LEMMA Lengths ==
    ASSUME Tables
    PROVE  /\ DOMAIN documents = 1 .. Len(documents) /\ Len(documents) \in Nat
           /\ DOMAIN auths = 1 .. Len(auths) /\ Len(auths) \in Nat
           /\ DOMAIN records = 1 .. Len(records) /\ Len(records) \in Nat
           /\ DOMAIN outbox = 1 .. Len(outbox) /\ Len(outbox) \in Nat
<1>1. \A list : IsList(list) => DOMAIN list = 1 .. Len(list) /\ Len(list) \in Nat
    BY DEF IsList
<1> QED  BY <1>1 DEF Tables

LEMMA LengthsAfter ==
    ASSUME Tables'
    PROVE  /\ DOMAIN documents' = 1 .. Len(documents') /\ Len(documents') \in Nat
           /\ DOMAIN auths' = 1 .. Len(auths') /\ Len(auths') \in Nat
           /\ DOMAIN records' = 1 .. Len(records') /\ Len(records') \in Nat
           /\ DOMAIN outbox' = 1 .. Len(outbox') /\ Len(outbox') \in Nat
<1>1. \A list : IsList(list) => DOMAIN list = 1 .. Len(list) /\ Len(list) \in Nat
    BY DEF IsList
<1> QED  BY <1>1 DEF Tables

LEMMA LongerTables ==
    ASSUME Keeps
    PROVE  /\ Len(documents) <= Len(documents') /\ Len(auths) <= Len(auths')
           /\ Len(records) <= Len(records') /\ Len(outbox) <= Len(outbox')
<1>1. \A m, n \in Nat : (\A i \in 1 .. m : i \in 1 .. n) => m <= n
    <2> SUFFICES ASSUME NEW m \in Nat, NEW n \in Nat, \A i \in 1 .. m : i \in 1 .. n
                 PROVE  m <= n
        OBVIOUS
    <2>1. m # 0 => m \in 1 .. m
        OBVIOUS
    <2> QED  BY <2>1
<1> QED  BY <1>1, Lengths, LengthsAfter DEF Keeps

LEMMA ReadStays ==
    ASSUME Keeps
    PROVE  /\ \A known \in 0 .. Len(records) : \A reason :
                  /\ known \in 0 .. Len(records')
                  /\ Looked(known, reason) => Looked(known, reason)'
           /\ \A auth \in 1 .. Len(auths) : \A s :
                  /\ auth \in 1 .. Len(auths') /\ auths'[auth].mode = auths[auth].mode
                  /\ Approved(auth, s) => Approved(auth, s)'
<1>1. /\ Len(auths) \in Nat /\ Len(auths') \in Nat /\ Len(auths) <= Len(auths')
      /\ Len(records) \in Nat /\ Len(records') \in Nat /\ Len(records) <= Len(records')
    BY Lengths, LengthsAfter, LongerTables DEF Keeps
<1>2. ASSUME NEW known \in 0 .. Len(records), NEW reason
      PROVE  known \in 0 .. Len(records') /\ (Looked(known, reason) => Looked(known, reason)')
    BY <1>1 DEF Keeps, Looked
<1>3. ASSUME NEW auth \in 1 .. Len(auths), NEW s
      PROVE  /\ auth \in 1 .. Len(auths') /\ auths'[auth].mode = auths[auth].mode
             /\ Approved(auth, s) => Approved(auth, s)'
    <2>1. ASSUME NEW j \in auth .. Len(auths), auths[j].figures = s
          PROVE  j \in auth .. Len(auths') /\ auths'[j].figures = s
        BY <1>1, <2>1 DEF Keeps
    <2> QED  BY <2>1 DEF Keeps, Approved
<1> QED  BY <1>2, <1>3

LEMMA MailStays == ASSUME Keeps, NEW x, MailOK(x) PROVE MailOK(x)'
<1>1. /\ \A known \in 0 .. Len(records) : \A reason :
             /\ known \in 0 .. Len(records')
             /\ Looked(known, reason) => Looked(known, reason)'
      /\ \A auth \in 1 .. Len(auths) : \A s :
             /\ auth \in 1 .. Len(auths') /\ auths'[auth].mode = auths[auth].mode
             /\ Approved(auth, s) => Approved(auth, s)'
    BY ReadStays
<1>2. x.step = "record" => x.entry \in 1 .. Len(outbox') /\ outbox'[x.entry].mode = x.mode
    BY DEF MailOK, Keeps
<1> QED  BY <1>1, <1>2 DEF MailOK

LEMMA ClerkStays == ASSUME Keeps, NEW x, ClerkOK(x) PROVE ClerkOK(x)'
<1>1. x.step \in Steps => MailOK(x)'
    BY MailStays DEF ClerkOK
<1>2. x.step \in {"mark", "compared"} => x.listed \in 0 .. Len(documents')
    BY Lengths, LengthsAfter, LongerTables DEF Keeps, ClerkOK
<1>3. x.step = "compared" => \A i \in 1 .. x.listed :
          documents'[i].figures # x.figures => documents'[i].status = "STALE"
    <2> SUFFICES ASSUME x.step = "compared", NEW i \in 1 .. x.listed,
                        documents'[i].figures # x.figures
                 PROVE  documents'[i].status = "STALE"
        OBVIOUS
    <2>1. i \in 1 .. Len(documents)
        BY Lengths DEF Keeps, ClerkOK
    <2>2. documents[i].figures # x.figures => documents[i].status = "STALE"
        BY DEF ClerkOK
    <2> QED  BY <2>1, <2>2 DEF Keeps
<1>4. x.step = "stale" => x.auth \in 1 .. Len(auths')
    BY DEF ClerkOK, Keeps
<1> QED  BY <1>1, <1>2, <1>3, <1>4 DEF ClerkOK

LEMMA MessageStays == ASSUME Keeps, NEW m, MessageOK(m) PROVE MessageOK(m)'
<1>1. /\ \A known \in 0 .. Len(records) : \A reason :
             /\ known \in 0 .. Len(records')
             /\ Looked(known, reason) => Looked(known, reason)'
      /\ \A auth \in 1 .. Len(auths) : \A s :
             /\ auth \in 1 .. Len(auths') /\ auths'[auth].mode = auths[auth].mode
             /\ Approved(auth, s) => Approved(auth, s)'
    BY ReadStays
<1>2. m.recorded \in 0 .. Len(records') /\ (m.recorded # 0 => records'[m.recorded] = records[m.recorded])
    BY Lengths, LengthsAfter, LongerTables DEF Keeps, MessageOK
<1> QED  BY <1>1, <1>2 DEF MessageOK

LEMMA RecordStays == ASSUME Keeps, NEW n \in DOMAIN records, RecordOK(n) PROVE RecordOK(n)'
<1>1. n \in 1 .. Len(records) /\ records'[n] = records[n] /\ Len(records) \in Nat
    BY Lengths DEF Keeps
<1>2. records[n].known \in 0 .. Len(records)
    BY <1>1 DEF RecordOK
<1> QED  BY <1>1, <1>2, ReadStays DEF RecordOK

(* One caller takes a step.                                                 *)
LEMMA FirstStep ==
    ASSUME FirstInv, Keeps,
           clerk' = clerk \/ \E c \in Clerks : \E y :
               clerk' = [clerk EXCEPT ![c] = y] /\ ClerkOK(y)',
           \A i \in DOMAIN documents' : \A d : d = documents'[i] => DocumentOK(d),
           \A n \in DOMAIN records' \ DOMAIN records : RecordOK(n)',
           \A i \in DOMAIN outbox' : \A m : m = outbox'[i] =>
               MessageOK(m)' \/ (i \in DOMAIN outbox /\ m = outbox[i])
    PROVE  FirstInv'
<1>1. ASSUME NEW n \in DOMAIN records' PROVE RecordOK(n)'
    BY RecordStays DEF FirstInv
<1>2. ASSUME NEW i \in DOMAIN outbox', NEW m, m = outbox'[i] PROVE MessageOK(m)'
    <2>1. CASE i \in DOMAIN outbox /\ m = outbox[i]
        <3>1. MessageOK(m)
            BY <2>1 DEF FirstInv
        <3> QED  BY <3>1, MessageStays
    <2> QED  BY <1>2, <2>1
<1>3. DOMAIN clerk' = Clerks /\ clerk' = [c \in Clerks |-> clerk'[c]]
    BY DEF FirstInv
<1>4. ASSUME NEW q \in Clerks, NEW x, x = clerk'[q] PROVE ClerkOK(x)'
    <2>1. CASE x = clerk[q]
        <3>1. ClerkOK(x)
            BY <2>1 DEF FirstInv
        <3> QED  BY <3>1, ClerkStays
    <2>2. CASE x # clerk[q]
        <3>1. PICK c \in Clerks : \E y : clerk' = [clerk EXCEPT ![c] = y] /\ ClerkOK(y)'
            BY <1>4, <2>2
        <3>2. PICK y : clerk' = [clerk EXCEPT ![c] = y] /\ ClerkOK(y)'
            BY <3>1
        <3>3. x = y
            BY <1>4, <2>2, <3>2 DEF FirstInv
        <3> QED  BY <3>2, <3>3
    <2> QED  BY <2>1, <2>2
<1>5. Tables'
    BY DEF Keeps
<1>6. \A i \in DOMAIN documents' : \A d : d = documents'[i] => DocumentOK(d)'
    BY DEF DocumentOK
<1> QED  BY <1>1, <1>2, <1>3, <1>4, <1>5, <1>6 DEF FirstInv

----------------------------------------------------------------------------
(* The caller of a step, before it and after *)

LEMMA FreeOK == ClerkOK(Free)'
BY DEF ClerkOK, Free, Steps

\* a step at which nothing was read that has to stay true
LEMMA PlainClerk ==
    ASSUME NEW y, "step" \in DOMAIN y, y.step \notin {"mark", "compared", "stale"} \cup Steps
    PROVE  ClerkOK(y)'
BY DEF ClerkOK

(* A caller that changes nothing but where it is.                           *)
LEMMA WalkStep ==
    ASSUME FirstInv, UNCHANGED <<figures, documents, auths, records, outbox>>,
           NEW c \in Clerks, NEW y, clerk' = [clerk EXCEPT ![c] = y], ClerkOK(y)'
    PROVE  FirstInv'
<1>1. Keeps
    BY DEF FirstInv, Tables, Keeps
<1>2. /\ \A i \in DOMAIN documents' : \A d : d = documents'[i] => DocumentOK(d)
      /\ DOMAIN records' \ DOMAIN records = {}
      /\ \A i \in DOMAIN outbox' : i \in DOMAIN outbox /\ outbox'[i] = outbox[i]
    BY DEF FirstInv
<1> QED  BY <1>1, <1>2, FirstStep

----------------------------------------------------------------------------
(* Documents *)

LEMMA DocumentWalks ==
    ASSUME FirstInv, NEW c \in Clerks,
           \/ \E s \in Settlement : Generate(c, s) \/ CompareDocuments(c, s)
           \/ NextNumber(c) \/ Done(c) \/ ClerkStops(c)
    PROVE  FirstInv'
<1>1. UNCHANGED <<figures, documents, auths, records, outbox>>
    BY DEF Generate, CompareDocuments, NextNumber, Done, ClerkStops
<1>2. PICK x : x = clerk[c]
    OBVIOUS
<1>3. ClerkOK(x)
    BY <1>2 DEF FirstInv
<1>4. PICK y : clerk' = [clerk EXCEPT ![c] = y] /\ ClerkOK(y)'
    <2>1. ASSUME NEW s, Generate(c, s)
          PROVE  \E y : clerk' = [clerk EXCEPT ![c] = y] /\ ClerkOK(y)'
        <3>1. PICK y : y = [step |-> "number", figures |-> s, previous |-> Len(documents),
                            type |-> 1, number |-> 0]
            OBVIOUS
        <3>2. "step" \in DOMAIN y /\ y.step = "number"
            BY <3>1
        <3>3. ClerkOK(y)'
            BY <3>2, PlainClerk DEF Steps
        <3> QED  BY <2>1, <3>1, <3>3 DEF Generate, Then
    <2>2. ASSUME NEW s, CompareDocuments(c, s)
          PROVE  \E y : clerk' = [clerk EXCEPT ![c] = y] /\ ClerkOK(y)'
        <3>1. PICK y : y = [step |-> IF Changed(documents, s) THEN "mark" ELSE "compared",
                            figures |-> s, listed |-> Len(documents)]
            OBVIOUS
        <3>2. /\ DOMAIN y = {"step", "figures", "listed"} /\ y.figures = s
              /\ y.listed = Len(documents) /\ y.step \in {"mark", "compared"}
              /\ y.step = "compared" => ~ Changed(documents, s)
            BY <3>1
        <3>3. y.step = "compared" => \A i \in 1 .. Len(documents) :
                  documents[i].figures # s => documents[i].status = "STALE"
            BY <3>2, Lengths DEF Changed, FirstInv, DocumentOK
        <3>4. Len(documents) \in Nat
            BY Lengths DEF FirstInv
        <3>5. ClerkOK(y)'
            BY <1>1, <3>2, <3>3, <3>4 DEF ClerkOK, Steps
        <3> QED  BY <2>2, <3>1, <3>5 DEF CompareDocuments, Then
    <2>3. CASE NextNumber(c)
        <3>1. PICK n : clerk' = [clerk EXCEPT ![c] = [x EXCEPT !.step = "save", !.number = n]]
            BY <1>2, <2>3 DEF NextNumber, Then
        <3>2. PICK y : y = [x EXCEPT !.step = "save", !.number = n]
            OBVIOUS
        <3>3. "step" \in DOMAIN y /\ y.step = "save"
            BY <1>3, <3>2 DEF ClerkOK
        <3>4. ClerkOK(y)'
            BY <3>3, PlainClerk DEF Steps
        <3> QED  BY <3>1, <3>2, <3>4
    <2>4. CASE Done(c) \/ ClerkStops(c)
        BY <2>4, FreeOK DEF Done, ClerkStops, Then
    <2> QED  BY <2>1, <2>2, <2>3, <2>4
<1> QED  BY <1>1, <1>4, WalkStep

LEMMA SaveDocumentKeeps ==
    ASSUME FirstInv, NEW c \in Clerks, SaveDocument(c)
    PROVE  FirstInv'
<1>1. PICK x : x = clerk[c]
    OBVIOUS
<1>2. ClerkOK(x) /\ UNCHANGED <<figures, auths, records, outbox>>
    BY <1>1 DEF FirstInv, SaveDocument
<1>3. PICK new : /\ documents' = Append(documents, new)
                 /\ {"figures", "status"} \subseteq DOMAIN new /\ new.status = "GENERATED"
    <2>1. PICK new : new = [type |-> Types[x.type], number |-> x.number, figures |-> x.figures,
                            status |-> "GENERATED", supersedes |-> Prior(x.previous, Types[x.type])]
        OBVIOUS
    <2>2. documents' = Append(documents, new)
        BY <1>1, <2>1 DEF SaveDocument
    <2>3. {"figures", "status"} \subseteq DOMAIN new /\ new.status = "GENERATED"
        BY <2>1
    <2> QED  BY <2>2, <2>3
<1>4. /\ IsList(documents') /\ DOMAIN documents = 1 .. Len(documents) /\ Len(documents) \in Nat
      /\ Len(documents') = Len(documents) + 1 /\ DOMAIN documents' = 1 .. Len(documents) + 1
      /\ \A i \in DOMAIN documents : documents'[i] = documents[i]
      /\ documents'[Len(documents) + 1] = new
    BY <1>3, ListGrows DEF FirstInv, Tables
<1>5. Keeps
    BY <1>2, <1>4 DEF FirstInv, Tables, Keeps
<1>6. \A i \in DOMAIN documents' : \A d : d = documents'[i] => DocumentOK(d)
    <2>1. DocumentOK(new)
        BY <1>3 DEF DocumentOK
    <2> QED  BY <1>4, <2>1 DEF FirstInv
<1>7. PICK y : clerk' = [clerk EXCEPT ![c] = y] /\ ClerkOK(y)'
    <2>1. CASE x.type = Len(Types)
        BY <1>1, <2>1, FreeOK DEF SaveDocument, Then
    <2>2. CASE x.type # Len(Types)
        <3>1. PICK y : y = [x EXCEPT !.step = "number", !.type = @ + 1]
            OBVIOUS
        <3>2. "step" \in DOMAIN y /\ y.step = "number"
            BY <1>2, <3>1 DEF ClerkOK
        <3>3. ClerkOK(y)'
            BY <3>2, PlainClerk DEF Steps
        <3> QED  BY <1>1, <2>2, <3>1, <3>3 DEF SaveDocument, Then
    <2> QED  BY <2>1, <2>2
<1> QED  BY <1>2, <1>5, <1>6, <1>7, FirstStep

LEMMA MarkStaleKeeps ==
    ASSUME FirstInv, NEW c \in Clerks, MarkStale(c)
    PROVE  FirstInv'
<1>1. PICK x : x = clerk[c]
    OBVIOUS
<1>2. ClerkOK(x) /\ x.step = "mark" /\ UNCHANGED <<figures, auths, records, outbox>>
    BY <1>1 DEF FirstInv, MarkStale, Does
<1>3. DOMAIN documents = 1 .. Len(documents) /\ Len(documents) \in Nat
    BY Lengths DEF FirstInv
<1>4. /\ DOMAIN documents' = DOMAIN documents
      /\ \A i \in DOMAIN documents : /\ DOMAIN documents'[i] = DOMAIN documents[i]
                                     /\ documents'[i].figures = documents[i].figures
                                     /\ documents'[i].status = "STALE"
    <2>1. documents' = [i \in DOMAIN documents |-> [documents[i] EXCEPT !.status = "STALE"]]
        BY DEF MarkStale
    <2>2. ASSUME NEW i \in DOMAIN documents
          PROVE  /\ DOMAIN documents'[i] = DOMAIN documents[i]
                 /\ documents'[i].figures = documents[i].figures
                 /\ documents'[i].status = "STALE"
        <3>1. PICK old : old = documents[i]
            OBVIOUS
        <3>2. {"figures", "status"} \subseteq DOMAIN old
            BY <3>1 DEF FirstInv, DocumentOK
        <3>3. PICK new : new = [old EXCEPT !.status = "STALE"]
            OBVIOUS
        <3>4. DOMAIN new = DOMAIN old /\ new.figures = old.figures /\ new.status = "STALE"
            BY <3>2, <3>3
        <3>5. documents'[i] = new
            BY <2>1, <3>1, <3>3
        <3> QED  BY <3>1, <3>4, <3>5
    <2> QED  BY <2>1, <2>2
<1>5. IsList(documents') /\ Len(documents') = Len(documents)
    <2>1. PICK list : list = documents'
        OBVIOUS
    <2>2. list = [i \in 1 .. Len(documents) |-> list[i]]
        BY <1>3, <1>4, <2>1 DEF MarkStale
    <2>3. \A i \in 1 .. Len(documents) : list[i] \in {list[j] : j \in 1 .. Len(documents)}
        OBVIOUS
    <2>4. list \in Seq({list[j] : j \in 1 .. Len(documents)}) /\ Len(list) = Len(documents)
        BY <1>3, <2>2, <2>3
    <2> QED  BY <2>1, <2>4 DEF IsList
<1>6. Keeps
    BY <1>2, <1>3, <1>4, <1>5 DEF FirstInv, Tables, Keeps
<1>7. \A i \in DOMAIN documents' : \A d : d = documents'[i] => DocumentOK(d)
    BY <1>4 DEF FirstInv, DocumentOK
<1>8. PICK y : y = [x EXCEPT !.step = "compared"]
    OBVIOUS
<1>9. clerk' = [clerk EXCEPT ![c] = y]
    BY <1>1, <1>8 DEF MarkStale, Goes, Then
<1>10. ClerkOK(y)'
    <2>1. /\ DOMAIN y = {"step", "figures", "listed"} /\ y.step = "compared"
          /\ y.listed = x.listed /\ y.listed \in 0 .. Len(documents)
        BY <1>2, <1>8 DEF ClerkOK
    <2>2. \A i \in 1 .. y.listed : documents'[i].status = "STALE"
        BY <1>3, <1>4, <2>1
    <2> QED  BY <1>5, <2>1, <2>2 DEF ClerkOK, Steps
<1> QED  BY <1>2, <1>6, <1>7, <1>9, <1>10, FirstStep

----------------------------------------------------------------------------
(* Authorizations *)

LEMMA ActiveIsLast ==
    ASSUME Tables, ActiveOf(auths) # 0
    PROVE  ActiveOf(auths) = Len(auths) /\ Len(auths) \in 1 .. Len(auths)
<1>1. Active(auths) # {}
    BY DEF ActiveOf
<1>2. Active(auths) = {Len(auths)} /\ Len(auths) \in DOMAIN auths
    BY <1>1 DEF Tables, Active
<1>3. (CHOOSE i \in Active(auths) : \A j \in Active(auths) : j <= i) = Len(auths)
    BY <1>2, Lengths
<1> QED  BY <1>1, <1>2, <1>3, Lengths DEF ActiveOf

(* A step that leaves the callers' tables alone.                            *)
LEMMA AuthorizationStep ==
    ASSUME FirstInv, UNCHANGED <<documents, records, outbox>>, figures' \in Nat,
           auths' \in Seq(Authorization), Active(auths)' \subseteq {Len(auths')},
           \A i \in DOMAIN auths : /\ i \in DOMAIN auths' /\ auths'[i].mode = auths[i].mode
                                   /\ auths'[i].figures = auths[i].figures,
           clerk' = clerk \/ \E c \in Clerks : \E y :
               clerk' = [clerk EXCEPT ![c] = y] /\ ClerkOK(y)'
    PROVE  FirstInv'
<1>1. Tables'
    BY DEF FirstInv, Tables
<1>2. Keeps
    BY <1>1, Lengths, LengthsAfter DEF FirstInv, Keeps
<1>3. /\ \A i \in DOMAIN documents' : \A d : d = documents'[i] => DocumentOK(d)
      /\ DOMAIN records' \ DOMAIN records = {}
      /\ \A i \in DOMAIN outbox' : i \in DOMAIN outbox /\ outbox'[i] = outbox[i]
    BY DEF FirstInv
<1> QED  BY <1>2, <1>3, FirstStep

LEMMA RecalculateKeeps == ASSUME FirstInv, Recalculate PROVE FirstInv'
BY AuthorizationStep DEF Recalculate, FirstInv, Tables, Active

LEMMA AuthorizeKeeps ==
    ASSUME FirstInv, NEW mode \in Modes, Authorize(mode)
    PROVE  FirstInv'
<1>1. UNCHANGED <<figures, documents, records, outbox, clerk>> /\ figures \in Nat
    BY DEF Authorize, FirstInv, Tables
<1>2. PICK old : old = [i \in DOMAIN auths |-> IF i \in Active(auths)
                           THEN [auths[i] EXCEPT !.status = "SUPERSEDED"] ELSE auths[i]]
    OBVIOUS
<1>3. PICK new : new = [mode |-> mode, figures |-> figures, status |-> "ACTIVE"]
    OBVIOUS
<1>4. auths' = Append(old, new) /\ new \in Authorization
    BY <1>1, <1>2, <1>3 DEF Authorize, Authorization
<1>5. auths \in Seq(Authorization) /\ DOMAIN auths = 1 .. Len(auths) /\ Len(auths) \in Nat
    BY Lengths DEF FirstInv, Tables
<1>6. ASSUME NEW i \in DOMAIN auths
      PROVE  /\ old[i] \in Authorization /\ old[i].status # "ACTIVE"
             /\ old[i].mode = auths[i].mode /\ old[i].figures = auths[i].figures
    <2>1. auths[i] \in Authorization
        BY <1>5
    <2>2. CASE i \in Active(auths)
        <3>1. PICK replaced : replaced = [auths[i] EXCEPT !.status = "SUPERSEDED"]
            OBVIOUS
        <3>2. /\ replaced \in Authorization /\ replaced.status = "SUPERSEDED"
              /\ replaced.mode = auths[i].mode /\ replaced.figures = auths[i].figures
            BY <2>1, <3>1 DEF Authorization
        <3>3. old[i] = replaced
            BY <1>2, <2>2, <3>1
        <3> QED  BY <3>2, <3>3
    <2>3. CASE i \notin Active(auths)
        BY <1>2, <2>1, <2>3 DEF Active
    <2> QED  BY <2>2, <2>3
<1>7. DOMAIN old = DOMAIN auths /\ old = [i \in 1 .. Len(auths) |-> old[i]]
    BY <1>2, <1>5
<1>8. old \in Seq(Authorization) /\ Len(old) = Len(auths)
    BY <1>5, <1>6, <1>7
<1>9. /\ auths' \in Seq(Authorization) /\ Len(auths') = Len(auths) + 1
      /\ \A i \in DOMAIN auths : i \in DOMAIN auths' /\ auths'[i] = old[i]
    BY <1>4, <1>5, <1>8
<1>10. Active(auths)' \subseteq {Len(auths')}
    BY <1>5, <1>6, <1>9 DEF Active
<1> QED  BY <1>1, <1>6, <1>9, <1>10, AuthorizationStep

LEMMA InvalidateKeeps ==
    ASSUME FirstInv, NEW c \in Clerks, Invalidate(c)
    PROVE  FirstInv'
<1>1. PICK n : n = clerk[c].auth
    OBVIOUS
<1>2. n \in DOMAIN auths
    BY <1>1, Lengths DEF Invalidate, Does, FirstInv, ClerkOK
<1>3. auths \in Seq(Authorization) /\ auths[n] \in Authorization
    BY <1>2 DEF FirstInv, Tables
<1>4. PICK new : new = [auths[n] EXCEPT !.status = "STALE"]
    OBVIOUS
<1>5. /\ new \in Authorization /\ new.status = "STALE"
      /\ new.mode = auths[n].mode /\ new.figures = auths[n].figures
    BY <1>3, <1>4 DEF Authorization
<1>6. auths' = [auths EXCEPT ![n] = new]
    BY <1>1, <1>2, <1>4 DEF Invalidate
<1>7. /\ auths' \in Seq(Authorization) /\ Len(auths') = Len(auths) /\ DOMAIN auths' = DOMAIN auths
      /\ \A i \in DOMAIN auths : auths'[i] = IF i = n THEN new ELSE auths[i]
    BY <1>2, <1>3, <1>5, <1>6
<1>8. Active(auths)' \subseteq {Len(auths')}
    BY <1>5, <1>7 DEF Active, FirstInv, Tables
<1>9. \A i \in DOMAIN auths : /\ i \in DOMAIN auths' /\ auths'[i].mode = auths[i].mode
                              /\ auths'[i].figures = auths[i].figures
    BY <1>5, <1>7
<1>10. UNCHANGED <<figures, documents, records, outbox>> /\ figures \in Nat
    BY DEF Invalidate, FirstInv, Tables
<1>11. clerk' = [clerk EXCEPT ![c] = Free] /\ ClerkOK(Free)'
    BY FreeOK DEF Invalidate, Then
<1> QED  BY <1>7, <1>8, <1>9, <1>10, <1>11, AuthorizationStep

----------------------------------------------------------------------------
(* A communication *)

\* an exception, of the provider or of the record
LEMMA FailedOK ==
    ASSUME NEW x, x.step \in {"call", "record"}, MailOK(x), NEW y, y = [x EXCEPT !.step = "failed"]
    PROVE  ClerkOK(y)
<1>1. DOMAIN x = Asking
    BY DEF MailOK
<1>2. /\ DOMAIN y = Asking /\ y.step = "failed" /\ y.message = x.message /\ y.reason = x.reason
      /\ y.auth = x.auth /\ y.mode = x.mode /\ y.known = x.known
    BY <1>1 DEF Asking
<1>3. MailOK(y)
    BY <1>2 DEF MailOK
<1> QED  BY <1>2, <1>3 DEF ClerkOK, Asking

LEMMA WalkedStays ==
    ASSUME FirstInv, UNCHANGED <<figures, documents, auths, records, outbox>>, NEW y, ClerkOK(y)
    PROVE  ClerkOK(y)'
<1>1. Keeps
    BY DEF FirstInv, Tables, Keeps
<1> QED  BY <1>1, ClerkStays

LEMMA MailWalks ==
    ASSUME FirstInv, NEW c \in Clerks,
           \/ \E m \in Settlement, reason \in BOOLEAN : Execute(c, m, reason)
           \/ Validate(c) \/ ReadActive(c) \/ ReadStatus(c) \/ RecordFails(c)
    PROVE  FirstInv'
<1>1. UNCHANGED <<figures, documents, auths, records, outbox>>
    BY DEF Execute, Validate, ReadActive, ReadStatus, RecordFails
<1>2. PICK x : x = clerk[c]
    OBVIOUS
<1>3. ClerkOK(x)
    BY <1>2 DEF FirstInv
<1>4. Tables /\ Len(records) \in Nat /\ Len(auths) \in Nat
    BY Lengths DEF FirstInv
<1>5. PICK y : clerk' = [clerk EXCEPT ![c] = y] /\ ClerkOK(y)'
    <2>1. ASSUME NEW m, NEW reason \in BOOLEAN, Execute(c, m, reason)
          PROVE  \E y : clerk' = [clerk EXCEPT ![c] = y] /\ ClerkOK(y)'
        <3>1. PICK n : n = ActiveOf(auths)
            OBVIOUS
        <3>2. PICK y : y = [step |-> "validate", message |-> m, held |-> figures,
                            reason |-> reason, auth |-> n, mode |-> auths[n].mode,
                            known |-> 0, entry |-> 0]
            OBVIOUS
        <3>3. n \in 1 .. Len(auths)
            BY <1>4, <2>1, <3>1, ActiveIsLast DEF Execute
        <3>4. /\ DOMAIN y = Asking /\ y.step = "validate" /\ y.reason \in BOOLEAN
              /\ y.auth = n /\ y.mode = auths[n].mode
            BY <3>2 DEF Asking
        <3>5. MailOK(y)'
            BY <1>1, <3>3, <3>4 DEF MailOK
        <3>6. ClerkOK(y)'
            BY <3>4, <3>5 DEF ClerkOK, Asking
        <3> QED  BY <2>1, <3>1, <3>2, <3>6 DEF Execute, Then
    <2>2. CASE Validate(c)
        <3>1. x.step = "validate" /\ MailOK(x)
            BY <1>2, <1>3, <2>2 DEF Validate, Does, ClerkOK, Steps
        <3>2. PICK step : /\ step \in {"status", "invalidate"}
                          /\ step = "status" => Approves(x.held) /\ x.message = x.held
                          /\ clerk' = [clerk EXCEPT ![c] = [x EXCEPT !.step = step]]
            BY <1>2, <2>2 DEF Validate, Goes, Then
        <3>3. PICK y : y = [x EXCEPT !.step = step]
            OBVIOUS
        <3>4. /\ DOMAIN y = Asking /\ y.step = step /\ y.message = x.message /\ y.reason = x.reason
              /\ y.auth = x.auth /\ y.mode = x.mode
            <4>1. DOMAIN x = Asking
                BY <3>1 DEF MailOK
            <4> QED  BY <3>3, <4>1 DEF Asking
        <3>5. step = "status" => Approved(x.auth, x.message)
            BY <1>4, <3>1, <3>2, ActiveIsLast DEF Approves, Approved, MailOK
        <3>6. step = "status" => MailOK(y)'
            BY <1>1, <3>1, <3>4, <3>5 DEF MailOK, Approved
        <3>7. ClerkOK(y)'
            BY <3>2, <3>4, <3>6 DEF ClerkOK, Asking, Steps
        <3> QED  BY <3>2, <3>3, <3>7
    <2>3. CASE ReadActive(c)
        <3>1. CASE ActiveOf(auths) = 0
            BY <2>3, <3>1, FreeOK DEF ReadActive, Then
        <3>2. CASE ActiveOf(auths) # 0
            <4>1. PICK y : y = [step |-> "stale", auth |-> ActiveOf(auths)]
                OBVIOUS
            <4>2. "step" \in DOMAIN y /\ y.step = "stale" /\ y.auth \in 1 .. Len(auths)
                BY <1>4, <3>2, <4>1, ActiveIsLast
            <4>3. ClerkOK(y)'
                BY <1>1, <4>2 DEF ClerkOK, Steps
            <4> QED  BY <2>3, <3>2, <4>1, <4>3 DEF ReadActive, Then
        <3> QED  BY <3>1, <3>2
    <2>4. CASE ReadStatus(c)
        <3>1. x.step = "status" /\ MailOK(x)
            BY <1>2, <1>3, <2>4 DEF ReadStatus, Does, ClerkOK, Steps
        <3>2. CASE (Status = "SENT" /\ ~ x.reason) \/ ~ Enabled(x.mode)
            BY <1>2, <2>4, <3>2, FreeOK DEF ReadStatus, Then
        <3>3. CASE ~ ((Status = "SENT" /\ ~ x.reason) \/ ~ Enabled(x.mode))
            <4>1. PICK y : y = [x EXCEPT !.step = "call", !.known = Len(records)]
                OBVIOUS
            <4>2. clerk' = [clerk EXCEPT ![c] = y]
                BY <1>2, <2>4, <3>3, <4>1 DEF ReadStatus, Then
            <4>3. /\ DOMAIN y = Asking /\ y.step = "call" /\ y.message = x.message
                  /\ y.reason = x.reason /\ y.auth = x.auth /\ y.mode = x.mode
                  /\ y.known = Len(records)
                <5>1. DOMAIN x = Asking
                    BY <3>1 DEF MailOK
                <5> QED  BY <4>1, <5>1 DEF Asking
            <4>4. Looked(Len(records), x.reason)
                <5>1. ~ x.reason => Status # "SENT"
                    BY <3>3
                <5>2. Len(records) # 0 => Status = records[Len(records)].status
                    BY <1>4 DEF Status, Last
                <5> QED  BY <5>1, <5>2 DEF Looked
            <4>5. MailOK(y)'
                BY <1>1, <1>4, <3>1, <4>3, <4>4 DEF MailOK, Looked, Approved
            <4>6. ClerkOK(y)'
                BY <4>3, <4>5 DEF ClerkOK, Asking
            <4> QED  BY <4>2, <4>6
        <3> QED  BY <3>2, <3>3
    <2>5. CASE RecordFails(c)
        <3>1. x.step = "record" /\ MailOK(x)
            BY <1>2, <1>3, <2>5 DEF RecordFails, Does, ClerkOK, Steps
        <3>2. PICK y : y = [x EXCEPT !.step = "failed"]
            OBVIOUS
        <3>3. clerk' = [clerk EXCEPT ![c] = y]
            BY <1>2, <2>5, <3>2 DEF RecordFails, Goes, Then
        <3>4. ClerkOK(y)
            BY <3>1, <3>2, FailedOK
        <3>5. ClerkOK(y)'
            BY <1>1, <3>4, WalkedStays
        <3> QED  BY <3>3, <3>5
    <2> QED  BY <2>1, <2>2, <2>3, <2>4, <2>5
<1> QED  BY <1>1, <1>5, WalkStep

\* the caller of the provider, and what it sends
LEMMA CallerOf ==
    ASSUME FirstInv, NEW c \in Clerks, NEW x, x = clerk[c], x.step \in {"call", "record", "failed"}
    PROVE  /\ MailOK(x) /\ DOMAIN x = Asking /\ x.known \in 0 .. Len(records)
           /\ x.reason \in BOOLEAN /\ Looked(x.known, x.reason)
<1>1. ClerkOK(x)
    BY DEF FirstInv
<1> QED  BY <1>1 DEF ClerkOK, MailOK, Steps

LEMMA SentKeeps ==
    ASSUME FirstInv, NEW c \in Clerks, clerk[c].step = "call",
           UNCHANGED <<figures, documents, auths, records>>,
           outbox' = Append(outbox, Delivery(c))
    PROVE  /\ Keeps
           /\ outbox'[Len(outbox) + 1].mode = clerk[c].mode
           /\ Len(outbox) + 1 \in 1 .. Len(outbox') 
           /\ \A i \in DOMAIN outbox' : \A m : m = outbox'[i] =>
                  MessageOK(m)' \/ (i \in DOMAIN outbox /\ m = outbox[i])
<1>1. PICK x : x = clerk[c]
    OBVIOUS
<1>2. PICK new : new = [mode |-> x.mode, figures |-> x.message, auth |-> x.auth,
                        reason |-> x.reason, known |-> x.known, recorded |-> 0]
    OBVIOUS
<1>3. outbox' = Append(outbox, new)
    BY <1>1, <1>2 DEF Delivery
<1>4. /\ IsList(outbox') /\ DOMAIN outbox = 1 .. Len(outbox) /\ Len(outbox) \in Nat
      /\ Len(outbox') = Len(outbox) + 1 /\ DOMAIN outbox' = 1 .. Len(outbox) + 1
      /\ \A i \in DOMAIN outbox : outbox'[i] = outbox[i]
      /\ outbox'[Len(outbox) + 1] = new
    BY <1>3, ListGrows DEF FirstInv, Tables
<1>5. Keeps
    BY <1>4 DEF FirstInv, Tables, Keeps, Active
<1>6. MailOK(x) /\ x.step = "call"
    BY <1>1, CallerOf
<1>7. MessageOK(new)
    <2>1. /\ DOMAIN new = {"mode", "figures", "auth", "reason", "known", "recorded"}
          /\ new.mode = x.mode /\ new.figures = x.message /\ new.auth = x.auth
          /\ new.reason = x.reason /\ new.known = x.known /\ new.recorded = 0
        BY <1>2
    <2>2. Len(records) \in Nat
        BY Lengths DEF FirstInv
    <2> QED  BY <1>6, <2>1, <2>2 DEF MailOK, MessageOK
<1>8. MessageOK(new)'
    BY <1>5, <1>7, MessageStays
<1>9. new.mode = x.mode
    BY <1>2
<1> QED  BY <1>1, <1>4, <1>5, <1>8, <1>9

LEMMA DeliverKeeps ==
    ASSUME FirstInv, NEW c \in Clerks, Deliver(c)
    PROVE  FirstInv'
<1>1. PICK x : x = clerk[c]
    OBVIOUS
<1>2. /\ UNCHANGED <<figures, documents, auths, records>> /\ x.step = "call"
      /\ outbox' = Append(outbox, Delivery(c))
    BY <1>1 DEF Deliver, Does
<1>3. PICK n : n = Len(outbox) + 1
    OBVIOUS
<1>4. /\ Keeps /\ outbox'[n].mode = x.mode /\ n \in 1 .. Len(outbox')
      /\ \A i \in DOMAIN outbox' : \A m : m = outbox'[i] =>
             MessageOK(m)' \/ (i \in DOMAIN outbox /\ m = outbox[i])
    BY <1>1, <1>2, <1>3, SentKeeps
<1>5. MailOK(x) /\ DOMAIN x = Asking
    BY <1>1, <1>2, CallerOf
<1>6. MailOK(x)'
    BY <1>4, <1>5, MailStays
<1>7. PICK y : y = [x EXCEPT !.step = "record", !.entry = n]
    OBVIOUS
<1>8. clerk' = [clerk EXCEPT ![c] = y]
    BY <1>1, <1>3, <1>7 DEF Deliver, Then
<1>9. /\ DOMAIN y = Asking /\ y.step = "record" /\ y.message = x.message /\ y.reason = x.reason
      /\ y.auth = x.auth /\ y.mode = x.mode /\ y.known = x.known /\ y.entry = n
    BY <1>5, <1>7 DEF Asking
<1>10. MailOK(y)'
    BY <1>2, <1>4, <1>6, <1>9 DEF MailOK
<1>11. ClerkOK(y)'
    BY <1>9, <1>10 DEF ClerkOK, Asking
<1>12. /\ \A i \in DOMAIN documents' : \A d : d = documents'[i] => DocumentOK(d)
       /\ DOMAIN records' \ DOMAIN records = {}
    BY <1>2 DEF FirstInv
<1> QED  BY <1>4, <1>8, <1>11, <1>12, FirstStep

LEMMA DeliveryFailsKeeps ==
    ASSUME FirstInv, NEW c \in Clerks, DeliveryFails(c)
    PROVE  FirstInv'
<1>1. PICK x : x = clerk[c]
    OBVIOUS
<1>2. /\ UNCHANGED <<figures, documents, auths, records>> /\ x.step = "call"
      /\ outbox' \in {outbox, Append(outbox, Delivery(c))}
    BY <1>1 DEF DeliveryFails, Does
<1>3. MailOK(x)
    BY <1>1, <1>2, CallerOf
<1>4. PICK y : y = [x EXCEPT !.step = "failed"]
    OBVIOUS
<1>5. clerk' = [clerk EXCEPT ![c] = y]
    BY <1>1, <1>4 DEF DeliveryFails, Goes, Then
<1>6. ClerkOK(y)
    BY <1>2, <1>3, <1>4, FailedOK
<1>7. CASE outbox' = outbox
    <2>1. ClerkOK(y)'
        BY <1>2, <1>6, <1>7, WalkedStays
    <2> QED  BY <1>2, <1>5, <1>7, <2>1, WalkStep
<1>8. CASE outbox' = Append(outbox, Delivery(c))
    <2>1. /\ Keeps
          /\ \A i \in DOMAIN outbox' : \A m : m = outbox'[i] =>
                 MessageOK(m)' \/ (i \in DOMAIN outbox /\ m = outbox[i])
        BY <1>1, <1>2, <1>8, SentKeeps
    <2>2. ClerkOK(y)'
        BY <1>6, <2>1, ClerkStays
    <2>3. /\ \A i \in DOMAIN documents' : \A d : d = documents'[i] => DocumentOK(d)
          /\ DOMAIN records' \ DOMAIN records = {}
        BY <1>2 DEF FirstInv
    <2> QED  BY <1>5, <2>1, <2>2, <2>3, FirstStep
<1> QED  BY <1>2, <1>7, <1>8

\* a row of communications is written; what was delivered may be noted in it
LEMMA UpsertKeeps ==
    ASSUME FirstInv, NEW c \in Clerks, NEW x, x = clerk[c], x.step \in {"record", "failed"},
           NEW status, Upsert(c, status), UNCHANGED <<figures, documents, auths>>,
           IsList(outbox'), Len(outbox') = Len(outbox),
           \A i \in 1 .. Len(outbox) : outbox'[i].mode = outbox[i].mode
    PROVE  /\ Keeps /\ Len(records') = Len(records) + 1
           /\ records'[Len(records) + 1].status = status
           /\ \A n \in DOMAIN records' \ DOMAIN records : RecordOK(n)'
<1>1. PICK new : new = [status |-> status, reason |-> x.reason, known |-> x.known]
    OBVIOUS
<1>2. new.status = status /\ new.reason = x.reason /\ new.known = x.known
    BY <1>1
<1>3. records' = Append(records, new)
    BY <1>1 DEF Upsert
<1>4. /\ IsList(records') /\ DOMAIN records = 1 .. Len(records) /\ Len(records) \in Nat
      /\ Len(records') = Len(records) + 1 /\ DOMAIN records' = 1 .. Len(records) + 1
      /\ \A i \in DOMAIN records : records'[i] = records[i]
      /\ records'[Len(records) + 1] = new
    BY <1>3, ListGrows DEF FirstInv, Tables
<1>5. Keeps
    BY <1>4 DEF FirstInv, Tables, Keeps, Active
<1>6. x.known \in 0 .. Len(records) /\ x.reason \in BOOLEAN /\ Looked(x.known, x.reason)
    BY CallerOf
<1>7. Looked(x.known, x.reason)'
    BY <1>5, <1>6, ReadStays
<1>8. PICK n : n = Len(records) + 1
    OBVIOUS
<1>9. records'[n] = new /\ x.known \in 0 .. n - 1
    BY <1>4, <1>6, <1>8
<1>10. RecordOK(n)'
    BY <1>2, <1>6, <1>7, <1>9 DEF RecordOK
<1>11. DOMAIN records' \ DOMAIN records = {n}
    BY <1>4, <1>8
<1> QED  BY <1>2, <1>4, <1>5, <1>10, <1>11

LEMMA RecordFailureKeeps ==
    ASSUME FirstInv, NEW c \in Clerks, RecordFailure(c)
    PROVE  FirstInv'
<1>1. PICK x : x = clerk[c]
    OBVIOUS
<1>2. /\ x.step = "failed" /\ Upsert(c, "FAILED")
      /\ UNCHANGED <<figures, documents, auths, outbox>>
    BY <1>1 DEF RecordFailure, Does
<1>3. IsList(outbox')
    BY <1>2 DEF FirstInv, Tables
<1>4. Keeps /\ \A n \in DOMAIN records' \ DOMAIN records : RecordOK(n)'
    BY <1>1, <1>2, <1>3, UpsertKeeps
<1>5. clerk' = [clerk EXCEPT ![c] = Free] /\ ClerkOK(Free)'
    BY FreeOK DEF RecordFailure, Then
<1>6. /\ \A i \in DOMAIN documents' : \A d : d = documents'[i] => DocumentOK(d)
      /\ \A i \in DOMAIN outbox' : i \in DOMAIN outbox /\ outbox'[i] = outbox[i]
    BY <1>2 DEF FirstInv
<1> QED  BY <1>4, <1>5, <1>6, FirstStep

LEMMA RecordDeliveryKeeps ==
    ASSUME FirstInv, NEW c \in Clerks, RecordDelivery(c)
    PROVE  FirstInv'
<1>1. PICK x : x = clerk[c]
    OBVIOUS
<1>2. PICK status : status = IF x.mode = "SEND_EMAILS" THEN "SENT" ELSE "AUTHORIZED"
    OBVIOUS
<1>3. /\ x.step = "record" /\ Upsert(c, status)
      /\ UNCHANGED <<figures, documents, auths>>
    BY <1>1, <1>2 DEF RecordDelivery, Does
<1>4. ClerkOK(x)
    BY <1>1 DEF FirstInv
<1>5. x.entry \in 1 .. Len(outbox) /\ outbox[x.entry].mode = x.mode
    BY <1>3, <1>4 DEF ClerkOK, MailOK, Steps
<1>6. DOMAIN outbox = 1 .. Len(outbox) /\ Len(outbox) \in Nat /\ Len(records) \in Nat
    BY Lengths DEF FirstInv
<1>7. PICK old : old = outbox[x.entry]
    OBVIOUS
<1>8. MessageOK(old)
    BY <1>5, <1>6, <1>7 DEF FirstInv
<1>9. PICK n : n = Len(records) + 1
    OBVIOUS
<1>10. PICK new : new = [old EXCEPT !.recorded = n]
    OBVIOUS
<1>11. outbox' = [outbox EXCEPT ![x.entry] = new]
    BY <1>1, <1>5, <1>6, <1>7, <1>9, <1>10 DEF RecordDelivery
<1>12. /\ DOMAIN new = DOMAIN old /\ new.mode = old.mode /\ new.figures = old.figures
       /\ new.auth = old.auth /\ new.reason = old.reason /\ new.known = old.known
       /\ new.recorded = n
    <2>1. DOMAIN old = {"mode", "figures", "auth", "reason", "known", "recorded"}
        BY <1>8 DEF MessageOK
    <2> QED  BY <1>10, <2>1
<1>13. /\ IsList(outbox') /\ Len(outbox') = Len(outbox) /\ DOMAIN outbox' = DOMAIN outbox
       /\ \A i \in DOMAIN outbox : outbox'[i] = IF i = x.entry THEN new ELSE outbox[i]
    <2>1. PICK S : outbox \in Seq(S)
        BY DEF FirstInv, Tables, IsList
    <2>2. outbox \in Seq(S \cup {new}) /\ new \in S \cup {new}
        BY <2>1
    <2>3. outbox' \in Seq(S \cup {new}) /\ Len(outbox') = Len(outbox)
        BY <1>5, <1>6, <1>11, <2>2
    <2> QED  BY <1>5, <1>6, <1>11, <2>3 DEF IsList
<1>14. \A i \in 1 .. Len(outbox) : outbox'[i].mode = outbox[i].mode
    BY <1>6, <1>7, <1>12, <1>13
<1>15. /\ Keeps /\ Len(records') = n /\ records'[n].status = status
       /\ \A k \in DOMAIN records' \ DOMAIN records : RecordOK(k)'
    BY <1>1, <1>3, <1>9, <1>13, <1>14, UpsertKeeps
<1>16. MessageOK(old)'
    BY <1>8, <1>15, MessageStays
<1>17. new.recorded \in 0 .. Len(records')
    BY <1>6, <1>9, <1>12, <1>15
<1>18. new.mode = "SEND_EMAILS" => records'[new.recorded].status = "SENT"
    BY <1>2, <1>5, <1>7, <1>12, <1>15
<1>19. MessageOK(new)'
    BY <1>12, <1>16, <1>17, <1>18 DEF MessageOK
<1>20. \A i \in DOMAIN outbox' : \A m : m = outbox'[i] =>
           MessageOK(m)' \/ (i \in DOMAIN outbox /\ m = outbox[i])
    BY <1>13, <1>19
<1>21. clerk' = [clerk EXCEPT ![c] = Free] /\ ClerkOK(Free)'
    BY FreeOK DEF RecordDelivery, Then
<1>22. \A i \in DOMAIN documents' : \A d : d = documents'[i] => DocumentOK(d)
    BY <1>3 DEF FirstInv
<1> QED  BY <1>15, <1>20, <1>21, <1>22, FirstStep

----------------------------------------------------------------------------
LEMMA FirstBegins == Init => FirstInv
<1> SUFFICES ASSUME Init PROVE FirstInv
    OBVIOUS
<1>1. /\ figures = 1 /\ documents = <<>> /\ auths = <<>> /\ records = <<>> /\ outbox = <<>>
      /\ clerk = [c \in Clerks |-> Free]
    BY DEF Init, FirstInit
<1>2. IsList(<<>>) /\ DOMAIN <<>> = {} /\ <<>> \in Seq(Authorization)
    BY DEF IsList
<1>3. ClerkOK(Free)
    BY DEF ClerkOK, Free, Steps
<1>4. Tables
    BY <1>1, <1>2 DEF Tables, Active
<1> QED  BY <1>1, <1>2, <1>3, <1>4 DEF FirstInv

LEMMA FirstKeeps == FirstInv /\ [Next]_<<desk, sandboxVars, firstVars>> => FirstInv'
<1> SUFFICES ASSUME FirstInv, [Next]_<<desk, sandboxVars, firstVars>> PROVE FirstInv'
    OBVIOUS
<1>1. CASE UNCHANGED firstVars
    BY <1>1 DEF firstVars, FirstInv, Tables, Active, RecordOK, MessageOK, Looked, Approved,
                ClerkOK, MailOK
<1>2. CASE Recalculate
    BY <1>2, RecalculateKeeps
<1>3. ASSUME NEW mode \in Modes, Authorize(mode) PROVE FirstInv'
    BY <1>3, AuthorizeKeeps
<1>4. ASSUME NEW c \in Clerks, Quiet(c) PROVE FirstInv'
    <2>1. CASE \/ \E s \in Settlement : Generate(c, s) \/ CompareDocuments(c, s)
               \/ NextNumber(c) \/ Done(c)
        BY <2>1, DocumentWalks
    <2>2. CASE \/ \E m \in Settlement, reason \in BOOLEAN : Execute(c, m, reason)
               \/ Validate(c) \/ ReadActive(c) \/ ReadStatus(c)
        BY <2>2, MailWalks
    <2>3. CASE SaveDocument(c)
        BY <2>3, SaveDocumentKeeps
    <2>4. CASE MarkStale(c)
        BY <2>4, MarkStaleKeeps
    <2>5. CASE Invalidate(c)
        BY <2>5, InvalidateKeeps
    <2>6. CASE Deliver(c)
        BY <2>6, DeliverKeeps
    <2>7. CASE RecordDelivery(c)
        BY <2>7, RecordDeliveryKeeps
    <2>8. CASE RecordFailure(c)
        BY <2>8, RecordFailureKeeps
    <2> QED  BY <1>4, <2>1, <2>2, <2>3, <2>4, <2>5, <2>6, <2>7, <2>8, Zenon DEF Quiet
<1>5. ASSUME NEW c \in Clerks, Faulty(c) PROVE FirstInv'
    BY <1>5, DeliveryFailsKeeps, MailWalks, DocumentWalks DEF Faulty
<1>6. FirstNext => FirstInv'
    BY <1>2, <1>3, <1>4, <1>5, Zenon DEF FirstNext, Modes
<1> QED  BY <1>1, <1>6 DEF Next

LEMMA FirstAlways == Spec => []FirstInv
<1> QED  BY FirstBegins, FirstKeeps, PTL DEF Spec

(* When invalidate_if_changed has answered for some figures, no document of *)
(* other figures that was there when it looked is still GENERATED           *)
(* (documents/service.py): a document never leaves STALE nor changes its    *)
(* figures, and what is marked is all there was.                            *)
THEOREM ChangedFiguresLeaveNoDocument == Spec => []InvalidatedDocumentsAreStale
<1>1. FirstInv => InvalidatedDocumentsAreStale
    BY DEF FirstInv, ClerkOK, InvalidatedDocumentsAreStale
<1> QED  BY <1>1, FirstAlways, PTL

(* What a partner gets was approved (emails/execution.py): the execution    *)
(* began under an authorization of the mode it used, and the figures of the *)
(* message are those of that authorization or of a later one.               *)
THEOREM ApprovedFiguresOnly == Spec => []DeliveredFiguresWereApproved
<1>1. FirstInv => DeliveredFiguresWereApproved
    BY DEF FirstInv, MessageOK, Approved, DeliveredFiguresWereApproved
<1> QED  BY <1>1, FirstAlways, PTL

LEMMA SmallestOf ==
    ASSUME NEW T \in SUBSET Nat, T # {}
    PROVE  \E n \in T : \A m \in T : n <= m
<1>1. IsWellFoundedOn(OpToRel(<, Nat), Nat)
    BY NatLessThanWellFounded
<1>2. PICK n \in T : \A m \in T : ~(<<m, n>> \in OpToRel(<, Nat))
    BY <1>1, WFMin
<1>3. n \in Nat /\ \A m \in T : m \in Nat /\ ~(m < n)
    BY <1>2 DEF OpToRel
<1> QED  BY <1>3

(* A second send without a reason is explained by a race or a failure       *)
(* (emails/execution.py): the first record after the first send's that is   *)
(* not SENT was written by an execution that overlapped it or was a resend. *)
THEOREM ResendsAreExplained == Spec => []ResendIsExplained
<1>1. ASSUME FirstInv PROVE ResendIsExplained
    <2> SUFFICES ASSUME NEW i \in DOMAIN outbox, NEW k \in DOMAIN outbox,
                        outbox[i].mode = "SEND_EMAILS", ~ outbox[k].reason,
                        outbox[i].recorded # 0, ~(outbox[i].recorded > outbox[k].known)
                 PROVE  \E n \in outbox[i].recorded + 1 .. outbox[k].known :
                            /\ records[n].status # "SENT"
                            /\ records[n].reason \/ records[n].known < outbox[i].recorded
        BY DEF ResendIsExplained
    <2>1. PICK r, known : r = outbox[i].recorded /\ known = outbox[k].known
        OBVIOUS
    <2>2. DOMAIN records = 1 .. Len(records) /\ Len(records) \in Nat
        BY <1>1, Lengths DEF FirstInv
    <2>3. /\ r \in 1 .. Len(records) /\ records[r].status = "SENT"
          /\ known \in r .. Len(records) /\ records[known].status # "SENT"
        <3>1. PICK first, second : first = outbox[i] /\ second = outbox[k]
            OBVIOUS
        <3>2. MessageOK(first) /\ MessageOK(second)
            BY <1>1, <3>1 DEF FirstInv
        <3>3. Looked(known, second.reason) /\ ~ second.reason
            BY <2>1, <3>1, <3>2 DEF MessageOK
        <3>4. r \in 1 .. Len(records) /\ records[r].status = "SENT"
            BY <2>1, <2>2, <3>1, <3>2 DEF MessageOK
        <3>5. known \in r .. Len(records)
            BY <2>1, <2>2, <3>1, <3>2, <3>4 DEF MessageOK
        <3> QED  BY <2>2, <3>3, <3>4, <3>5 DEF Looked
    <2>4. PICK T : T = {n \in r + 1 .. known : records[n].status # "SENT"}
        OBVIOUS
    <2>5. T \in SUBSET Nat /\ known \in T
        BY <2>2, <2>3, <2>4
    <2>6. PICK n \in T : \A m \in T : n <= m
        BY <2>5, SmallestOf
    <2>7. n \in r + 1 .. known /\ records[n].status # "SENT" /\ n \in 1 .. Len(records)
        BY <2>2, <2>3, <2>4, <2>6
    <2>8. RecordOK(n)
        BY <1>1, <2>2, <2>7 DEF FirstInv
    <2>9. ASSUME ~ records[n].reason PROVE records[n].known < r
        <3>1. PICK m : m = records[n].known
            OBVIOUS
        <3>2. m \in 0 .. n - 1 /\ (m = 0 \/ records[m].status # "SENT")
            BY <2>8, <2>9, <3>1 DEF RecordOK, Looked
        <3>3. m \notin T
            BY <2>2, <2>6, <2>7, <3>2
        <3> QED  BY <2>2, <2>3, <2>4, <2>7, <3>1, <3>2, <3>3
    <2> QED  BY <2>1, <2>7, <2>9
<1> QED  BY <1>1, FirstAlways, PTL

=============================================================================
