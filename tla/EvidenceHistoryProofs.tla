------------------------ MODULE EvidenceHistoryProofs ------------------------
(***************************************************************************)
(* Theorems about what EvidenceStore leaves in its history, for any slots,  *)
(* members, runs and number of crashes and errors: the retained store is    *)
(* readable whenever it has no owner, recovery suffices and promotes        *)
(* nothing, and an observed failure is never lost.                          *)
(***************************************************************************)
EXTENDS EvidenceStoreProofs

\* Every event was allowed where it stands and what it references is committed.
ChainValid ==
    \A i \in DOMAIN history :
        BindingAllowed(SubSeq(history, 1, i - 1), history[i]) /\ Backed(history[i])

\* A half-published event has its pending result; a recovery appends to the owner it
\* preserved; and once it has accounted for everything the history does too.
RecoveryInv ==
    /\ eventAlias # {} => pending # {} /\ recovery \notin {"accounted", "verified"}
    /\ recovery \in {"preserved", "linked", "accounted", "verified"} => snapshots[owner] = "complete"
    /\ recovery \in {"accounted", "verified"} => AllAccounted /\ \A q \in pending : HasEvent(q)

\* The last event of a committed artifact's attempt, when there is one, accounts for it.
Decided == \A x \in artifacts : AttemptEvents(history, x) # {} => AccountsArtifact(history, x)

\* Attempts and runs are numbered in the order in which they begin.
Numbered ==
    /\ \A i \in DOMAIN history :
          /\ history[i].attempt <= attempts /\ history[i].run <= sessions
          /\ history[i].kind = "indeterminate" => history[i].run \in Runs
    /\ owner <= sessions
    /\ \A q \in pending : /\ q.attempt <= attempts
                          /\ q.kind = "execution" => q.member = NoMember
    /\ \A m \in Members : failedAt[m] <= Len(history) + 1

\* The attempt a of slot p passed and its event is durable.
Ran(p, a) ==
    \E i \in DOMAIN history :
        /\ history[i].kind = "execution" /\ history[i].result = "PASS" /\ history[i].backed
        /\ history[i].key = KeyNow(p) /\ history[i].attempt = a

\* This run has not reported the observation of m on the attempt a.
Unreported(p, a, m) ==
    \A i \in DOMAIN history :
        ~(/\ history[i].key = KeyNow(p) /\ history[i].attempt = a
          /\ history[i].member = m /\ history[i].run = owner)

Unannounced(p, a, m) ==
    [kind |-> "observation", key |-> KeyNow(p), attempt |-> a, member |-> m] \notin pending

\* A member still to be observed: its execution passed, and this run has neither
\* announced nor reported an observation of it.
Observable(p, a, m) == m \in MembersOf[p] /\ Ran(p, a) /\ Unreported(p, a, m) /\ Unannounced(p, a, m)

Unrecorded(p) ==
    \A i \in DOMAIN history : ~(history[i].key = KeyNow(p) /\ history[i].attempt = work[p].attempt)

Unappended == {"pending", "running", "executed", "thrown", "published"}
Unobserved == {"obspending", "checking", "examined", "streamed", "received"}

\* What the history holds of the invocation a worker is in.
Working(p) ==
    /\ work[p].at = "idle" =>
          /\ \A i \in DOMAIN history : ~(history[i].key = KeyNow(p) /\ history[i].run = owner)
          /\ \A q \in pending : q.key # KeyNow(p)
    /\ work[p].at \in Unappended => Unrecorded(p)
    /\ work[p].at \in Announcing =>
          \A q \in pending :
              ~(q.kind = "observation" /\ q.key = KeyNow(p) /\ q.attempt = work[p].attempt)
    /\ work[p].at = "thrown" => work[p].result = "ERROR"
    /\ work[p].at = "published" =>
          [key |-> KeyNow(p), attempt |-> work[p].attempt, result |-> work[p].result] \in artifacts
    /\ work[p].at = "appended" =>
          /\ \E i \in DOMAIN history : history[i] = ExecutionEvent(p, TRUE)
          /\ \A i \in DOMAIN history :
                history[i].key = KeyNow(p) /\ history[i].attempt = work[p].attempt => history[i].run = 0
    /\ work[p].at = "requested" => Observable(p, work[p].attempt, work[p].member)
    /\ work[p].at \in Unobserved =>
          /\ work[p].member \in MembersOf[p] /\ Ran(p, work[p].attempt)
          /\ Unreported(p, work[p].attempt, work[p].member)
    /\ work[p].at = "received" =>
          [run |-> owner, key |-> KeyNow(p), attempt |-> work[p].attempt,
           member |-> work[p].member, result |-> work[p].result] \in receipts
    /\ work[p].at \in {"requested", "obsappended"} \cup Unobserved =>
          <<work[p].member, work[p].attempt>> \notin work[p].todo
    /\ \A mark \in work[p].todo : Observable(p, mark[2], mark[1])

\* A barrier recorded since the failure of m was observed.
Barred(m) == \E j \in DOMAIN history : j >= failedAt[m] /\ BarrierApplies(history[j], m)

\* The pending result q has an event that HasEvent could take for its own.
Reported(q) ==
    \E i \in DOMAIN history :
        /\ history[i].key = q.key /\ history[i].attempt = q.attempt /\ history[i].member = q.member
        /\ q.kind = "observation" => history[i].run = owner

\* The failure of m is still to be recorded for q: by the worker that observed it,
\* or as indeterminate by the recovery of its owner.
Awaiting(q, m) ==
    /\ ~Reported(q)
    /\ \E n \in Touched(q) : SameAssociation(n, m)
    /\ \A p \in Physicals :
          /\ At(p, Announcing) /\ q = ExecutionPending(p) =>
                work[p].at \in {"executed", "published"} /\ work[p].result = "FAIL"
          /\ At(p, AnnouncingObservation) /\ q = ObservationPending(p) =>
                work[p].at \in {"examined", "streamed", "received"} /\ work[p].result = "FAIL"

\* A failure that was observed is on record, or will be before the owner is gone.
FailuresKept == \A m \in Members : failedAt[m] # 0 => Barred(m) \/ \E q \in pending : Awaiting(q, m)

HistoryInv ==
    /\ AccountingInv /\ ChainValid /\ RecoveryInv /\ Decided /\ Numbered /\ FailuresKept
    /\ alive => \A p \in Physicals : Working(p)

-----------------------------------------------------------------------------
(* The history grows.                                                      *)

LEMMA Prefixes ==
    ASSUME NEW h \in Seq(Event), NEW e \in Event
    PROVE  /\ SubSeq(Append(h, e), 1, Len(h)) = h
           /\ \A i \in DOMAIN h : SubSeq(Append(h, e), 1, i - 1) = SubSeq(h, 1, i - 1)
  <1>1. Len(h) \in Nat /\ DOMAIN h = 1 .. Len(h) /\ Len(Append(h, e)) = Len(h) + 1
    OBVIOUS
  <1>2. SubSeq(Append(h, e), 1, Len(h)) = h
    BY <1>1
  <1>3. \A i \in DOMAIN h : SubSeq(Append(h, e), 1, i - 1) = SubSeq(h, 1, i - 1)
    BY <1>1
  <1> QED BY <1>2, <1>3

\* What was committed stays committed.
Grows ==
    /\ artifacts \subseteq artifacts' /\ receipts \subseteq receipts'
    /\ \A r \in Runs : snapshots[r] = "complete" => snapshots'[r] = "complete"

LEMMA BackedStays ==
    ASSUME Grows, NEW e \in Event, e.kind = "indeterminate" => e.run \in Runs, Backed(e)
    PROVE  Backed(e)'
  BY DEF Grows, Backed, Event, Kinds

LEMMA ChainStep ==
    ASSUME TypeOK, ChainValid, Grows,
           \A i \in DOMAIN history : history[i].kind = "indeterminate" => history[i].run \in Runs,
           \/ history' = history
           \/ \E e \in Event : Append1(e) /\ Backed(e)'
    PROVE  ChainValid'
  <1>1. history \in Seq(Event) /\ \A i \in DOMAIN history : history[i] \in Event
    BY DEF TypeOK
  <1>2. \A i \in DOMAIN history : Backed(history[i]) /\ BindingAllowed(SubSeq(history, 1, i - 1), history[i])
    BY DEF ChainValid
  <1>3. \A e \in Event : Backed(e) /\ (e.kind = "indeterminate" => e.run \in Runs) => Backed(e)'
    BY BackedStays
  <1>4. CASE history' = history
    <2>1. ASSUME NEW i \in DOMAIN history' PROVE Backed(history[i])'
      <3>1. PICK e \in Event : e = history[i] BY <1>1, <1>4
      <3>2. Backed(e)' BY <1>2, <1>3, <1>4, <3>1
      <3> QED BY <1>4, <3>1, <3>2 DEF Backed
    <2> QED BY <1>2, <1>4, <2>1 DEF ChainValid
  <1>5. ASSUME NEW e \in Event, Append1(e), Backed(e)' PROVE ChainValid'
    <2>1. history' = Append(history, e) /\ BindingAllowed(history, e)
      BY <1>5 DEF Append1, AppendAllowed
    <2>2. /\ DOMAIN history' = DOMAIN history \cup {Len(history) + 1}
          /\ history'[Len(history) + 1] = e
          /\ \A i \in DOMAIN history : history'[i] = history[i]
      BY <1>1, <2>1, AppendIndices
    <2>3. SubSeq(history', 1, Len(history)) = history
      BY <1>1, <2>1, Prefixes
    <2>4. \A i \in DOMAIN history : SubSeq(history', 1, i - 1) = SubSeq(history, 1, i - 1)
      BY <1>1, <2>1, Prefixes
    <2>5. ASSUME NEW i \in DOMAIN history'
          PROVE  BindingAllowed(SubSeq(history', 1, i - 1), history'[i]) /\ Backed(history[i])'
      <3>1. CASE i \in DOMAIN history
        <4>1. PICK f \in Event : f = history[i] BY <1>1, <3>1
        <4>2. Backed(f)' BY <1>2, <1>3, <3>1, <4>1
        <4>3. f = history'[i] BY <2>2, <3>1, <4>1
        <4> QED BY <1>2, <2>2, <2>4, <3>1, <4>1, <4>2, <4>3 DEF Backed
      <3>2. CASE i = Len(history) + 1
        <4>1. i - 1 = Len(history) BY <1>1, <3>2
        <4> QED BY <1>5, <2>1, <2>2, <2>3, <3>2, <4>1 DEF Backed
      <3> QED BY <2>2, <3>1, <3>2
    <2> QED BY <2>5 DEF ChainValid
  <1> QED BY <1>4, <1>5

LEMMA DecidedStep ==
    ASSUME TypeOK, Decided, NEW e \in Event, Append1(e), artifacts' = artifacts,
           \A x \in artifacts : AboutArtifact(e, x) => e.kind = "indeterminate" \/ e.result = x.result
    PROVE  Decided'
  <1>1. history \in Seq(Event) /\ artifacts \subseteq Artifact /\ history' = Append(history, e)
    BY DEF TypeOK, Append1
  <1>2. ASSUME NEW x \in artifacts, AttemptEvents(history', x) # {}
        PROVE  AccountsArtifact(history', x)
    <2>1. AttemptEvents(history, x) # {} \/ AboutArtifact(e, x)
      BY <1>1, <1>2, AppendIndices DEF AttemptEvents, AboutArtifact
    <2>2. AccountsArtifact(history, x) \/ AboutArtifact(e, x)
      BY <2>1 DEF Decided
    <2> QED BY <1>1, <2>2, ArtifactStaysAccounted
  <1> QED BY <1>2 DEF Decided

\* A barrier stays one, and a failure whose pending result goes leaves one.
LEMMA FailuresStep ==
    ASSUME TypeOK, FailuresKept, failedAt' = failedAt,
           history' = history \/ \E e \in Event : history' = Append(history, e),
           \A m \in Members : \A q \in pending :
               Awaiting(q, m) => Barred(m)' \/ (q \in pending' /\ Awaiting(q, m)')
    PROVE  FailuresKept'
  <1>1. history \in Seq(Event) BY DEF TypeOK
  <1>2. DOMAIN history \subseteq DOMAIN history' /\ \A i \in DOMAIN history : history'[i] = history[i]
    BY <1>1, AppendIndices
  <1>3. \A m \in Members : Barred(m) => Barred(m)'
    BY <1>2 DEF Barred
  <1> QED BY <1>3 DEF FailuresKept

-----------------------------------------------------------------------------
(* The other workers.                                                      *)

\* What a step of worker p leaves alone.
Aside(p) ==
    /\ UNCHANGED <<alive, version, owner>>
    /\ \A r \in Physicals \ {p} : work'[r] = work[r]
    /\ artifacts \subseteq artifacts' /\ receipts \subseteq receipts'
    /\ \A q : q.key # KeyNow(p) => (q \in pending' <=> q \in pending)
    /\ \/ history' = history
       \/ \E e \in Event : e.key = KeyNow(p) /\ history' = Append(history, e)

LEMMA OthersWork ==
    ASSUME TypeOK, NEW p \in Physicals, NEW r \in Physicals, r # p, Aside(p), Working(r)
    PROVE  Working(r)'
  <1>1. history \in Seq(Event) BY DEF TypeOK
  <1>2. KeyNow(r) # KeyNow(p) /\ KeyNow(r)' = KeyNow(r) /\ work'[r] = work[r] /\ owner' = owner
    BY SlotsDiffer DEF Aside, KeyNow
  <1>3. /\ DOMAIN history \subseteq DOMAIN history'
        /\ \A i \in DOMAIN history : history'[i] = history[i]
        /\ \A i \in DOMAIN history' : history'[i].key = KeyNow(r) => i \in DOMAIN history
    BY <1>1, <1>2, AppendIndices DEF Aside
  <1>4. \A a : Ran(r, a) => Ran(r, a)'
    BY <1>2, <1>3 DEF Ran
  <1>5. \A a, m : Unreported(r, a, m) => Unreported(r, a, m)'
    BY <1>2, <1>3 DEF Unreported
  <1>6. \A a, m : Unannounced(r, a, m) => Unannounced(r, a, m)'
    BY <1>2 DEF Unannounced, Aside
  <1>7. \A a, m : Observable(r, a, m) => Observable(r, a, m)'
    BY <1>4, <1>5, <1>6 DEF Observable
  <1>8. Unrecorded(r) => Unrecorded(r)'
    BY <1>2, <1>3 DEF Unrecorded
  <1>9. \A q : q.key = KeyNow(r) => (q \in pending' <=> q \in pending)
    BY <1>2 DEF Aside
  <1>a. ExecutionEvent(r, TRUE)' = ExecutionEvent(r, TRUE)
    BY <1>2 DEF ExecutionEvent
  <1>b. work[r].at = "idle" =>
            /\ \A i \in DOMAIN history' : ~(history'[i].key = KeyNow(r) /\ history'[i].run = owner)
            /\ \A q \in pending' : q.key # KeyNow(r)
    BY <1>3, <1>9 DEF Working
  <1>c. work[r].at \in Announcing =>
            \A q \in pending' :
                ~(q.kind = "observation" /\ q.key = KeyNow(r) /\ q.attempt = work[r].attempt)
    BY <1>9 DEF Working
  <1>d. work[r].at = "appended" =>
            /\ \E i \in DOMAIN history' : history'[i] = ExecutionEvent(r, TRUE)
            /\ \A i \in DOMAIN history' :
                  history'[i].key = KeyNow(r) /\ history'[i].attempt = work[r].attempt => history'[i].run = 0
    BY <1>3 DEF Working
  <1>e. artifacts \subseteq artifacts' /\ receipts \subseteq receipts'
    BY DEF Aside
  <1> QED
    BY <1>2, <1>4, <1>5, <1>7, <1>8, <1>a, <1>b, <1>c, <1>d, <1>e DEF Working

-----------------------------------------------------------------------------
(* Steps of a session that record nothing.                                 *)

HKept ==
    /\ (ChainValid /\ RecoveryInv /\ Decided /\ Numbered /\ FailuresKept)'
    /\ alive' => \A p \in Physicals : Working(p)'

Standing == <<history, artifacts, receipts, owner, pending, attempts, sessions, version, alive,
              snapshots, recovery>>

\* What the invariant says while a session is alive.
LEMMA AliveFacts ==
    ASSUME HistoryInv, alive
    PROVE  /\ TypeOK /\ ChainValid /\ RecoveryInv /\ Decided /\ Numbered /\ FailuresKept
           /\ InvocationsAnnounced /\ FreshAttempts /\ Settled
           /\ recovery \in {"none", "retired"} /\ owner \in Runs
           /\ \A p \in Physicals : Working(p)
  BY DEF HistoryInv, AccountingInv, Ownership, TypeOK

LEMMA QuietKept ==
    ASSUME HistoryInv, alive, NEW p \in Physicals, UNCHANGED Standing, eventAlias' \subseteq eventAlias,
           \A r \in Physicals \ {p} : work'[r] = work[r],
           Working(p)', FailuresKept', \A m \in Members : failedAt'[m] <= Len(history) + 1
    PROVE  HKept
  <1> USE DEF Standing
  <1>1. /\ TypeOK /\ ChainValid /\ RecoveryInv /\ Decided /\ Numbered
        /\ recovery \in {"none", "retired"} /\ \A r \in Physicals : Working(r)
    BY AliveFacts
  <1>2. ChainValid'
    BY <1>1 DEF ChainValid, Backed
  <1>3. RecoveryInv' /\ Decided' /\ Numbered'
    BY <1>1 DEF RecoveryInv, Decided, Numbered
  <1>4. Aside(p) BY DEF Aside
  <1>5. \A r \in Physicals : Working(r)'
    BY <1>1, <1>4, OthersWork
  <1> QED BY <1>2, <1>3, <1>5 DEF HKept

\* What the history holds of an invocation does not move with the worker.
LEMMA StandingSame ==
    ASSUME NEW p \in Physicals, UNCHANGED Standing
    PROVE  /\ KeyNow(p)' = KeyNow(p)
           /\ \A a : Ran(p, a)' <=> Ran(p, a)
           /\ \A a, m : Unreported(p, a, m)' <=> Unreported(p, a, m)
           /\ \A a, m : Unannounced(p, a, m)' <=> Unannounced(p, a, m)
           /\ \A a, m : Observable(p, a, m)' <=> Observable(p, a, m)
  <1> USE DEF Standing
  <1>1. KeyNow(p)' = KeyNow(p) BY DEF KeyNow
  <1>2. \A a : Ran(p, a)' <=> Ran(p, a) BY <1>1 DEF Ran
  <1>3. \A a, m : Unreported(p, a, m)' <=> Unreported(p, a, m) BY <1>1 DEF Unreported
  <1>4. \A a, m : Unannounced(p, a, m)' <=> Unannounced(p, a, m) BY <1>1 DEF Unannounced
  <1>5. \A a, m : Observable(p, a, m)' <=> Observable(p, a, m)
    BY <1>2, <1>3, <1>4 DEF Observable
  <1> QED BY <1>1, <1>2, <1>3, <1>4, <1>5

Failing == {"executed", "published", "examined", "streamed", "received"}

\* A worker that has no failure on its hands gets none, and one that has goes on.
LEMMA FailuresQuiet ==
    ASSUME HistoryInv, NEW p \in Physicals, UNCHANGED Standing, failedAt' = failedAt,
           \A r \in Physicals \ {p} : work'[r] = work[r],
           \/ work'[p] = work[p]
           \/ work'[p].at \notin Announcing \cup AnnouncingObservation
           \/ /\ GoesOn(p)
              /\ work[p].at \in Failing /\ work[p].result = "FAIL" =>
                    work'[p].at \in Failing /\ work'[p].result = "FAIL"
    PROVE  FailuresKept'
  <1> USE DEF Standing
  <1>1. TypeOK /\ FailuresKept BY DEF HistoryInv, AccountingInv
  <1>2. ASSUME NEW m \in Members, NEW q \in pending, Awaiting(q, m) PROVE Awaiting(q, m)'
    <2>1. ~Reported(q)' BY <1>2 DEF Awaiting, Reported
    <2>2. ASSUME NEW r \in Physicals
          PROVE  /\ At(r, Announcing)' /\ q = ExecutionPending(r)' =>
                        work'[r].at \in {"executed", "published"} /\ work'[r].result = "FAIL"
                 /\ At(r, AnnouncingObservation)' /\ q = ObservationPending(r)' =>
                        work'[r].at \in {"examined", "streamed", "received"} /\ work'[r].result = "FAIL"
      <3>1. CASE work'[r] = work[r]
        BY <1>2, <3>1 DEF Awaiting, At, ExecutionPending, ObservationPending, KeyNow
      <3>2. CASE r = p /\ work'[p].at \notin Announcing \cup AnnouncingObservation
        BY <3>2 DEF At
      <3>3. CASE /\ r = p /\ GoesOn(p)
                 /\ work[p].at \in Failing /\ work[p].result = "FAIL" =>
                       work'[p].at \in Failing /\ work'[p].result = "FAIL"
        <4>1. ExecutionPending(p)' = ExecutionPending(p) /\ ObservationPending(p)' = ObservationPending(p)
          BY <3>3 DEF GoesOn, ExecutionPending, ObservationPending, KeyNow
        <4>2. CASE At(p, Announcing)' /\ q = ExecutionPending(p)
          <5>1. At(p, Announcing) BY <3>3, <4>2 DEF GoesOn, At, Announcing, AnnouncingObservation
          <5>2. work[p].at \in {"executed", "published"} /\ work[p].result = "FAIL"
            BY <1>2, <4>2, <5>1 DEF Awaiting
          <5> QED BY <3>3, <4>2, <5>2 DEF At, Failing, Announcing, AnnouncingObservation
        <4>3. CASE At(p, AnnouncingObservation)' /\ q = ObservationPending(p)
          <5>1. At(p, AnnouncingObservation)
            BY <3>3, <4>3 DEF GoesOn, At, Announcing, AnnouncingObservation
          <5>2. work[p].at \in {"examined", "streamed", "received"} /\ work[p].result = "FAIL"
            BY <1>2, <4>3, <5>1 DEF Awaiting
          <5> QED BY <3>3, <4>3, <5>2 DEF At, Failing, Announcing, AnnouncingObservation
        <4>4. ~(At(p, Announcing)' /\ At(p, AnnouncingObservation)')
          BY DEF At, Announcing, AnnouncingObservation
        <4> QED BY <3>3, <4>1, <4>2, <4>3, <4>4
      <3> QED BY <3>1, <3>2, <3>3
    <2> QED BY <1>2, <2>1, <2>2 DEF Awaiting, Touched
  <1> QED BY <1>1, <1>2, FailuresStep

\* A worker that goes from stage to stage keeps what the history holds of it.
LEMMA StageKept ==
    ASSUME NEW p \in Physicals, Working(p), UNCHANGED Standing,
           work'[p].attempt = work[p].attempt, work'[p].member = work[p].member,
           work'[p].todo = work[p].todo,
           \/ work'[p].at \in {"done", "failed"}
           \/ work[p].at = "pending" /\ work'[p].at = "running"
           \/ work[p].at = "pending" /\ work'[p].at = "thrown" /\ work'[p].result = "ERROR"
           \/ work[p].at = "running" /\ work'[p].at = "executed"
           \/ work[p].at = "obspending" /\ work'[p].at = "checking"
           \/ work[p].at = "checking" /\ work'[p].at = "examined"
           \/ work[p].at = "examined" /\ work'[p].at = "streamed"
    PROVE  Working(p)'
  <1> USE DEF Standing
  <1>1. /\ KeyNow(p)' = KeyNow(p)
        /\ \A a : Ran(p, a)' <=> Ran(p, a)
        /\ \A a, m : Unreported(p, a, m)' <=> Unreported(p, a, m)
        /\ \A a, m : Observable(p, a, m)' <=> Observable(p, a, m)
    BY StandingSame
  <1>2. work'[p].at \in Unappended => work[p].at \in Unappended
    BY DEF Unappended
  <1>3. work'[p].at \in Announcing => work[p].at \in Announcing
    BY DEF Announcing
  <1>4. work'[p].at \in Unobserved => work[p].at \in Unobserved
    BY DEF Unobserved
  <1>5. work'[p].at \notin {"idle", "published", "appended", "requested", "received", "obsappended"}
    OBVIOUS
  <1>6. Unrecorded(p)' <=> Unrecorded(p) BY <1>1 DEF Unrecorded
  <1>7. work'[p].at \in Unappended => Unrecorded(p)' BY <1>2, <1>6 DEF Working
  <1>8. work'[p].at \in Announcing =>
            \A q \in pending' :
                ~(q.kind = "observation" /\ q.key = KeyNow(p)' /\ q.attempt = work'[p].attempt)
    BY <1>1, <1>3 DEF Working
  <1>9. work'[p].at = "thrown" => work'[p].result = "ERROR" OBVIOUS
  <1>a. work'[p].at \in Unobserved =>
            /\ work'[p].member \in MembersOf[p] /\ Ran(p, work[p].attempt)'
            /\ Unreported(p, work[p].attempt, work[p].member)'
    <2>1. \A a, m : a = work[p].attempt /\ m = work[p].member =>
              /\ Ran(p, a)' = Ran(p, work[p].attempt)' /\ Unreported(p, a, m)' = Unreported(p, work[p].attempt, work[p].member)'
      BY <1>1 DEF Ran, Unreported
    <2> QED BY <1>1, <1>4, <2>1 DEF Working
  <1>b. work'[p].at \in {"requested", "obsappended"} \cup Unobserved =>
            <<work'[p].member, work'[p].attempt>> \notin work'[p].todo
    BY <1>4, <1>5 DEF Working
  <1>c. \A mark \in work'[p].todo : Observable(p, mark[2], mark[1])'
    BY <1>1 DEF Working
  <1> QED BY <1>5, <1>7, <1>8, <1>9, <1>a, <1>b, <1>c DEF Working

LEMMA NotFailing ==
    ASSUME HistoryInv
    PROVE  \A m \in Members : failedAt[m] <= Len(history) + 1
  BY DEF HistoryInv, Numbered

LEMMA AbortsKept ==
    ASSUME HistoryInv, NEW p \in Physicals,
           SelectThrows(p) \/ ObservationUnresolved(p) \/ Refused(p) \/ StorageError(p)
    PROVE  HKept
  <1>1. alive /\ Abort(p) /\ UNCHANGED Standing /\ UNCHANGED <<eventAlias, failedAt>>
    BY DEF SelectThrows, ObservationUnresolved, Refused, StorageError, At, Abort, Standing, durable, counters
  <1>2. TypeOK /\ Working(p) BY <1>1, AliveFacts
  <1>3. /\ work'[p].at = "failed" /\ work'[p].attempt = work[p].attempt
        /\ work'[p].member = work[p].member /\ work'[p].todo = work[p].todo
        /\ \A r \in Physicals \ {p} : work'[r] = work[r]
    BY <1>1, <1>2, WorkerWrites DEF Abort, Goto, Invoked
  <1>4. Working(p)' BY <1>1, <1>2, <1>3, StageKept
  <1>5. FailuresKept'
    BY <1>1, <1>3, FailuresQuiet DEF Announcing, AnnouncingObservation
  <1> QED BY <1>1, <1>3, <1>4, <1>5, NotFailing, QuietKept

LEMMA StagesKept ==
    ASSUME HistoryInv, NEW p \in Physicals,
           HaltedBeforeDispatch(p) \/ Spawn(p) \/ ExecutionThrows(p) \/ LinkStreams(p)
    PROVE  HKept
  <1>1. alive /\ UNCHANGED Standing /\ UNCHANGED <<eventAlias, failedAt>>
    BY DEF HaltedBeforeDispatch, Spawn, ExecutionThrows, LinkStreams, At, Standing, durable, counters
  <1>2. TypeOK /\ Working(p) BY <1>1, AliveFacts
  <1>3. /\ work'[p].attempt = work[p].attempt
        /\ work'[p].member = work[p].member /\ work'[p].todo = work[p].todo
        /\ \A r \in Physicals \ {p} : work'[r] = work[r]
        /\ \/ work'[p].at = "done"
           \/ work[p].at = "pending" /\ work'[p].at = "running"
           \/ work[p].at = "pending" /\ work'[p].at = "thrown" /\ work'[p].result = "ERROR"
           \/ work[p].at = "obspending" /\ work'[p].at = "checking"
           \/ work[p].at = "examined" /\ work'[p].at = "streamed" /\ work'[p].result = work[p].result
    <2>1. CASE HaltedBeforeDispatch(p)
      BY <1>2, <2>1, WorkerWrites DEF HaltedBeforeDispatch, Goto, Invoked
    <2>2. CASE Spawn(p)
      BY <1>2, <2>2, WorkerWrites DEF Spawn, At, Goto, Invoked
    <2>3. CASE ExecutionThrows(p)
      BY <1>2, <2>3, WorkerWrites DEF ExecutionThrows, At, Invoked
    <2>4. CASE LinkStreams(p)
      BY <1>2, <2>4, WorkerWrites DEF LinkStreams, At, Goto, Invoked
    <2> QED BY <2>1, <2>2, <2>3, <2>4
  <1>4. Working(p)' BY <1>1, <1>2, <1>3, StageKept
  <1>5. FailuresKept'
    BY <1>1, <1>3, FailuresQuiet DEF GoesOn, Failing, Announcing, AnnouncingObservation
  <1> QED BY <1>1, <1>3, <1>4, <1>5, NotFailing, QuietKept

LEMMA UnlinksKept ==
    ASSUME HistoryInv, NEW p \in Physicals, UnlinkEvent(p) \/ UnlinkFile(p)
    PROVE  HKept
  <1>1. /\ alive /\ UNCHANGED Standing /\ UNCHANGED <<work, failedAt>> /\ eventAlias' \subseteq eventAlias
    BY DEF UnlinkEvent, UnlinkFile, At, Standing, durable, counters, volatile
  <1>2. Working(p) BY <1>1, AliveFacts
  <1>3. Working(p)'
    <2>1. /\ KeyNow(p)' = KeyNow(p) /\ work' = work
          /\ \A a : Ran(p, a)' <=> Ran(p, a)
          /\ \A a, m : Unreported(p, a, m)' <=> Unreported(p, a, m)
          /\ \A a, m : Observable(p, a, m)' <=> Observable(p, a, m)
      BY <1>1, StandingSame
    <2>2. Unrecorded(p)' <=> Unrecorded(p) BY <1>1, <2>1 DEF Standing, Unrecorded
    <2>3. ExecutionEvent(p, TRUE)' = ExecutionEvent(p, TRUE) BY <2>1 DEF ExecutionEvent
    <2> QED BY <1>1, <1>2, <2>1, <2>2, <2>3 DEF Standing, Working
  <1>4. FailuresKept' BY <1>1, FailuresQuiet
  <1> QED BY <1>1, <1>3, <1>4, NotFailing, QuietKept

\* The members a worker turns to are observable.
LEMMA TurnKept ==
    ASSUME HistoryInv, alive, NEW p \in Physicals, UNCHANGED Standing, UNCHANGED <<eventAlias, failedAt>>,
           NEW stage \in {"checked", "observing", "done"}, NEW todo, Set(p, Between(stage, todo)),
           \A mark \in todo : Observable(p, mark[2], mark[1])
    PROVE  HKept
  <1>1. TypeOK BY AliveFacts
  <1>2. /\ work'[p].at = stage /\ work'[p].todo = todo
        /\ \A r \in Physicals \ {p} : work'[r] = work[r]
    BY <1>1, WorkerWrites DEF Between
  <1>3. \A a, m : Observable(p, a, m)' <=> Observable(p, a, m)
    BY DEF Standing, KeyNow, Ran, Unreported, Unannounced, Observable
  <1>4. Working(p)'
    BY <1>2, <1>3 DEF Working, Announcing, Unappended, Unobserved
  <1>5. FailuresKept' BY <1>2, FailuresQuiet DEF Announcing, AnnouncingObservation
  <1> QED BY <1>2, <1>4, <1>5, NotFailing, QuietKept

LEMMA SelectsKept ==
    ASSUME HistoryInv, NEW p \in Physicals, Select(p) \/ ObservationsDone(p)
    PROVE  HKept
  <1>1. alive /\ UNCHANGED Standing /\ UNCHANGED <<eventAlias, failedAt>>
    BY DEF Select, ObservationsDone, At, Standing, durable, counters
  <1>2. TypeOK /\ Working(p) BY <1>1, AliveFacts
  <1>3. CASE ObservationsDone(p)
    <2>1. Set(p, Between("done", {})) BY <1>3 DEF ObservationsDone
    <2> QED BY <1>1, <2>1, TurnKept
  <1>4. CASE Select(p)
    <2> DEFINE candidates == {c \in (MembersOf[p] \cap selected) \X DOMAIN history :
                                IsCandidate(history, KeyNow(p), c[1], c[2])}
               todo == {<<c[1], history[c[2]].attempt>> : c \in candidates}
    <2>1. Set(p, Between("observing", todo)) \/ Set(p, Between("checked", {}))
      BY <1>4 DEF Select
    <2>2. work[p].at = "idle" BY <1>4 DEF Select, At
    <2>3. ASSUME NEW mark \in todo PROVE Observable(p, mark[2], mark[1])
      <3>1. PICK m \in MembersOf[p], i \in DOMAIN history :
               IsCandidate(history, KeyNow(p), m, i) /\ mark = <<m, history[i].attempt>>
        OBVIOUS
      <3>2. Ran(p, history[i].attempt)
        BY <3>1 DEF IsCandidate, Eligible, Ran
      <3>3. Unreported(p, history[i].attempt, m) /\ Unannounced(p, history[i].attempt, m)
        BY <1>2, <2>2 DEF Working, Unreported, Unannounced
      <3> QED BY <3>1, <3>2, <3>3 DEF Observable
    <2> HIDE DEF todo
    <2> QED BY <1>1, <2>1, <2>3, TurnKept
  <1> QED BY <1>3, <1>4

LEMMA RequestKept ==
    ASSUME HistoryInv, NEW p \in Physicals, LinkRequest(p)
    PROVE  HKept
  <1>1. alive /\ UNCHANGED Standing /\ UNCHANGED <<eventAlias, failedAt>>
    BY DEF LinkRequest, At, Standing, counters
  <1>2. TypeOK /\ Working(p) BY <1>1, AliveFacts
  <1>3. PICK mark \in work[p].todo :
           Set(p, [at |-> "requested", attempt |-> mark[2], member |-> mark[1],
                   result |-> "PASS", closed |-> TRUE, todo |-> work[p].todo \ {mark}])
    BY DEF LinkRequest
  <1>4. /\ work'[p].at = "requested" /\ work'[p].attempt = mark[2] /\ work'[p].member = mark[1]
        /\ work'[p].todo = work[p].todo \ {mark}
        /\ \A r \in Physicals \ {p} : work'[r] = work[r]
    BY <1>2, <1>3, WorkerWrites
  <1>5. mark = <<mark[1], mark[2]>>
    BY <1>2, PartsTyped
  <1>6. \A a, m : Observable(p, a, m)' <=> Observable(p, a, m)
    BY <1>1 DEF Standing, KeyNow, Ran, Unreported, Unannounced, Observable
  <1>7. Working(p)'
    BY <1>2, <1>4, <1>5, <1>6 DEF Working, Announcing, Unappended, Unobserved
  <1>8. FailuresKept' BY <1>1, <1>4, FailuresQuiet DEF Announcing, AnnouncingObservation
  <1> QED BY <1>1, <1>4, <1>7, <1>8, NotFailing, QuietKept

-----------------------------------------------------------------------------
(* Steps of a session that record something.                               *)

LEMMA WorkingStep ==
    ASSUME NEW p \in Physicals, NEW stage, NEW a, NEW m, NEW result, NEW todo,
           KeyNow(p)' = KeyNow(p), owner' = owner,
           work'[p].at = stage, work'[p].attempt = a, work'[p].member = m,
           work'[p].result = result, work'[p].todo = todo,
           stage # "idle",
           stage \in Unappended =>
              \A i \in DOMAIN history' : ~(history'[i].key = KeyNow(p) /\ history'[i].attempt = a),
           stage \in Announcing =>
              \A q \in pending' : ~(q.kind = "observation" /\ q.key = KeyNow(p) /\ q.attempt = a),
           stage = "thrown" => result = "ERROR",
           stage = "published" =>
              [key |-> KeyNow(p), attempt |-> a, result |-> result] \in artifacts',
           stage = "appended" =>
              /\ \E i \in DOMAIN history' :
                    history'[i] = [kind |-> "execution", key |-> KeyNow(p), attempt |-> a, member |-> NoMember,
                                   result |-> result, backed |-> TRUE, run |-> 0]
              /\ \A i \in DOMAIN history' :
                    history'[i].key = KeyNow(p) /\ history'[i].attempt = a => history'[i].run = 0,
           stage = "requested" => Observable(p, a, m)',
           stage \in Unobserved => m \in MembersOf[p] /\ Ran(p, a)' /\ Unreported(p, a, m)',
           stage = "received" =>
              [run |-> owner, key |-> KeyNow(p), attempt |-> a, member |-> m, result |-> result] \in receipts',
           stage \in {"requested", "obsappended"} \cup Unobserved => <<m, a>> \notin todo,
           \A mark \in todo : Observable(p, mark[2], mark[1])'
    PROVE  Working(p)'
  <1>1. stage = "requested" => Observable(p, work[p].attempt, work[p].member)'
    BY DEF Observable, Ran, Unreported, Unannounced
  <1>2. stage \in Unobserved => Ran(p, work[p].attempt)' /\ Unreported(p, work[p].attempt, work[p].member)'
    BY DEF Ran, Unreported
  <1>3. stage \in Unappended => Unrecorded(p)'
    BY DEF Unrecorded
  <1>4. stage = "appended" =>
            /\ \E i \in DOMAIN history' : history'[i] = ExecutionEvent(p, TRUE)'
            /\ \A i \in DOMAIN history' :
                  history'[i].key = KeyNow(p)' /\ history'[i].attempt = work'[p].attempt => history'[i].run = 0
    BY DEF ExecutionEvent
  <1>5. /\ stage \in Announcing =>
              \A q \in pending' :
                  ~(q.kind = "observation" /\ q.key = KeyNow(p)' /\ q.attempt = work'[p].attempt)
        /\ stage = "published" =>
              [key |-> KeyNow(p)', attempt |-> work'[p].attempt, result |-> work'[p].result] \in artifacts'
        /\ stage = "received" =>
              [run |-> owner', key |-> KeyNow(p)', attempt |-> work'[p].attempt,
               member |-> work'[p].member, result |-> work'[p].result] \in receipts'
    OBVIOUS
  <1> QED BY <1>1, <1>2, <1>3, <1>4, <1>5 DEF Working

\* A step of one worker, once what it does to the history is known.
LEMMA WorkerKept ==
    ASSUME HistoryInv, alive, NEW p \in Physicals, UNCHANGED <<sessions, recovery, snapshots>>, Aside(p),
           Working(p)', ChainValid', Decided', FailuresKept', Numbered', eventAlias' # {} => pending' # {}
    PROVE  HKept
  <1>1. TypeOK /\ recovery \in {"none", "retired"} /\ \A r \in Physicals : Working(r)
    BY AliveFacts
  <1>2. \A r \in Physicals : Working(r)'
    BY <1>1, OthersWork
  <1>3. RecoveryInv' BY <1>1 DEF RecoveryInv
  <1> QED BY <1>2, <1>3 DEF HKept

\* The other workers leave a failure awaited as it is.
LEMMA AwaitingStays ==
    ASSUME NEW p \in Physicals, UNCHANGED <<alive, version>>,
           \A r \in Physicals \ {p} : work'[r] = work[r],
           NEW q, NEW m, Awaiting(q, m), ~Reported(q)',
           At(p, Announcing)' /\ q = ExecutionPending(p)' =>
              work'[p].at \in {"executed", "published"} /\ work'[p].result = "FAIL",
           At(p, AnnouncingObservation)' /\ q = ObservationPending(p)' =>
              work'[p].at \in {"examined", "streamed", "received"} /\ work'[p].result = "FAIL"
    PROVE  Awaiting(q, m)'
  <1>1. ASSUME NEW r \in Physicals
        PROVE  /\ At(r, Announcing)' /\ q = ExecutionPending(r)' =>
                      work'[r].at \in {"executed", "published"} /\ work'[r].result = "FAIL"
               /\ At(r, AnnouncingObservation)' /\ q = ObservationPending(r)' =>
                      work'[r].at \in {"examined", "streamed", "received"} /\ work'[r].result = "FAIL"
    <2>1. CASE r = p BY <2>1
    <2>2. CASE r # p
      <3>1. work'[r] = work[r] /\ KeyNow(r)' = KeyNow(r) BY <2>2 DEF KeyNow
      <3> QED BY <3>1 DEF Awaiting, At, ExecutionPending, ObservationPending
    <2> QED BY <2>1, <2>2
  <1>2. Touched(q)' = Touched(q) BY DEF Touched
  <1> QED BY <1>1, <1>2 DEF Awaiting

\* History and pending results of other slots: what a worker still has to observe.
LEMMA ObservableStays ==
    ASSUME TypeOK, NEW p \in Physicals, UNCHANGED <<version, owner>>,
           history' = history \/ \E e \in Event : history' = Append(history, e),
           NEW a, NEW m, Observable(p, a, m),
           \A i \in DOMAIN history' \ DOMAIN history :
              ~(/\ history'[i].key = KeyNow(p) /\ history'[i].attempt = a
                /\ history'[i].member = m /\ history'[i].run = owner),
           [kind |-> "observation", key |-> KeyNow(p), attempt |-> a, member |-> m] \notin pending'
    PROVE  Observable(p, a, m)'
  <1>1. history \in Seq(Event) BY DEF TypeOK
  <1>2. DOMAIN history \subseteq DOMAIN history' /\ \A i \in DOMAIN history : history'[i] = history[i]
    BY <1>1, AppendIndices
  <1>3. KeyNow(p)' = KeyNow(p) BY DEF KeyNow
  <1>4. Ran(p, a)' BY <1>2, <1>3 DEF Observable, Ran
  <1>5. Unreported(p, a, m)' BY <1>2, <1>3 DEF Observable, Unreported
  <1>6. Unannounced(p, a, m)' BY <1>3 DEF Unannounced
  <1> QED BY <1>4, <1>5, <1>6 DEF Observable

\* What an event may be numbered, and what it leaves of the numbers.
LEMMA NumberedStays ==
    ASSUME TypeOK, Numbered, UNCHANGED <<sessions, owner, failedAt>>, attempts <= attempts', attempts' \in Nat,
           \/ history' = history
           \/ \E e \in Event : /\ history' = Append(history, e)
                               /\ e.attempt <= attempts' /\ e.run <= sessions
                               /\ e.kind = "indeterminate" => e.run \in Runs,
           \A q \in pending' \ pending :
              q.attempt <= attempts' /\ (q.kind = "execution" => q.member = NoMember)
    PROVE  Numbered'
  <1>1. /\ history \in Seq(Event) /\ attempts \in Nat /\ sessions \in Nat /\ pending \subseteq Pending
        /\ failedAt \in [Members -> Nat]
    BY DEF TypeOK
  <1>2. \A i \in DOMAIN history : history[i].attempt \in Nat
    <2>1. \A i \in DOMAIN history : history[i] \in Event BY <1>1
    <2> QED BY <2>1 DEF Event
  <1>3. \A q \in pending : q.attempt \in Nat BY <1>1 DEF Pending
  <1> DEFINE Within(i) == /\ history'[i].attempt <= attempts' /\ history'[i].run <= sessions
                          /\ history'[i].kind = "indeterminate" => history'[i].run \in Runs
  <1>4. \A i \in DOMAIN history' : Within(i)
    <2>1. CASE history' = history
      BY <1>1, <1>2, <2>1 DEF Numbered
    <2>2. ASSUME NEW e \in Event, history' = Append(history, e), e.attempt <= attempts', e.run <= sessions,
                 e.kind = "indeterminate" => e.run \in Runs
          PROVE  \A i \in DOMAIN history' : Within(i)
      <3>1. /\ DOMAIN history' = DOMAIN history \cup {Len(history) + 1}
            /\ history'[Len(history) + 1] = e
            /\ \A i \in DOMAIN history : history'[i] = history[i]
        BY <1>1, <2>2, AppendIndices
      <3> QED BY <1>1, <1>2, <2>2, <3>1 DEF Numbered
    <2> QED BY <2>1, <2>2
  <1>5. Len(history) \in Nat /\ Len(history') \in Nat /\ Len(history) <= Len(history')
    BY <1>1
  <1>6. \A q \in pending' : q.attempt <= attempts' /\ (q.kind = "execution" => q.member = NoMember)
    BY <1>1, <1>3 DEF Numbered
  <1>7. \A m \in Members : failedAt'[m] <= Len(history') + 1
    BY <1>1, <1>5 DEF Numbered
  <1> QED BY <1>4, <1>6, <1>7 DEF Numbered

LEMMA BeginExecutionRecords ==
    ASSUME HistoryInv, NEW p \in Physicals, BeginExecution(p)
    PROVE  HKept
  <1>1. /\ alive /\ TypeOK /\ ChainValid /\ RecoveryInv /\ Decided /\ Numbered /\ FailuresKept
        /\ recovery \in {"none", "retired"} /\ Working(p)
    BY AliveFacts DEF BeginExecution, At
  <1> DEFINE n == attempts + 1
             new == [kind |-> "execution", key |-> KeyNow(p), attempt |-> n, member |-> NoMember]
  <1>2. /\ attempts' = n /\ pending' = pending \cup {new}
        /\ UNCHANGED <<history, eventAlias, artifacts, receipts, owner, snapshots, version, sessions,
                       alive, recovery, failedAt>>
        /\ Set(p, Invoked(p, "pending", n, "PASS", TRUE))
    BY DEF BeginExecution
  <1>3. attempts \in Nat /\ n \in Nat /\ attempts < n /\ history \in Seq(Event) /\ pending \subseteq Pending
    BY <1>1 DEF TypeOK
  <1>4. /\ work'[p].at = "pending" /\ work'[p].attempt = n /\ work'[p].member = work[p].member
        /\ work'[p].result = "PASS" /\ work'[p].todo = work[p].todo
        /\ \A r \in Physicals \ {p} : work'[r] = work[r]
    BY <1>1, <1>2, WorkerWrites DEF Invoked
  <1>5. /\ \A i \in DOMAIN history : history[i].attempt # n
        /\ \A q \in pending : q.attempt # n
    <2>1. \A i \in DOMAIN history : history[i] \in Event BY <1>3
    <2>2. \A i \in DOMAIN history : history[i].attempt \in Nat BY <2>1 DEF Event
    <2>3. \A q \in pending : q.attempt \in Nat BY <1>3 DEF Pending
    <2> QED BY <1>1, <1>3, <2>2, <2>3 DEF Numbered
  <1> HIDE DEF n
  <1>6. KeyNow(p)' = KeyNow(p) BY <1>2 DEF KeyNow
  <1>7. Aside(p)
    BY <1>2, <1>4 DEF Aside
  <1>8. Working(p)'
    <2>1. \A mark \in work[p].todo : Observable(p, mark[2], mark[1])'
      <3>1. ASSUME NEW mark \in work[p].todo PROVE Observable(p, mark[2], mark[1])'
        <4>1. Observable(p, mark[2], mark[1]) BY <1>1 DEF Working
        <4>2. [kind |-> "observation", key |-> KeyNow(p), attempt |-> mark[2], member |-> mark[1]] \notin pending'
          BY <1>2, <4>1 DEF Observable, Unannounced
        <4> QED BY <1>1, <1>2, <4>1, <4>2, ObservableStays
      <3> QED BY <3>1
    <2>2. \A q \in pending' : ~(q.kind = "observation" /\ q.key = KeyNow(p) /\ q.attempt = n)
      BY <1>2, <1>5
    <2>3. PICK a, m, todo : a = n /\ m = work[p].member /\ todo = work[p].todo
      OBVIOUS
    <2>4. \A i \in DOMAIN history' : ~(history'[i].key = KeyNow(p) /\ history'[i].attempt = a)
      BY <1>2, <1>5, <2>3
    <2>5. /\ work'[p].at = "pending" /\ work'[p].attempt = a /\ work'[p].member = m
          /\ work'[p].result = "PASS" /\ work'[p].todo = todo
          /\ \A mark \in todo : Observable(p, mark[2], mark[1])'
      BY <1>4, <2>1, <2>3
    <2>6. \A q \in pending' : ~(q.kind = "observation" /\ q.key = KeyNow(p) /\ q.attempt = a)
      BY <2>2, <2>3
    <2>7. owner' = owner BY <1>2
    <2> QED
      BY <1>6, <2>4, <2>5, <2>6, <2>7, WorkingStep, Zenon DEF Unobserved
  <1>9. FailuresKept'
    <2>1. ASSUME NEW m \in Members, NEW q \in pending, Awaiting(q, m) PROVE Awaiting(q, m)'
      <3>1. ~Reported(q)' BY <1>2, <2>1 DEF Awaiting, Reported
      <3>2. q # ExecutionPending(p)' BY <1>4, <1>5 DEF ExecutionPending
      <3>3. ~At(p, AnnouncingObservation)' BY <1>4 DEF At, AnnouncingObservation
      <3> QED BY <1>2, <1>4, <2>1, <3>1, <3>2, <3>3, AwaitingStays
    <2> QED BY <1>1, <1>2, <2>1, FailuresStep
  <1>a. ChainValid' /\ Decided' BY <1>1, <1>2 DEF ChainValid, Backed, Decided
  <1>b. Numbered' BY <1>1, <1>2, <1>3, NumberedStays
  <1>c. eventAlias' # {} => pending' # {} BY <1>2
  <1> QED BY <1>1, <1>2, <1>7, <1>8, <1>9, <1>a, <1>b, <1>c, WorkerKept

LEMMA PublishExecutionRecords ==
    ASSUME HistoryInv, NEW p \in Physicals, PublishExecution(p)
    PROVE  HKept
  <1>1. /\ alive /\ TypeOK /\ ChainValid /\ RecoveryInv /\ Decided /\ Numbered /\ FailuresKept
        /\ recovery \in {"none", "retired"} /\ Working(p)
    BY AliveFacts DEF PublishExecution, At
  <1>2. PICK a, result, todo, m :
           /\ a = work[p].attempt /\ result = work[p].result /\ todo = work[p].todo /\ m = work[p].member
    OBVIOUS
  <1>3. PICK x : x = [key |-> KeyNow(p), attempt |-> a, result |-> result]
    OBVIOUS
  <1>4. /\ work[p].at = "executed" /\ artifacts' = artifacts \cup {x} /\ Goto(p, "published")
        /\ UNCHANGED <<history, eventAlias, receipts, owner, pending, attempts, snapshots, version, sessions,
                       alive, recovery, failedAt>>
    BY <1>2, <1>3 DEF PublishExecution, At, counters
  <1>5. /\ work'[p].at = "published" /\ work'[p].attempt = a /\ work'[p].member = m
        /\ work'[p].result = result /\ work'[p].todo = todo
        /\ \A r \in Physicals \ {p} : work'[r] = work[r]
    BY <1>1, <1>2, <1>4, WorkerWrites DEF Goto, Invoked
  <1>6. KeyNow(p)' = KeyNow(p) BY <1>4 DEF KeyNow
  <1>7. Aside(p)
    BY <1>4, <1>5 DEF Aside
  <1>u. \A i \in DOMAIN history : ~(history[i].key = KeyNow(p) /\ history[i].attempt = a)
    BY <1>1, <1>2, <1>4 DEF Working, Unappended, Unrecorded
  <1>8. Working(p)'
    <2>1. \A mark \in todo : Observable(p, mark[2], mark[1])'
      <3>1. ASSUME NEW mark \in todo PROVE Observable(p, mark[2], mark[1])'
        <4>1. Observable(p, mark[2], mark[1]) BY <1>1, <1>2 DEF Working
        <4>2. [kind |-> "observation", key |-> KeyNow(p), attempt |-> mark[2], member |-> mark[1]] \notin pending'
          BY <1>4, <4>1 DEF Observable, Unannounced
        <4> QED BY <1>1, <1>4, <4>1, <4>2, ObservableStays
      <3> QED BY <3>1
    <2>2. \A q \in pending' : ~(q.kind = "observation" /\ q.key = KeyNow(p) /\ q.attempt = a)
      BY <1>1, <1>2, <1>4 DEF Working, Announcing
    <2>3. [key |-> KeyNow(p), attempt |-> a, result |-> result] \in artifacts'
      BY <1>3, <1>4
    <2> QED
      BY <1>4, <1>5, <1>6, <1>u, <2>1, <2>2, <2>3, WorkingStep, Zenon DEF Unobserved
  <1>9. FailuresKept'
    <2>1. ExecutionPending(p)' = ExecutionPending(p)
      BY <1>2, <1>5, <1>6 DEF ExecutionPending
    <2>2. ASSUME NEW m1 \in Members, NEW q \in pending, Awaiting(q, m1) PROVE Awaiting(q, m1)'
      <3>1. ~Reported(q)' BY <1>4, <2>2 DEF Awaiting, Reported
      <3>2. q = ExecutionPending(p)' => work'[p].result = "FAIL"
        <4>1. At(p, Announcing) BY <1>1, <1>4 DEF At, Announcing
        <4> QED BY <1>2, <1>5, <2>1, <2>2, <4>1 DEF Awaiting
      <3>3. ~At(p, AnnouncingObservation)' BY <1>5 DEF At, AnnouncingObservation
      <3> QED BY <1>4, <1>5, <2>2, <3>1, <3>2, <3>3, AwaitingStays
    <2> QED BY <1>1, <1>4, <2>2, FailuresStep
  <1>a. Grows BY <1>4 DEF Grows
  <1>b. ChainValid'
    <2>1. \A i \in DOMAIN history : history[i].kind = "indeterminate" => history[i].run \in Runs
      BY <1>1 DEF Numbered
    <2> QED BY <1>1, <1>4, <1>a, <2>1, ChainStep
  <1>c. Decided'
    <2>1. AttemptEvents(history, x) = {} BY <1>3, <1>u DEF AttemptEvents
    <2> QED BY <1>1, <1>4, <2>1 DEF Decided
  <1>d. Numbered'
    BY <1>1, <1>4 DEF Numbered
  <1>e. eventAlias' # {} => pending' # {} BY <1>1, <1>4 DEF RecoveryInv
  <1> QED BY <1>1, <1>4, <1>7, <1>8, <1>9, <1>b, <1>c, <1>d, <1>e, WorkerKept

\* A worker appends the event e of its invocation and goes on to a stage.
Appends(p, stage, e) ==
    /\ Append1(e) /\ Goto(p, stage)
    /\ UNCHANGED <<artifacts, receipts, owner, pending, attempts, snapshots, version, sessions,
                   alive, recovery, failedAt>>

\* The pending result an append answers was of a failure only if the event is.
LEMMA AppendFailures ==
    ASSUME HistoryInv, alive, NEW p \in Physicals, NEW stage, NEW e \in Event, Appends(p, stage, e),
           \/ /\ work[p].at = "published" /\ stage = "appended" /\ e = ExecutionEvent(p, TRUE)
           \/ /\ work[p].at = "thrown" /\ stage = "nullified" /\ e = ExecutionEvent(p, FALSE)
           \/ /\ work[p].at = "received" /\ stage = "obsappended" /\ e = ObservationEvent(p)
    PROVE  FailuresKept'
  <1>1. TypeOK /\ Numbered /\ FailuresKept /\ Working(p) /\ owner \in Runs
    BY AliveFacts
  <1>2. history \in Seq(Event) /\ pending \subseteq Pending /\ history' = Append(history, e)
    BY <1>1 DEF TypeOK, Appends, Append1
  <1>3. /\ DOMAIN history' = DOMAIN history \cup {Len(history) + 1}
        /\ history'[Len(history) + 1] = e
        /\ \A i \in DOMAIN history : history'[i] = history[i]
    BY <1>2, AppendIndices
  <1>4. /\ work'[p].at = stage /\ work'[p].attempt = work[p].attempt /\ work'[p].member = work[p].member
        /\ \A r \in Physicals \ {p} : work'[r] = work[r]
        /\ owner' = owner /\ KeyNow(p)' = KeyNow(p) /\ version' = version /\ failedAt' = failedAt
        /\ pending' = pending /\ alive' = alive
    BY <1>1, WorkerWrites DEF Appends, Goto, Invoked, KeyNow
  <1>5. /\ ExecutionPending(p)' = ExecutionPending(p) /\ ObservationPending(p)' = ObservationPending(p)
    BY <1>4 DEF ExecutionPending, ObservationPending
  <1>6. work[p].at = "received" => work[p].member \in Members
    BY <1>1, HistoryAssumption DEF Working, Unobserved
  <1>7. owner # 0 /\ NoMember \notin Members BY <1>1, HistoryAssumption
  <1> DEFINE Own(q) == \/ work[p].at = "published" /\ q = ExecutionPending(p)
                       \/ work[p].at = "thrown" /\ q = ExecutionPending(p)
                       \/ work[p].at = "received" /\ q = ObservationPending(p)
\* Only the pending result of p itself is reported by e.
  <1>8. ASSUME NEW q \in pending, ~Reported(q), Reported(q)'
        PROVE  Own(q) /\ e.key = q.key /\ e.member = q.member
    <2>1. /\ e.key = q.key /\ e.attempt = q.attempt /\ e.member = q.member
          /\ q.kind = "observation" => e.run = owner
      <3>1. PICK i \in DOMAIN history' :
               /\ history'[i].key = q.key /\ history'[i].attempt = q.attempt /\ history'[i].member = q.member
               /\ q.kind = "observation" => history'[i].run = owner
        BY <1>4, <1>8 DEF Reported
      <3>2. i \notin DOMAIN history BY <1>3, <1>8, <3>1 DEF Reported
      <3> QED BY <1>3, <3>1, <3>2
    <2>2. /\ q.kind \in {"execution", "observation"}
          /\ q = [kind |-> q.kind, key |-> q.key, attempt |-> q.attempt, member |-> q.member]
      BY <1>2 DEF Pending
    <2>3. CASE work[p].at = "received" /\ e = ObservationEvent(p)
      <3>1. e.member \in Members BY <1>6, <2>3 DEF ObservationEvent
      <3>2. q.kind # "execution" BY <1>1, <1>7, <2>1, <3>1 DEF Numbered
      <3> QED BY <2>1, <2>2, <2>3, <3>2 DEF ObservationEvent, ObservationPending
    <2>4. CASE work[p].at \in {"published", "thrown"} /\ e.run = 0 /\ e.member = NoMember
               /\ e.key = KeyNow(p) /\ e.attempt = work[p].attempt
      <3>1. q.kind = "execution" BY <1>7, <2>1, <2>2, <2>4
      <3> QED BY <2>1, <2>2, <2>4, <3>1 DEF ExecutionPending
    <2> QED BY <2>3, <2>4 DEF ExecutionEvent
  <1>9. ASSUME NEW m \in Members, NEW q \in pending, Awaiting(q, m)
        PROVE  Barred(m)' \/ Awaiting(q, m)'
    <2>1. CASE Reported(q)'
      <3>1. Own(q) /\ e.key = q.key /\ e.member = q.member BY <1>8, <1>9, <2>1 DEF Awaiting
      <3>2. work[p].at \in {"published", "received"} /\ work[p].result = "FAIL"
        BY <1>9, <3>1 DEF Awaiting, At, Announcing, AnnouncingObservation
      <3>3. e.result = "FAIL"
        BY <3>2 DEF ExecutionEvent, ObservationEvent
      <3>4. Touched(e) = Touched(q) BY <3>1 DEF Touched
      <3>5. BarrierApplies(e, m) BY <1>9, <3>3, <3>4 DEF Awaiting, BarrierApplies
      <3>6. Len(history) + 1 >= failedAt[m] BY <1>1, <1>2 DEF Numbered, TypeOK
      <3> QED BY <1>3, <1>4, <3>5, <3>6 DEF Barred
    <2>2. CASE ~Reported(q)'
      <3>1. ~Own(q)
        <4>1. ASSUME Own(q) PROVE Reported(q)'
          BY <1>3, <1>4, <4>1 DEF Reported, ExecutionPending, ObservationPending, ExecutionEvent, ObservationEvent
        <4> QED BY <2>2, <4>1
      <3>2. At(p, Announcing)' => q # ExecutionPending(p)'
        BY <1>4, <1>5, <3>1 DEF At, Announcing
      <3>3. At(p, AnnouncingObservation)' => q # ObservationPending(p)'
        BY <1>4, <1>5, <3>1 DEF At, AnnouncingObservation
      <3> QED BY <1>4, <1>9, <2>2, <3>2, <3>3, AwaitingStays
    <2> QED BY <2>1, <2>2
  <1> QED BY <1>1, <1>2, <1>4, <1>9, FailuresStep

\* What an append of a worker leaves, once what it is of is known.
LEMMA AppendKept ==
    ASSUME HistoryInv, alive, NEW p \in Physicals, NEW stage, NEW e \in Event, Appends(p, stage, e),
           \/ /\ work[p].at = "published" /\ stage = "appended" /\ e = ExecutionEvent(p, TRUE)
           \/ /\ work[p].at = "thrown" /\ stage = "nullified" /\ e = ExecutionEvent(p, FALSE)
           \/ /\ work[p].at = "received" /\ stage = "obsappended" /\ e = ObservationEvent(p),
           Backed(e), Working(p)', pending # {}, e.attempt <= attempts,
           \A x \in artifacts : AboutArtifact(e, x) => e.result = x.result
    PROVE  HKept
  <1>1. /\ TypeOK /\ ChainValid /\ Decided /\ Numbered /\ owner \in Runs
    BY AliveFacts
  <1>2. Append1(e) /\ history' = Append(history, e)
        /\ UNCHANGED <<artifacts, receipts, owner, pending, attempts, snapshots, version, sessions,
                     alive, recovery, failedAt>>
    BY DEF Appends, Append1
  <1>3. /\ e.key = KeyNow(p) /\ e.kind # "indeterminate" /\ e.run \in {0, owner}
    BY DEF ExecutionEvent, ObservationEvent
  <1>4. \A r \in Physicals \ {p} : work'[r] = work[r]
    BY <1>1, WorkerWrites DEF Appends, Goto
  <1>5. Aside(p) BY <1>2, <1>3, <1>4 DEF Aside
  <1>6. Grows BY <1>2 DEF Grows
  <1>7. ChainValid'
    <2>1. Backed(e)' BY <1>3, <1>6, BackedStays
    <2>2. \A i \in DOMAIN history : history[i].kind = "indeterminate" => history[i].run \in Runs
      BY <1>1 DEF Numbered
    <2> QED BY <1>1, <1>2, <1>6, <2>1, <2>2, ChainStep
  <1>8. Decided' BY <1>1, <1>2, DecidedStep
  <1>9. Numbered'
    <2>1. attempts \in Nat /\ sessions \in Nat /\ owner <= sessions /\ 0 <= sessions
      BY <1>1 DEF TypeOK, Numbered
    <2> QED BY <1>1, <1>2, <1>3, <2>1, NumberedStays
  <1>a. FailuresKept' BY AppendFailures
  <1> QED BY <1>2, <1>5, <1>7, <1>8, <1>9, <1>a, WorkerKept

LEMMA ExecutionEventRecords ==
    ASSUME HistoryInv, NEW p \in Physicals, LinkExecutionEvent(p) \/ LinkNullEvent(p)
    PROVE  HKept
  <1>1. /\ alive /\ TypeOK /\ Numbered /\ Working(p) /\ InvocationsAnnounced /\ FreshAttempts
        /\ owner \in Runs /\ owner # 0
    BY AliveFacts, HistoryAssumption DEF LinkExecutionEvent, LinkNullEvent, At
  <1>2. PICK stage \in {"appended", "nullified"}, e \in Event :
           /\ Appends(p, stage, e)
           /\ \/ /\ work[p].at = "published" /\ stage = "appended" /\ e = ExecutionEvent(p, TRUE)
              \/ /\ work[p].at = "thrown" /\ stage = "nullified" /\ e = ExecutionEvent(p, FALSE)
    <2>1. ASSUME LinkExecutionEvent(p)
          PROVE  Appends(p, "appended", ExecutionEvent(p, TRUE)) /\ work[p].at = "published"
      BY <2>1 DEF LinkExecutionEvent, At, Appends, counters
    <2>2. ASSUME LinkNullEvent(p)
          PROVE  Appends(p, "nullified", ExecutionEvent(p, FALSE)) /\ work[p].at = "thrown"
      BY <2>2 DEF LinkNullEvent, At, Appends, counters
    <2>3. ExecutionEvent(p, TRUE) \in Event /\ ExecutionEvent(p, FALSE) \in Event
      BY <1>1, EventsTyped
    <2>4. CASE LinkExecutionEvent(p)
      <3>1. PICK e \in Event : e = ExecutionEvent(p, TRUE) BY <2>3
      <3>2. Appends(p, "appended", e) BY <2>1, <2>4, <3>1 DEF Appends
      <3> QED BY <2>1, <2>4, <3>1, <3>2
    <2>5. CASE LinkNullEvent(p)
      <3>1. PICK e \in Event : e = ExecutionEvent(p, FALSE) BY <2>3
      <3>2. Appends(p, "nullified", e) BY <2>2, <2>5, <3>1 DEF Appends
      <3> QED BY <2>2, <2>5, <3>1, <3>2
    <2> QED BY <2>4, <2>5
  <1>3. PICK a, result, todo, m :
           /\ a = work[p].attempt /\ result = work[p].result /\ todo = work[p].todo /\ m = work[p].member
    OBVIOUS
  <1>4. /\ work'[p].at = stage /\ work'[p].attempt = a /\ work'[p].member = m
        /\ work'[p].result = result /\ work'[p].todo = todo
    BY <1>1, <1>2, <1>3, WorkerWrites DEF Appends, Goto, Invoked
  <1>5. /\ UNCHANGED <<owner, pending, version>> /\ history \in Seq(Event) /\ history' = Append(history, e)
    BY <1>1, <1>2 DEF Appends, Append1, TypeOK
  <1>6. /\ DOMAIN history' = DOMAIN history \cup {Len(history) + 1}
        /\ history'[Len(history) + 1] = e
        /\ \A i \in DOMAIN history : history'[i] = history[i]
    BY <1>5, AppendIndices
  <1>7. KeyNow(p)' = KeyNow(p) BY <1>5 DEF KeyNow
  <1>8. /\ e.kind = "execution" /\ e.key = KeyNow(p) /\ e.attempt = a /\ e.member = NoMember
        /\ e.result = result /\ e.run = 0
    BY <1>2, <1>3 DEF ExecutionEvent
  <1>9. Working(p)'
    <2>1. \A mark \in todo : Observable(p, mark[2], mark[1])'
      <3>1. ASSUME NEW mark \in todo PROVE Observable(p, mark[2], mark[1])'
        <4>1. Observable(p, mark[2], mark[1]) BY <1>1, <1>3 DEF Working
        <4>2. [kind |-> "observation", key |-> KeyNow(p), attempt |-> mark[2], member |-> mark[1]] \notin pending'
          BY <1>5, <4>1 DEF Observable, Unannounced
        <4>3. \A i \in DOMAIN history' \ DOMAIN history : history'[i].run # owner
          BY <1>1, <1>6, <1>8
        <4> QED BY <1>1, <1>5, <4>1, <4>2, <4>3, ObservableStays
      <3> QED BY <3>1
    <2>2. \A q \in pending' : ~(q.kind = "observation" /\ q.key = KeyNow(p) /\ q.attempt = a)
      BY <1>1, <1>2, <1>3, <1>5 DEF Working, Announcing
    <2>3. \A i \in DOMAIN history : ~(history[i].key = KeyNow(p) /\ history[i].attempt = a)
      BY <1>1, <1>2, <1>3 DEF Working, Unappended, Unrecorded
    <2>4. stage = "appended" =>
            /\ \E i \in DOMAIN history' :
                  history'[i] = [kind |-> "execution", key |-> KeyNow(p), attempt |-> a, member |-> NoMember,
                                 result |-> result, backed |-> TRUE, run |-> 0]
            /\ \A i \in DOMAIN history' :
                  history'[i].key = KeyNow(p) /\ history'[i].attempt = a => history'[i].run = 0
      <3>1. stage = "appended" =>
               e = [kind |-> "execution", key |-> KeyNow(p), attempt |-> a, member |-> NoMember,
                    result |-> result, backed |-> TRUE, run |-> 0]
        BY <1>2, <1>3 DEF ExecutionEvent
      <3> QED BY <1>6, <1>8, <2>3, <3>1
    <2>5. stage \in {"appended", "nullified"} BY <1>2
    <2>6. owner' = owner BY <1>5
    <2>7. CASE stage = "appended"
      <3>1. work'[p].at = "appended" BY <1>4, <2>7
      <3>2. /\ \E i \in DOMAIN history' :
                  history'[i] = [kind |-> "execution", key |-> KeyNow(p), attempt |-> a, member |-> NoMember,
                                 result |-> result, backed |-> TRUE, run |-> 0]
            /\ \A i \in DOMAIN history' :
                  history'[i].key = KeyNow(p) /\ history'[i].attempt = a => history'[i].run = 0
        BY <2>4, <2>7
      <3>3. ExecutionEvent(p, TRUE)' =
               [kind |-> "execution", key |-> KeyNow(p), attempt |-> a, member |-> NoMember,
                result |-> result, backed |-> TRUE, run |-> 0]
        BY <1>4, <1>7 DEF ExecutionEvent
      <3>4. /\ work'[p].attempt = a /\ work'[p].todo = todo
        BY <1>4
      <3> QED BY <1>7, <2>1, <2>2, <3>1, <3>2, <3>3, <3>4 DEF Working, Unobserved, Unappended
    <2>8. CASE stage = "nullified"
      <3>1. work'[p].at = "nullified" BY <1>4, <2>8
      <3> QED BY <1>4, <1>7, <2>1, <2>2, <2>6, <3>1, WorkingStep, Zenon DEF Unobserved, Unappended
    <2> QED BY <2>5, <2>7, <2>8
  <1>a. pending # {} /\ e.attempt <= attempts
    BY <1>1, <1>2, <1>3, <1>8 DEF InvocationsAnnounced, FreshAttempts, At, Announcing
  <1>b. Backed(e)
    <2>1. CASE e = ExecutionEvent(p, FALSE) BY <2>1 DEF ExecutionEvent, Backed
    <2>2. CASE work[p].at = "published" /\ e = ExecutionEvent(p, TRUE)
      <3>1. [key |-> KeyNow(p), attempt |-> work[p].attempt, result |-> work[p].result] \in artifacts
        BY <1>1, <2>2 DEF Working
      <3> QED BY <2>2, <3>1 DEF ExecutionEvent, Backed
    <2> QED BY <1>2, <2>1, <2>2
  <1>c. \A x \in artifacts : AboutArtifact(e, x) => e.result = x.result
    BY <1>1, <1>2, <1>3, <1>8 DEF FreshAttempts, At, Announcing, SameAttempt, AboutArtifact
  <1> QED BY <1>1, <1>2, <1>9, <1>a, <1>b, <1>c, AppendKept

LEMMA ObservationEventRecords ==
    ASSUME HistoryInv, NEW p \in Physicals, LinkObservationEvent(p)
    PROVE  HKept
  <1>1. /\ alive /\ TypeOK /\ Numbered /\ Working(p) /\ InvocationsAnnounced
        /\ owner \in Runs /\ owner # 0
    BY AliveFacts, HistoryAssumption DEF LinkObservationEvent, At
  <1>2. PICK e \in Event :
           Appends(p, "obsappended", e) /\ work[p].at = "received" /\ e = ObservationEvent(p)
    BY <1>1, EventsTyped DEF LinkObservationEvent, At, Appends, counters
  <1>3. PICK a, result, todo, m :
           /\ a = work[p].attempt /\ result = work[p].result /\ todo = work[p].todo /\ m = work[p].member
    OBVIOUS
  <1>4. /\ work'[p].at = "obsappended" /\ work'[p].attempt = a /\ work'[p].member = m
        /\ work'[p].result = result /\ work'[p].todo = todo
    BY <1>1, <1>2, <1>3, WorkerWrites DEF Appends, Goto, Invoked
  <1>5. /\ UNCHANGED <<owner, pending, version>> /\ history \in Seq(Event) /\ history' = Append(history, e)
    BY <1>1, <1>2 DEF Appends, Append1, TypeOK
  <1>6. /\ DOMAIN history' = DOMAIN history \cup {Len(history) + 1}
        /\ history'[Len(history) + 1] = e
        /\ \A i \in DOMAIN history : history'[i] = history[i]
    BY <1>5, AppendIndices
  <1>7. KeyNow(p)' = KeyNow(p) BY <1>5 DEF KeyNow
  <1>8. /\ e.kind = "observation" /\ e.key = KeyNow(p) /\ e.attempt = a /\ e.member = m
        /\ e.result = result /\ e.run = owner
    BY <1>2, <1>3 DEF ObservationEvent
  <1>9. /\ <<m, a>> \notin todo /\ todo \subseteq Members \X Nat
        /\ m \in MembersOf[p] /\ Ran(p, a)
    BY <1>1, <1>2, <1>3, PartsTyped DEF Working, Unobserved
  <1>a. Working(p)'
    <2>1. \A mark \in todo : Observable(p, mark[2], mark[1])'
      <3>1. ASSUME NEW mark \in todo PROVE Observable(p, mark[2], mark[1])'
        <4>1. Observable(p, mark[2], mark[1]) BY <1>1, <1>3 DEF Working
        <4>2. [kind |-> "observation", key |-> KeyNow(p), attempt |-> mark[2], member |-> mark[1]] \notin pending'
          BY <1>5, <4>1 DEF Observable, Unannounced
        <4>3. ~(mark[1] = m /\ mark[2] = a)
          <5>1. mark = <<mark[1], mark[2]>> BY <1>9
          <5> QED BY <1>9, <5>1
        <4>4. \A i \in DOMAIN history' \ DOMAIN history :
                 ~(/\ history'[i].key = KeyNow(p) /\ history'[i].attempt = mark[2]
                   /\ history'[i].member = mark[1] /\ history'[i].run = owner)
          BY <1>6, <1>8, <4>3
        <4> QED BY <1>1, <1>5, <4>1, <4>2, <4>4, ObservableStays
      <3> QED BY <3>1
    <2> QED BY <1>4, <1>5, <1>7, <1>9, <2>1, WorkingStep, Zenon DEF Unobserved, Unappended, Announcing
  <1>b. pending # {}
    BY <1>1, <1>2 DEF InvocationsAnnounced, At, AnnouncingObservation
  <1>c. e.attempt <= attempts
    <2>1. PICK i \in DOMAIN history : history[i].attempt = a BY <1>9 DEF Ran
    <2> QED BY <1>1, <1>8, <2>1 DEF Numbered
  <1>d. Backed(e)
    BY <1>1, <1>2 DEF Working, ObservationEvent, Backed
  <1>e. \A x \in artifacts : AboutArtifact(e, x) => e.result = x.result
    BY <1>8 DEF AboutArtifact
  <1> QED BY <1>1, <1>2, <1>a, <1>b, <1>c, <1>d, <1>e, AppendKept

\* A worker that clears its pending result, whose event is durable, and turns on.
LEMMA SettlesKept ==
    ASSUME HistoryInv, alive, NEW p \in Physicals,
           UNCHANGED <<history, eventAlias, artifacts, receipts, owner, attempts, snapshots, version,
                       sessions, alive, recovery, failedAt>>,
           eventAlias = {}, NEW stage \in {"observing", "done"}, NEW todo, Set(p, Between(stage, todo)),
           NEW own, own.key = KeyNow(p), pending' = pending \/ pending' = pending \ {own},
           \A m \in Members : ~Awaiting(own, m),
           \A mark \in todo : Observable(p, mark[2], mark[1])
    PROVE  HKept
  <1>1. /\ TypeOK /\ ChainValid /\ RecoveryInv /\ Decided /\ Numbered /\ FailuresKept
    BY AliveFacts
  <1>2. /\ work'[p].at = stage /\ work'[p].todo = todo
        /\ \A r \in Physicals \ {p} : work'[r] = work[r]
    BY <1>1, WorkerWrites DEF Between
  <1>3. pending' \subseteq pending OBVIOUS
  <1>4. Aside(p) BY <1>2, <1>3 DEF Aside
  <1>5. \A mark \in todo : Observable(p, mark[2], mark[1])'
    <2>1. ASSUME NEW mark \in todo PROVE Observable(p, mark[2], mark[1])'
      <3>1. [kind |-> "observation", key |-> KeyNow(p), attempt |-> mark[2], member |-> mark[1]] \notin pending'
        BY <1>3 DEF Observable, Unannounced
      <3> QED BY <1>1, <3>1, ObservableStays
    <2> QED BY <2>1
  <1>6. Working(p)'
    BY <1>2, <1>5 DEF Working, Announcing, Unappended, Unobserved
  <1>7. FailuresKept'
    <2>1. ASSUME NEW m \in Members, NEW q \in pending, Awaiting(q, m) PROVE q \in pending' /\ Awaiting(q, m)'
      <3>1. q \in pending' BY <2>1
      <3>2. ~Reported(q)' BY <2>1 DEF Awaiting, Reported
      <3>3. ~At(p, Announcing)' /\ ~At(p, AnnouncingObservation)'
        BY <1>2 DEF At, Announcing, AnnouncingObservation
      <3> QED BY <1>2, <2>1, <3>1, <3>2, <3>3, AwaitingStays
    <2> QED BY <1>1, <2>1, FailuresStep
  <1>8. ChainValid' /\ Decided' BY <1>1 DEF ChainValid, Backed, Decided
  <1>9. Numbered' BY <1>1, <1>3 DEF Numbered
  <1> QED BY <1>4, <1>6, <1>7, <1>8, <1>9, WorkerKept

LEMMA SettleRecords ==
    ASSUME HistoryInv, NEW p \in Physicals,
           SettleExecution(p) \/ SettleNull(p) \/ SettleObservation(p)
    PROVE  HKept
  <1>1. /\ alive /\ TypeOK /\ Working(p) /\ owner \in Runs /\ owner # 0
        /\ UNCHANGED <<history, eventAlias, artifacts, receipts, owner, attempts, snapshots, version,
                       sessions, alive, recovery, failedAt>>
        /\ eventAlias = {}
    BY AliveFacts, HistoryAssumption DEF SettleExecution, SettleNull, SettleObservation, At, counters
  <1>2. ExecutionPending(p).key = KeyNow(p) /\ ObservationPending(p).key = KeyNow(p)
    BY DEF ExecutionPending, ObservationPending
  <1>3. CASE SettleExecution(p)
    <2>1. work[p].at = "appended" /\ (pending' = pending \/ pending' = pending \ {ExecutionPending(p)})
      BY <1>3 DEF SettleExecution, At
    <2>2. \A m \in Members : ~Awaiting(ExecutionPending(p), m)
      BY <1>1, <2>1 DEF Awaiting, At, Announcing
    <2>3. CASE work[p].result # "PASS"
      <3>1. Set(p, Between("done", {})) BY <1>3, <2>3 DEF SettleExecution
      <3> QED BY <1>1, <1>2, <2>1, <2>2, <3>1, SettlesKept
    <2>4. CASE work[p].result = "PASS"
      <3> DEFINE todo == MembersOf[p] \X {work[p].attempt}
      <3>1. Set(p, Between("observing", todo)) BY <1>3, <2>4 DEF SettleExecution
      <3>2. Ran(p, work[p].attempt)
        BY <1>1, <2>1, <2>4 DEF Working, Ran, ExecutionEvent
      <3>3. \A m : Unreported(p, work[p].attempt, m)
        BY <1>1, <2>1 DEF Working, Unreported
      <3>4. \A m : Unannounced(p, work[p].attempt, m)
        BY <1>1, <2>1 DEF Working, Unannounced, Announcing
      <3>5. \A mark \in todo : Observable(p, mark[2], mark[1])
        BY <3>2, <3>3, <3>4 DEF Observable
      <3> HIDE DEF todo
      <3> QED BY <1>1, <1>2, <2>1, <2>2, <3>1, <3>5, SettlesKept
    <2> QED BY <2>3, <2>4
  <1>4. CASE SettleNull(p)
    <2>1. work[p].at = "nullified" /\ (pending' = pending \/ pending' = pending \ {ExecutionPending(p)})
      BY <1>4 DEF SettleNull, At
    <2>2. \A m \in Members : ~Awaiting(ExecutionPending(p), m)
      BY <1>1, <2>1 DEF Awaiting, At, Announcing
    <2>3. Set(p, Between("done", {})) BY <1>4 DEF SettleNull
    <2> QED BY <1>1, <1>2, <2>1, <2>2, <2>3, SettlesKept
  <1>5. CASE SettleObservation(p)
    <2>1. work[p].at = "obsappended" /\ pending' = pending \ {ObservationPending(p)}
      BY <1>5 DEF SettleObservation, At
    <2>2. \A m \in Members : ~Awaiting(ObservationPending(p), m)
      BY <1>1, <2>1 DEF Awaiting, At, AnnouncingObservation
    <2>3. Set(p, Between("observing", work[p].todo)) BY <1>5 DEF SettleObservation
    <2>4. \A mark \in work[p].todo : Observable(p, mark[2], mark[1]) BY <1>1 DEF Working
    <2> QED BY <1>1, <1>2, <2>1, <2>2, <2>3, <2>4, SettlesKept
  <1> QED BY <1>3, <1>4, <1>5

LEMMA BeginObservationRecords ==
    ASSUME HistoryInv, NEW p \in Physicals, BeginObservation(p)
    PROVE  HKept
  <1>1. /\ alive /\ TypeOK /\ ChainValid /\ RecoveryInv /\ Decided /\ Numbered /\ FailuresKept /\ Working(p)
        /\ owner # 0
    BY AliveFacts, HistoryAssumption DEF BeginObservation, At
  <1>2. PICK a, m, result, todo :
           a = work[p].attempt /\ m = work[p].member /\ result = work[p].result /\ todo = work[p].todo
    OBVIOUS
  <1>3. PICK new : new = [kind |-> "observation", key |-> KeyNow(p), attempt |-> a, member |-> m]
    OBVIOUS
  <1>4. /\ work[p].at = "requested" /\ pending' = pending \cup {new} /\ Goto(p, "obspending")
        /\ UNCHANGED <<history, eventAlias, artifacts, receipts, owner, attempts, snapshots, version,
                       sessions, alive, recovery, failedAt>>
    BY <1>2, <1>3 DEF BeginObservation, At, counters, ObservationPending
  <1>5. /\ work'[p].at = "obspending" /\ work'[p].attempt = a /\ work'[p].member = m
        /\ work'[p].result = result /\ work'[p].todo = todo
        /\ \A r \in Physicals \ {p} : work'[r] = work[r]
    BY <1>1, <1>2, <1>4, WorkerWrites DEF Goto, Invoked
  <1>6. KeyNow(p)' = KeyNow(p) BY <1>4 DEF KeyNow
  <1>7. Aside(p) BY <1>3, <1>4, <1>5 DEF Aside
  <1>8. Observable(p, a, m) /\ <<m, a>> \notin todo
    BY <1>1, <1>2, <1>4 DEF Working
  <1>9. Working(p)'
    <2>1. \A mark \in todo : Observable(p, mark[2], mark[1])'
      <3>1. ASSUME NEW mark \in todo PROVE Observable(p, mark[2], mark[1])'
        <4>1. Observable(p, mark[2], mark[1]) BY <1>1, <1>2 DEF Working
        <4>2. ~(mark[1] = m /\ mark[2] = a)
          <5>1. mark = <<mark[1], mark[2]>> BY <1>1, <1>2, PartsTyped
          <5> QED BY <1>8, <5>1
        <4>3. [kind |-> "observation", key |-> KeyNow(p), attempt |-> mark[2], member |-> mark[1]] \notin pending'
          BY <1>3, <1>4, <4>1, <4>2 DEF Observable, Unannounced
        <4> QED BY <1>1, <1>4, <4>1, <4>3, ObservableStays
      <3> QED BY <3>1
    <2>2. Ran(p, a)' /\ Unreported(p, a, m)'
      BY <1>4, <1>6, <1>8 DEF Observable, Ran, Unreported
    <2>3. m \in MembersOf[p] BY <1>8 DEF Observable
    <2>4. owner' = owner BY <1>4
    <2> QED
      BY <1>5, <1>6, <1>8, <2>1, <2>2, <2>3, <2>4, WorkingStep, Zenon DEF Unappended, Announcing
  <1>a. FailuresKept'
    <2>1. ASSUME NEW n \in Members, NEW q \in pending, Awaiting(q, n) PROVE Awaiting(q, n)'
      <3>1. ~Reported(q)' BY <1>4, <2>1 DEF Awaiting, Reported
      <3>2. q # ObservationPending(p)'
        BY <1>3, <1>5, <1>6, <1>8 DEF Observable, Unannounced, ObservationPending
      <3>3. ~At(p, Announcing)' BY <1>5 DEF At, Announcing
      <3> QED BY <1>4, <1>5, <2>1, <3>1, <3>2, <3>3, AwaitingStays
    <2> QED BY <1>1, <1>4, <2>1, FailuresStep
  <1>b. ChainValid' /\ Decided' BY <1>1, <1>4 DEF ChainValid, Backed, Decided
  <1>c. Numbered'
    <2>1. a <= attempts
      <3>1. PICK i \in DOMAIN history : history[i].attempt = a BY <1>8 DEF Observable, Ran
      <3> QED BY <1>1, <3>1 DEF Numbered
    <2> QED BY <1>1, <1>3, <1>4, <2>1 DEF Numbered
  <1>d. eventAlias' # {} => pending' # {} BY <1>4
  <1> QED BY <1>1, <1>4, <1>7, <1>9, <1>a, <1>b, <1>c, <1>d, WorkerKept

LEMMA LinkReceiptRecords ==
    ASSUME HistoryInv, NEW p \in Physicals, LinkReceipt(p)
    PROVE  HKept
  <1>1. /\ alive /\ TypeOK /\ ChainValid /\ RecoveryInv /\ Decided /\ Numbered /\ FailuresKept /\ Working(p)
    BY AliveFacts DEF LinkReceipt, At
  <1>2. PICK a, m, result, todo :
           a = work[p].attempt /\ m = work[p].member /\ result = work[p].result /\ todo = work[p].todo
    OBVIOUS
  <1>3. PICK c : c = [run |-> owner, key |-> KeyNow(p), attempt |-> a, member |-> m, result |-> result]
    OBVIOUS
  <1>4. /\ work[p].at = "streamed" /\ receipts' = receipts \cup {c} /\ Goto(p, "received")
        /\ UNCHANGED <<history, eventAlias, artifacts, pending, owner, attempts, snapshots, version,
                       sessions, alive, recovery, failedAt>>
    BY <1>2, <1>3 DEF LinkReceipt, At, counters
  <1>5. /\ work'[p].at = "received" /\ work'[p].attempt = a /\ work'[p].member = m
        /\ work'[p].result = result /\ work'[p].todo = todo
        /\ \A r \in Physicals \ {p} : work'[r] = work[r]
    BY <1>1, <1>2, <1>4, WorkerWrites DEF Goto, Invoked
  <1>6. KeyNow(p)' = KeyNow(p) BY <1>4 DEF KeyNow
  <1>7. Aside(p) BY <1>4, <1>5 DEF Aside
  <1>8. <<m, a>> \notin todo /\ m \in MembersOf[p] /\ Ran(p, a) /\ Unreported(p, a, m)
    BY <1>1, <1>2, <1>4 DEF Working, Unobserved
  <1>9. Working(p)'
    <2>1. \A mark \in todo : Observable(p, mark[2], mark[1])'
      <3>1. ASSUME NEW mark \in todo PROVE Observable(p, mark[2], mark[1])'
        <4>1. Observable(p, mark[2], mark[1]) BY <1>1, <1>2 DEF Working
        <4>2. [kind |-> "observation", key |-> KeyNow(p), attempt |-> mark[2], member |-> mark[1]] \notin pending'
          BY <1>4, <4>1 DEF Observable, Unannounced
        <4> QED BY <1>1, <1>4, <4>1, <4>2, ObservableStays
      <3> QED BY <3>1
    <2>2. Ran(p, a)' /\ Unreported(p, a, m)'
      BY <1>4, <1>6, <1>8 DEF Ran, Unreported
    <2>3. owner' = owner /\ [run |-> owner, key |-> KeyNow(p), attempt |-> a, member |-> m, result |-> result] \in receipts'
      BY <1>3, <1>4
    <2> QED
      BY <1>5, <1>6, <1>8, <2>1, <2>2, <2>3, WorkingStep, Zenon DEF Unappended, Announcing
  <1>a. FailuresKept'
    <2>1. ASSUME NEW n \in Members, NEW q \in pending, Awaiting(q, n) PROVE Awaiting(q, n)'
      <3>1. ~Reported(q)' BY <1>4, <2>1 DEF Awaiting, Reported
      <3>2. ObservationPending(p)' = ObservationPending(p)
        BY <1>2, <1>5, <1>6 DEF ObservationPending
      <3>3. q = ObservationPending(p)' => work'[p].result = "FAIL"
        <4>1. At(p, AnnouncingObservation) BY <1>1, <1>4 DEF At, AnnouncingObservation
        <4> QED BY <1>2, <1>5, <2>1, <3>2, <4>1 DEF Awaiting
      <3>4. ~At(p, Announcing)' BY <1>5 DEF At, Announcing
      <3> QED BY <1>4, <1>5, <2>1, <3>1, <3>3, <3>4, AwaitingStays
    <2> QED BY <1>1, <1>4, <2>1, FailuresStep
  <1>b. Grows BY <1>4 DEF Grows
  <1>c. ChainValid'
    <2>1. \A i \in DOMAIN history : history[i].kind = "indeterminate" => history[i].run \in Runs
      BY <1>1 DEF Numbered
    <2> QED BY <1>1, <1>4, <1>b, <2>1, ChainStep
  <1>d. Decided' /\ Numbered' BY <1>1, <1>4 DEF Decided, Numbered
  <1>e. eventAlias' # {} => pending' # {} BY <1>1, <1>4 DEF RecoveryInv
  <1> QED BY <1>1, <1>4, <1>7, <1>9, <1>a, <1>c, <1>d, <1>e, WorkerKept

\* A failure that is observed is awaited under the pending result that announced it.
LEMMA EndFailures ==
    ASSUME HistoryInv, alive, NEW p \in Physicals, UNCHANGED Standing,
           \A r \in Physicals \ {p} : work'[r] = work[r],
           NEW result, NEW ms, NEW own \in pending, Observe(result, ms), work'[p].result = result,
           work'[p].attempt = work[p].attempt, work'[p].member = work[p].member,
           ~Reported(own), Touched(own) = ms, \A m : ~Awaiting(own, m),
           \/ /\ work[p].at = "running" /\ work'[p].at = "executed" /\ own = ExecutionPending(p)
           \/ /\ work[p].at = "checking" /\ work'[p].at = "examined" /\ own = ObservationPending(p)
    PROVE  FailuresKept' /\ \A m \in Members : failedAt'[m] <= Len(history) + 1
  <1> USE DEF Standing
  <1>1. TypeOK /\ FailuresKept /\ Numbered BY AliveFacts
  <1>2. /\ ExecutionPending(p)' = ExecutionPending(p) /\ ObservationPending(p)' = ObservationPending(p)
        /\ KeyNow(p)' = KeyNow(p)
    BY DEF ExecutionPending, ObservationPending, KeyNow
  <1>3. \A q : Reported(q)' <=> Reported(q) BY DEF Reported
  <1>4. ASSUME NEW m \in Members
        PROVE  failedAt'[m] = IF result = "FAIL" /\ \E n \in ms : SameAssociation(n, m)
                              THEN Len(history) + 1 ELSE failedAt[m]
    BY DEF Observe
  <1>5. \A m \in Members : failedAt'[m] <= Len(history) + 1
    <2>1. Len(history) \in Nat /\ \A m \in Members : failedAt[m] <= Len(history) + 1
      BY <1>1 DEF TypeOK, Numbered
    <2> QED BY <1>4, <2>1
  <1>6. ASSUME NEW m \in Members, result = "FAIL", \E n \in ms : SameAssociation(n, m)
        PROVE  Awaiting(own, m)'
    <2>1. ASSUME NEW r \in Physicals
          PROVE  /\ At(r, Announcing)' /\ own = ExecutionPending(r)' =>
                        work'[r].at \in {"executed", "published"} /\ work'[r].result = "FAIL"
                 /\ At(r, AnnouncingObservation)' /\ own = ObservationPending(r)' =>
                        work'[r].at \in {"examined", "streamed", "received"} /\ work'[r].result = "FAIL"
      <3>1. CASE r = p
        BY <1>2, <1>6, <3>1 DEF At, Announcing, AnnouncingObservation
      <3>2. CASE r # p
        <4>1. KeyNow(r)' # KeyNow(p) BY <1>2, <3>2, SlotsDiffer DEF KeyNow
        <4>2. own.key = KeyNow(p) BY DEF ExecutionPending, ObservationPending
        <4>3. ExecutionPending(r)'.key = KeyNow(r)' /\ ObservationPending(r)'.key = KeyNow(r)'
          BY DEF ExecutionPending, ObservationPending
        <4> QED BY <4>1, <4>2, <4>3
      <3> QED BY <3>1, <3>2
    <2>2. Touched(own)' = ms BY DEF Touched
    <2> QED BY <1>3, <1>6, <2>1, <2>2 DEF Awaiting
  <1>7. ASSUME NEW m \in Members, NEW q \in pending, Awaiting(q, m) PROVE Awaiting(q, m)'
    <2>1. q # own BY <1>7
    <2>2. At(p, Announcing)' => q # ExecutionPending(p)'
      BY <1>2, <2>1 DEF At, Announcing
    <2>3. At(p, AnnouncingObservation)' => q # ObservationPending(p)'
      BY <1>2, <2>1 DEF At, AnnouncingObservation
    <2>4. ~Reported(q)' BY <1>3, <1>7 DEF Awaiting
    <2> QED BY <1>7, <2>2, <2>3, <2>4, AwaitingStays
  <1>8. ASSUME NEW m \in Members, failedAt'[m] # 0
        PROVE  Barred(m)' \/ \E q \in pending' : Awaiting(q, m)'
    <2>1. CASE result = "FAIL" /\ \E n \in ms : SameAssociation(n, m)
      BY <1>6, <2>1
    <2>2. CASE ~(result = "FAIL" /\ \E n \in ms : SameAssociation(n, m))
      <3>1. failedAt'[m] = failedAt[m] BY <1>4, <2>2
      <3>2. Barred(m) => Barred(m)' BY <3>1 DEF Barred
      <3> QED BY <1>1, <1>7, <1>8, <3>1, <3>2 DEF FailuresKept
    <2> QED BY <2>1, <2>2
  <1> QED BY <1>5, <1>8 DEF FailuresKept

LEMMA EndsKept ==
    ASSUME HistoryInv, NEW p \in Physicals, ExecutionEnds(p) \/ ObservationEnds(p)
    PROVE  HKept
  <1>1. alive /\ UNCHANGED Standing /\ eventAlias' = eventAlias
    BY DEF ExecutionEnds, ObservationEnds, At, Standing
  <1>2. TypeOK /\ Working(p) /\ InvocationsAnnounced /\ Numbered BY <1>1, AliveFacts
  <1>3. NoMember \notin Members /\ MembersOf[p] \subseteq Members BY HistoryAssumption
  <1>4. CASE ExecutionEnds(p)
    <2>1. PICK result \in Results, closed \in BOOLEAN :
             /\ Set(p, Invoked(p, "executed", work[p].attempt, result, closed))
             /\ Observe(result, MembersOf[p])
      BY <1>4 DEF ExecutionEnds
    <2>2. /\ work[p].at = "running"
          /\ work'[p].at = "executed" /\ work'[p].attempt = work[p].attempt
          /\ work'[p].member = work[p].member /\ work'[p].todo = work[p].todo
          /\ work'[p].result = result
          /\ \A r \in Physicals \ {p} : work'[r] = work[r]
      BY <1>2, <1>4, <2>1, WorkerWrites DEF Invoked, ExecutionEnds, At
    <2>3. Working(p)' BY <1>1, <1>2, <2>2, StageKept
    <2>4. PICK own \in pending : own = ExecutionPending(p)
      BY <1>1, <1>2, <2>2 DEF InvocationsAnnounced, At, Announcing
    <2>5. ~Reported(own)
      BY <1>2, <2>2, <2>4 DEF Working, Unappended, Unrecorded, Reported, ExecutionPending
    <2>6. Touched(own) = MembersOf[p]
      BY <2>4 DEF Touched, ExecutionPending, KeyNow
    <2>7. \A m : ~Awaiting(own, m)
      BY <1>1, <2>2, <2>4 DEF Awaiting, At, Announcing
    <2>8. FailuresKept' /\ \A m \in Members : failedAt'[m] <= Len(history) + 1
      BY <1>1, <2>1, <2>2, <2>4, <2>5, <2>6, <2>7, EndFailures
    <2> QED BY <1>1, <2>2, <2>3, <2>8, QuietKept
  <1>5. CASE ObservationEnds(p)
    <2>1. PICK result \in Results, closed \in BOOLEAN :
             /\ Set(p, Invoked(p, "examined", work[p].attempt, result, closed))
             /\ Observe(result, {work[p].member})
      BY <1>5 DEF ObservationEnds
    <2>2. /\ work[p].at = "checking"
          /\ work'[p].at = "examined" /\ work'[p].attempt = work[p].attempt
          /\ work'[p].member = work[p].member /\ work'[p].todo = work[p].todo
          /\ work'[p].result = result
          /\ \A r \in Physicals \ {p} : work'[r] = work[r]
      BY <1>2, <1>5, <2>1, WorkerWrites DEF Invoked, ObservationEnds, At
    <2>3. Working(p)' BY <1>1, <1>2, <2>2, StageKept
    <2>4. PICK own \in pending : own = ObservationPending(p)
      BY <1>1, <1>2, <2>2 DEF InvocationsAnnounced, At, AnnouncingObservation
    <2>5. ~Reported(own)
      BY <1>2, <2>2, <2>4 DEF Working, Unobserved, Unreported, Reported, ObservationPending
    <2>6. Touched(own) = {work[p].member}
      <3>1. work[p].member \in MembersOf[p] BY <1>2, <2>2 DEF Working, Unobserved
      <3>2. work[p].member # NoMember BY <1>3, <3>1
      <3>3. own.member = work[p].member /\ own.key[1] = p BY <2>4 DEF ObservationPending, KeyNow
      <3> QED BY <3>1, <3>2, <3>3 DEF Touched
    <2>7. \A m : ~Awaiting(own, m)
      BY <1>1, <2>2, <2>4 DEF Awaiting, At, AnnouncingObservation
    <2>8. FailuresKept' /\ \A m \in Members : failedAt'[m] <= Len(history) + 1
      BY <1>1, <2>1, <2>2, <2>4, <2>5, <2>6, <2>7, EndFailures
    <2> QED BY <1>1, <2>2, <2>3, <2>8, QuietKept
  <1> QED BY <1>4, <1>5

-----------------------------------------------------------------------------
(* Sessions begin and end, and a recovery runs.                            *)

LEMMA StillKept ==
    ASSUME HistoryInv,
           UNCHANGED <<history, artifacts, receipts, owner, pending, attempts, sessions, version, alive,
                       work, failedAt>>,
           \A r \in Runs : snapshots[r] = "complete" => snapshots'[r] = "complete",
           RecoveryInv'
    PROVE  HKept
  <1>1. /\ TypeOK /\ ChainValid /\ Decided /\ Numbered /\ FailuresKept
    BY DEF HistoryInv, AccountingInv
  <1>2. Grows BY DEF Grows
  <1>3. ChainValid'
    <2>1. \A i \in DOMAIN history : history[i].kind = "indeterminate" => history[i].run \in Runs
      BY <1>1 DEF Numbered
    <2> QED BY <1>1, <1>2, <2>1, ChainStep
  <1>4. Decided' /\ Numbered' BY <1>1 DEF Decided, Numbered
  <1>5. \A p \in Physicals : KeyNow(p)' = KeyNow(p) BY DEF KeyNow
  <1>6. \A q, m : Awaiting(q, m)' <=> Awaiting(q, m)
    BY <1>5 DEF Awaiting, Reported, Touched, At, ExecutionPending, ObservationPending
  <1>7. \A m \in Members : Barred(m)' <=> Barred(m) BY DEF Barred
  <1>8. FailuresKept' BY <1>1, <1>6, <1>7 DEF FailuresKept
  <1>9. ASSUME alive, NEW p \in Physicals PROVE Working(p)'
    <2>1. Working(p) BY <1>9, AliveFacts
    <2>2. \A a : Ran(p, a)' <=> Ran(p, a) BY <1>5 DEF Ran
    <2>3. \A a, m : Unreported(p, a, m)' <=> Unreported(p, a, m) BY <1>5 DEF Unreported
    <2>4. \A a, m : Unannounced(p, a, m)' <=> Unannounced(p, a, m) BY <1>5 DEF Unannounced
    <2>5. \A a, m : Observable(p, a, m)' <=> Observable(p, a, m)
      BY <2>2, <2>3, <2>4 DEF Observable
    <2>6. Unrecorded(p)' <=> Unrecorded(p) BY <1>5 DEF Unrecorded
    <2>7. ExecutionEvent(p, TRUE)' = ExecutionEvent(p, TRUE) BY <1>5 DEF ExecutionEvent
    <2> QED BY <1>5, <2>1, <2>2, <2>3, <2>5, <2>6, <2>7 DEF Working
  <1> QED BY <1>3, <1>4, <1>8, <1>9 DEF HKept

\* With nobody at work, the history speaks for itself.
LEMMA DeadKept ==
    ASSUME HistoryInv, ~alive',
           UNCHANGED <<history, artifacts, receipts, attempts, sessions, snapshots, failedAt>>,
           pending' \subseteq pending, owner' \in {0, owner},
           FailuresKept', RecoveryInv'
    PROVE  HKept
  <1>1. /\ TypeOK /\ ChainValid /\ Decided /\ Numbered
    BY DEF HistoryInv, AccountingInv
  <1>2. ChainValid' BY <1>1 DEF ChainValid, Backed
  <1>3. Decided' BY <1>1 DEF Decided
  <1>4. Numbered'
    <2>1. sessions \in Nat BY <1>1 DEF TypeOK
    <2> QED BY <1>1, <2>1 DEF Numbered
  <1> QED BY <1>2, <1>3, <1>4 DEF HKept

\* Without a pending result every observed failure is on record.
LEMMA AllBarred ==
    ASSUME HistoryInv, \A q \in pending : \A m \in Members : ~Awaiting(q, m),
           history' = history, failedAt' = failedAt
    PROVE  FailuresKept'
BY DEF HistoryInv, FailuresKept, Barred

LEMMA SessionsKept ==
    ASSUME HistoryInv, ChangeInputs \/ OpenSession \/ Cancel \/ Crash \/ EndSession
    PROVE  HKept
  <1>1. /\ TypeOK /\ ChainValid /\ Decided /\ Numbered /\ FailuresKept /\ RecoveryInv /\ Ownership
    BY DEF HistoryInv, AccountingInv
  <1>2. owner = 0 => ~alive /\ pending = {} /\ recovery \in {"none", "retired"}
    BY <1>1 DEF Ownership
  <1>3. alive => recovery \in {"none", "retired"} BY AliveFacts
  <1>4. CASE ChangeInputs
    <2>1. /\ UNCHANGED <<history, artifacts, receipts, owner, pending, attempts, sessions, alive, eventAlias,
                         snapshots, recovery, failedAt>>
          /\ owner = 0
      BY <1>4 DEF ChangeInputs, durable, counters, volatile
    <2>2. FailuresKept' BY <1>2, <2>1, AllBarred
    <2>3. RecoveryInv' BY <1>1, <1>2, <2>1 DEF RecoveryInv
    <2> QED BY <1>2, <2>1, <2>2, <2>3, DeadKept
  <1>5. CASE Cancel
    <2>1. /\ UNCHANGED <<history, artifacts, receipts, owner, pending, attempts, sessions, version, alive, eventAlias,
                         snapshots, recovery, work, failedAt>>
          /\ alive
      BY <1>5 DEF Cancel, durable
    <2>2. RecoveryInv' BY <1>1, <1>3, <2>1 DEF RecoveryInv
    <2> QED BY <2>1, <2>2, StillKept
  <1>6. CASE OpenSession
    <2>1. /\ UNCHANGED <<history, artifacts, receipts, pending, attempts, version, eventAlias,
                         snapshots, recovery, failedAt>>
          /\ owner = 0 /\ sessions' = sessions + 1 /\ owner' = sessions + 1 /\ work' = NoWork
      BY <1>6 DEF OpenSession
    <2>2. FailuresKept' BY <1>2, <2>1, AllBarred
    <2>3. RecoveryInv' BY <1>1, <1>2, <2>1 DEF RecoveryInv
    <2>4. ChainValid' /\ Decided' BY <1>1, <2>1 DEF ChainValid, Backed, Decided
    <2>5. sessions \in Nat /\ history \in Seq(Event) BY <1>1 DEF TypeOK
    <2>6. \A i \in DOMAIN history : history[i].run \in Nat
      <3>1. \A i \in DOMAIN history : history[i] \in Event BY <2>5
      <3>2. \A i \in DOMAIN history : history[i].run \in Runs \cup {0} BY <3>1 DEF Event
      <3>3. \A r \in Runs \cup {0} : r \in Nat BY HistoryAssumption
      <3> QED BY <3>2, <3>3
    <2>7. Numbered' BY <1>1, <2>1, <2>5, <2>6 DEF Numbered
    <2>8. ASSUME NEW p \in Physicals PROVE Working(p)'
      <3>1. work'[p].at = "idle" /\ work'[p].todo = {} BY <2>1 DEF NoWork, Between
      <3>2. \A i \in DOMAIN history : history[i].run # owner' BY <1>1, <2>1, <2>5, <2>6 DEF Numbered
      <3> QED BY <1>2, <2>1, <3>1, <3>2 DEF Working, Announcing, Unappended, Unobserved
    <2> QED BY <2>2, <2>3, <2>4, <2>7, <2>8 DEF HKept
  <1>7. CASE Release
    <2>1. /\ UNCHANGED <<history, artifacts, receipts, attempts, sessions, snapshots, failedAt, pending,
                         eventAlias, recovery>>
          /\ alive /\ ~alive' /\ owner' = 0 /\ pending = {}
      BY <1>7 DEF Release, Finished, counters
    <2>2. FailuresKept' BY <2>1, AllBarred
    <2>3. RecoveryInv' BY <1>1, <1>3, <2>1 DEF RecoveryInv
    <2> QED BY <2>1, <2>2, <2>3, DeadKept
  <1>8. CASE Abandon \/ Crash
    <2>1. /\ UNCHANGED <<history, artifacts, receipts, attempts, sessions, snapshots, failedAt, pending, owner,
                         version, eventAlias, recovery>>
          /\ alive /\ ~alive'
      BY <1>8 DEF Abandon, Crash, Forget, Finished, counters, durable
    <2>2. ASSUME NEW m \in Members, NEW q \in pending, Awaiting(q, m) PROVE Awaiting(q, m)'
      BY <2>1, <2>2 DEF Awaiting, Reported, Touched, At
    <2>3. FailuresKept' BY <1>1, <2>1, <2>2, FailuresStep
    <2>4. RecoveryInv' BY <1>1, <1>3, <2>1 DEF RecoveryInv
    <2> QED BY <2>1, <2>3, <2>4, DeadKept
  <1> QED BY <1>4, <1>5, <1>6, <1>7, <1>8 DEF EndSession

\* The event of a pending result is a report of it.
LEMMA EventReports ==
    ASSUME NEW q, HasEvent(q), q.kind = "execution" \/ q.kind = "observation"
    PROVE  Reported(q)
BY DEF HasEvent, Reported

\* Once every pending result has its event, everything committed is accounted for.
LEMMA EventsAccount ==
    ASSUME HistoryInv, \A q \in pending : HasEvent(q)
    PROVE  AllAccounted
  <1>1. Accounted /\ Decided BY DEF HistoryInv, AccountingInv
  <1>2. ASSUME NEW x \in artifacts PROVE AccountsArtifact(history, x)
    <2>1. CASE AccountsArtifact(history, x) BY <2>1
    <2>2. CASE [kind |-> "execution", key |-> x.key, attempt |-> x.attempt, member |-> NoMember] \in pending
      <3>1. AttemptEvents(history, x) # {}
        BY <2>2 DEF HasEvent, AttemptEvents
      <3> QED BY <1>1, <3>1 DEF Decided
    <2> QED BY <1>1, <2>1, <2>2 DEF Accounted
  <1>3. ASSUME NEW c \in receipts PROVE AccountsReceipt(history, c)
    <2>1. CASE AccountsReceipt(history, c) BY <2>1
    <2>2. CASE /\ owner = c.run
               /\ [kind |-> "observation", key |-> c.key, attempt |-> c.attempt, member |-> c.member] \in pending
      BY <2>2 DEF HasEvent, AccountsReceipt
    <2> QED BY <1>1, <2>1, <2>2 DEF Accounted
  <1> QED BY <1>2, <1>3 DEF AllAccounted

\* The steps of a recovery that append nothing and keep the owner.
LEMMA RecoveringKept ==
    ASSUME HistoryInv,
           \/ StartRecovery \/ CreateSnapshot \/ WriteSnapshot \/ FindSnapshot \/ RetireAlias
           \/ UnlinkIndeterminate \/ PendingAccounted \/ Verify \/ RemoveGuard \/ RecoveryRefused
           \/ Reboot \/ RecoveryThrows \/ RecoveryCrash
    PROVE  HKept
  <1>1. TypeOK /\ RecoveryInv /\ Ownership BY DEF HistoryInv, AccountingInv
  <1>2. /\ UNCHANGED <<history, artifacts, receipts, owner, pending, windows, attempts, sessions, version, alive,
                       work, failedAt>>
        /\ eventAlias' \subseteq eventAlias
    BY DEF StartRecovery, CreateSnapshot, WriteSnapshot, FindSnapshot, RetireAlias, UnlinkIndeterminate,
           PendingAccounted, Verify, RemoveGuard, RecoveryRefused, Reboot, RecoveryThrows, RecoveryCrash,
           EndRecovery, durable, counters, volatile
  <1>3. /\ snapshots \in [Runs -> {"absent", "torn", "complete"}]
        /\ recovery \notin {"none", "retired"} => owner \in Runs
    BY <1>1 DEF TypeOK, Ownership
  <1>4. AllAccounted' <=> AllAccounted BY <1>2 DEF AllAccounted
  <1>5. \A q : HasEvent(q)' <=> HasEvent(q) BY <1>2 DEF HasEvent
  <1>6. CASE CreateSnapshot \/ WriteSnapshot
    <2>1. /\ eventAlias' = eventAlias /\ recovery \notin {"none", "retired", "accounted", "verified"}
          /\ \/ /\ snapshots[owner] = "absent" /\ snapshots' = [snapshots EXCEPT ![owner] = "torn"]
                /\ recovery' = "creating"
             \/ /\ snapshots' = [snapshots EXCEPT ![owner] = "complete"] /\ recovery' = "preserved"
      BY <1>6 DEF CreateSnapshot, WriteSnapshot
    <2>2. \A r \in Runs : snapshots[r] = "complete" => snapshots'[r] = "complete"
      BY <1>3, <2>1
    <2>3. RecoveryInv' BY <1>1, <1>2, <1>3, <2>1 DEF RecoveryInv
    <2> QED BY <1>2, <2>2, <2>3, StillKept
  <1>7. CASE ~(CreateSnapshot \/ WriteSnapshot)
    <2>1. snapshots' = snapshots
      BY <1>7 DEF StartRecovery, FindSnapshot, RetireAlias, UnlinkIndeterminate,
           PendingAccounted, Verify, RemoveGuard, RecoveryRefused, Reboot, RecoveryThrows, RecoveryCrash,
           EndRecovery, durable
    <2>2. \/ recovery' \in {"none", "guarded"}
          \/ /\ recovery = "guarded" /\ recovery' = "preserved" /\ snapshots[owner] = "complete"
             /\ eventAlias' = eventAlias
          \/ recovery = "preserved" /\ recovery' = "preserved"
          \/ recovery = "linked" /\ recovery' = "preserved"
          \/ PendingAccounted
          \/ recovery = "accounted" /\ recovery' = "verified"
      BY <1>7 DEF StartRecovery, FindSnapshot, RetireAlias, UnlinkIndeterminate,
           Verify, RemoveGuard, RecoveryRefused, Reboot, RecoveryThrows, RecoveryCrash,
           EndRecovery, durable
    <2>3. RecoveryInv'
      <3>1. CASE PendingAccounted
        <4>1. recovery = "preserved" /\ eventAlias = {} /\ recovery' = "accounted" /\ \A q \in pending : HasEvent(q)
          BY <3>1 DEF PendingAccounted
        <4>2. AllAccounted BY <4>1, EventsAccount
        <4> QED BY <1>1, <1>2, <1>4, <1>5, <2>1, <4>1, <4>2 DEF RecoveryInv
      <3>2. CASE ~PendingAccounted
        <4>1. eventAlias' # {} => pending' # {} /\ recovery' \notin {"accounted", "verified"}
          BY <1>1, <1>2, <2>2, <3>2 DEF RecoveryInv
        <4>2. recovery' \in {"preserved", "linked", "accounted", "verified"} => snapshots'[owner'] = "complete"
          BY <1>1, <1>2, <2>1, <2>2, <3>2 DEF RecoveryInv
        <4>3. recovery' \in {"accounted", "verified"} => AllAccounted' /\ \A q \in pending' : HasEvent(q)'
          BY <1>1, <1>2, <1>4, <1>5, <2>2, <3>2 DEF RecoveryInv
        <4> QED BY <4>1, <4>2, <4>3 DEF RecoveryInv
      <3> QED BY <3>1, <3>2
    <2> QED BY <1>2, <2>1, <2>3, StillKept
  <1> QED BY <1>6, <1>7

LEMMA RetireKept ==
    ASSUME HistoryInv, Retire
    PROVE  HKept
  <1>1. TypeOK /\ RecoveryInv /\ Ownership BY DEF HistoryInv, AccountingInv
  <1>2. /\ UNCHANGED <<history, eventAlias, artifacts, receipts, attempts, sessions, snapshots, failedAt, alive>>
        /\ owner' = 0 /\ pending' = {} /\ recovery' = "retired" /\ recovery = "verified" /\ ~alive
    BY <1>1 DEF Retire, counters, volatile, Ownership
  <1>3. \A q \in pending : HasEvent(q) /\ q.kind \in {"execution", "observation"}
    BY <1>1, <1>2 DEF RecoveryInv, TypeOK, Pending
  <1>4. FailuresKept'
    <2>1. \A q \in pending : \A m \in Members : ~Awaiting(q, m) BY <1>3, EventReports DEF Awaiting
    <2> QED BY <1>2, <2>1, AllBarred
  <1>5. RecoveryInv' BY <1>1, <1>2 DEF RecoveryInv
  <1> QED BY <1>2, <1>4, <1>5, DeadKept

LEMMA LinkIndeterminateKept ==
    ASSUME HistoryInv, LinkIndeterminate
    PROVE  HKept
  <1>1. /\ TypeOK /\ RecoveryInv /\ Ownership /\ ChainValid /\ Decided /\ Numbered /\ FailuresKept
    BY DEF HistoryInv, AccountingInv
  <1>2. /\ UNCHANGED <<artifacts, receipts, owner, pending, attempts, sessions, version, snapshots, alive,
                       work, failedAt>>
        /\ recovery = "preserved" /\ recovery' = "linked" /\ ~alive /\ owner \in Runs
    BY <1>1 DEF LinkIndeterminate, counters, volatile, Ownership, TypeOK
  <1>3. PICK own \in pending : Append1(IndeterminateEvent(own))
    BY DEF LinkIndeterminate
  <1>4. PICK e \in Event : e = IndeterminateEvent(own)
    <2>1. own \in Pending BY <1>1 DEF TypeOK
    <2> QED BY <1>2, <2>1 DEF Pending, IndeterminateEvent, Event, Kinds, Results
  <1>5. /\ history \in Seq(Event) /\ history' = Append(history, e) /\ eventAlias' # {}
    BY <1>1, <1>3, <1>4 DEF TypeOK, Append1
  <1>6. /\ DOMAIN history' = DOMAIN history \cup {Len(history) + 1}
        /\ history'[Len(history) + 1] = e
        /\ \A i \in DOMAIN history : history'[i] = history[i]
    BY <1>5, AppendIndices
  <1>7. /\ e.kind = "indeterminate" /\ e.key = own.key /\ e.attempt = own.attempt
        /\ e.member = own.member /\ e.run = owner
    BY <1>4 DEF IndeterminateEvent
  <1>8. ChainValid'
    <2>1. snapshots[owner] = "complete" BY <1>1, <1>2 DEF RecoveryInv
    <2>2. Backed(e)' BY <1>2, <1>7, <2>1 DEF Backed
    <2>3. \A i \in DOMAIN history : history[i].kind = "indeterminate" => history[i].run \in Runs
      BY <1>1 DEF Numbered
    <2>4. Grows BY <1>2 DEF Grows
    <2>5. Append1(e) BY <1>3, <1>4
    <2> QED BY <1>1, <2>2, <2>3, <2>4, <2>5, ChainStep
  <1>9. Decided'
    <2>1. Append1(e) BY <1>3, <1>4
    <2> QED BY <1>1, <1>2, <1>7, <2>1, DecidedStep
  <1>a. Numbered'
    <2>1. attempts \in Nat /\ e.attempt <= attempts /\ e.run <= sessions
      BY <1>1, <1>7 DEF TypeOK, Numbered
    <2> QED BY <1>1, <1>2, <1>5, <1>7, <2>1, NumberedStays
  <1>b. FailuresKept'
    <2>1. ASSUME NEW m \in Members, NEW q \in pending, Awaiting(q, m)
          PROVE  Barred(m)' \/ Awaiting(q, m)'
      <3>1. CASE Reported(q)'
        <4>1. e.key = q.key /\ e.member = q.member
          <5>1. PICK i \in DOMAIN history' :
                   /\ history'[i].key = q.key /\ history'[i].attempt = q.attempt /\ history'[i].member = q.member
                   /\ q.kind = "observation" => history'[i].run = owner
            BY <1>2, <3>1 DEF Reported
          <5>2. i \notin DOMAIN history BY <1>6, <2>1, <5>1 DEF Awaiting, Reported
          <5> QED BY <1>6, <5>1, <5>2
        <4>2. Touched(e) = Touched(q) BY <4>1 DEF Touched
        <4>3. BarrierApplies(e, m) BY <1>7, <2>1, <4>2 DEF Awaiting, BarrierApplies
        <4>4. Len(history) + 1 >= failedAt[m] BY <1>1, <1>5 DEF Numbered, TypeOK
        <4> QED BY <1>2, <1>6, <4>3, <4>4 DEF Barred
      <3>2. CASE ~Reported(q)'
        BY <1>2, <2>1, <3>2 DEF Awaiting, Touched, At
      <3> QED BY <3>1, <3>2
    <2> QED BY <1>1, <1>2, <1>5, <2>1, FailuresStep
  <1>c. RecoveryInv' BY <1>1, <1>2, <1>3 DEF RecoveryInv
  <1> QED BY <1>2, <1>8, <1>9, <1>a, <1>b, <1>c DEF HKept

-----------------------------------------------------------------------------
(* The invariant and what follows from it.                                 *)

LEMMA InitHistory == Init => HistoryInv
  <1> SUFFICES ASSUME Init PROVE HistoryInv
    OBVIOUS
  <1>1. AccountingInv BY InitAccounts
  <1>2. ChainValid /\ RecoveryInv /\ Decided /\ ~alive
    BY DEF Init, ChainValid, RecoveryInv, Decided
  <1>3. Numbered BY DEF Init, Numbered
  <1>4. FailuresKept BY DEF Init, FailuresKept
  <1> QED BY <1>1, <1>2, <1>3, <1>4 DEF HistoryInv

LEMMA NextHistory == ASSUME HistoryInv, [Next]_vars PROVE HistoryInv'
  <1>1. AccountingInv' BY NextAccounts DEF HistoryInv
  <1>2. HKept
    <2>1. ASSUME NEW p \in Physicals, Step(p) \/ StorageError(p) PROVE HKept
      BY <2>1, AbortsKept, StagesKept, UnlinksKept, SelectsKept, RequestKept, BeginExecutionRecords,
         PublishExecutionRecords, ExecutionEventRecords, ObservationEventRecords, SettleRecords,
         BeginObservationRecords, LinkReceiptRecords, EndsKept DEF Step
    <2>2. CASE ChangeInputs \/ OpenSession \/ Cancel \/ Crash \/ EndSession
      BY <2>2, SessionsKept
    <2>3. CASE \/ StartRecovery \/ CreateSnapshot \/ WriteSnapshot \/ FindSnapshot \/ RetireAlias
               \/ UnlinkIndeterminate \/ PendingAccounted \/ Verify \/ RemoveGuard \/ RecoveryRefused
               \/ Reboot \/ RecoveryThrows \/ RecoveryCrash
      BY <2>3, RecoveringKept
    <2>4. CASE Retire BY <2>4, RetireKept
    <2>5. CASE LinkIndeterminate BY <2>5, LinkIndeterminateKept
    <2>6. CASE UNCHANGED vars
      <3>1. RecoveryInv' BY <2>6 DEF HistoryInv, RecoveryInv, vars, durable, AllAccounted, HasEvent
      <3> QED BY <2>6, <3>1, StillKept DEF vars, durable, counters, volatile
    <2> QED BY <2>1, <2>2, <2>3, <2>4, <2>5, <2>6 DEF Next, Recover, Environment
  <1> QED BY <1>1, <1>2 DEF HKept, HistoryInv

LEMMA HistoryAlways == Spec => []HistoryInv
BY InitHistory, NextHistory, PTL DEF Spec

\* The retained chain validates and accounts for everything committed whenever the
\* store has no owner file: release only follows clearPending, and retirement only
\* a verified recovery.
THEOREM OwnerlessAlwaysReadable == Spec => []OwnerlessReadable
  <1>1. HistoryInv => OwnerlessReadable
    <2> SUFFICES ASSUME HistoryInv, owner = 0 PROVE ChainReadable /\ AllAccounted
      BY DEF OwnerlessReadable
    <2>1. pending = {} /\ RecoveryInv /\ ChainValid /\ Accounted
      BY DEF HistoryInv, AccountingInv, Ownership
    <2>2. ChainReadable BY <2>1 DEF RecoveryInv, ChainValid, ChainReadable
    <2>3. AllAccounted BY <2>1 DEF Accounted, AllAccounted
    <2> QED BY <2>2, <2>3
  <1> QED BY <1>1, HistoryAlways, PTL

\* Once accountPending has given every pending result its event, the readHistory
\* that ends it succeeds, unless an observation file has two links.
THEOREM AccountingAlwaysSuffices == Spec => []AccountingSuffices
  <1>1. HistoryInv => AccountingSuffices
    <2> SUFFICES ASSUME HistoryInv, recovery = "accounted", fileAlias = {} PROVE Readable
      BY DEF AccountingSuffices
    <2>1. eventAlias = {} /\ AllAccounted /\ ChainValid
      BY DEF HistoryInv, RecoveryInv
    <2> QED BY <2>1 DEF Readable, ChainReadable, ChainValid
  <1> QED BY <1>1, HistoryAlways, PTL

\* appendHistory never refuses a session's event for its bindings: an attempt is
\* recorded once, a null event is no PASS, and an observation follows the passing
\* execution it names.
THEOREM AppendsAlwaysBind == Spec => []AppendsBind
  <1>1. HistoryInv => AppendsBind
    <2> SUFFICES ASSUME HistoryInv, alive, NEW p \in Physicals
                 PROVE  /\ work[p].at = "published" => BindingAllowed(history, ExecutionEvent(p, TRUE))
                        /\ work[p].at = "thrown" => BindingAllowed(history, ExecutionEvent(p, FALSE))
                        /\ work[p].at = "received" => BindingAllowed(history, ObservationEvent(p))
      BY DEF AppendsBind, At
    <2>1. Working(p) BY AliveFacts
    <2>2. ASSUME work[p].at = "published" PROVE BindingAllowed(history, ExecutionEvent(p, TRUE))
      BY <2>1, <2>2 DEF Working, Unappended, Unrecorded, BindingAllowed, ExecutionEvent
    <2>3. ASSUME work[p].at = "thrown" PROVE BindingAllowed(history, ExecutionEvent(p, FALSE))
      BY <2>1, <2>3 DEF Working, Unappended, Unrecorded, BindingAllowed, ExecutionEvent
    <2>4. ASSUME work[p].at = "received" PROVE BindingAllowed(history, ObservationEvent(p))
      BY <2>1, <2>4 DEF Working, Unobserved, Ran, BindingAllowed, ObservationEvent, KeyNow
    <2> QED BY <2>2, <2>3, <2>4
  <1> QED BY <1>1, HistoryAlways, PTL

\* A failure observed before a crash, a storage error or a change of inputs bars
\* every execution recorded before it once no owner is left: it was recorded, or
\* recovery recorded its pending result as indeterminate.
THEOREM NothingResurrects == Spec => []NoResurrection
  <1>1. HistoryInv => NoResurrection
    <2> SUFFICES ASSUME HistoryInv, owner = 0, NEW key \in Keys, NEW m \in Members,
                        NEW i \in Eligible(history, key, m)
                 PROVE  i >= failedAt[m]
      BY DEF NoResurrection
    <2>1. TypeOK /\ FailuresKept /\ pending = {} BY DEF HistoryInv, AccountingInv, Ownership
    <2>2. i \in Nat /\ failedAt[m] \in Nat /\ DOMAIN history \subseteq Nat
      BY <2>1 DEF TypeOK, Eligible
    <2>3. CASE failedAt[m] = 0 BY <2>2, <2>3
    <2>4. CASE Barred(m)
      <3>1. PICK j \in DOMAIN history : j >= failedAt[m] /\ BarrierApplies(history[j], m)
        BY <2>4 DEF Barred
      <3>2. j < i BY <3>1 DEF Eligible, PastCutoff, Blockers
      <3> QED BY <2>2, <3>1, <3>2
    <2> QED BY <2>1, <2>3, <2>4 DEF FailuresKept
  <1> QED BY <1>1, HistoryAlways, PTL

\* Appending an indeterminate event makes no execution a candidate.
LEMMA IndeterminatePromotesNothing ==
    ASSUME NEW h \in Seq(Event), NEW e \in Event, e.kind = "indeterminate", NEW key, NEW m
    PROVE  Eligible(Append(h, e), key, m) \subseteq Eligible(h, key, m)
  <1>1. PICK g, n : g = Append(h, e) /\ n = Len(h) + 1
    OBVIOUS
  <1>2. /\ DOMAIN g = DOMAIN h \cup {n} /\ g[n] = e /\ \A i \in DOMAIN h : g[i] = h[i]
    BY <1>1, AppendIndices
  <1>3. ASSUME NEW i \in Eligible(g, key, m) PROVE i \in Eligible(h, key, m)
    <2>1. i \in DOMAIN g /\ g[i].kind = "execution" BY <1>3 DEF Eligible
    <2>2. i \in DOMAIN h BY <1>2, <2>1
    <2>3. PastCutoff(h, i, m) BY <1>2, <1>3 DEF Eligible, PastCutoff, Blockers
    <2>4. Observed(h, i, m)
      <3>1. PICK j \in Observations(g, i, m) : TRUE BY <1>3 DEF Eligible, Observed
      <3>2. j \in Observations(h, i, m) BY <1>2, <2>2, <3>1 DEF Observations
      <3> QED BY <3>2 DEF Observed
    <2> QED BY <1>2, <1>3, <2>2, <2>3, <2>4 DEF Eligible
  <1> QED BY <1>1, <1>3

\* Without a live session nothing becomes usable: recovery appends indeterminate
\* events alone, and no other step writes the history.
THEOREM RecoveryNeverPromotes == Spec => RecoveryPromotesNothing
  <1>1. ASSUME HistoryInv, [Next]_vars PROVE [~alive => Candidates' \subseteq Candidates]_vars
    <2> SUFFICES ASSUME Next, ~alive PROVE Candidates' \subseteq Candidates
      BY <1>1
    <2>1. TypeOK BY <1>1 DEF HistoryInv, AccountingInv
    <2>2. history' = history \/ LinkIndeterminate
      BY DEF Next, EndSession, Release, Abandon, Finished, Recover, StartRecovery, CreateSnapshot, WriteSnapshot,
         FindSnapshot, RetireAlias, UnlinkIndeterminate, PendingAccounted, Verify, Retire, RemoveGuard,
         RecoveryRefused, EndRecovery, Environment, ChangeInputs, OpenSession, Cancel, Crash, Reboot,
         RecoveryThrows, RecoveryCrash, StorageError, Step, At, Select, SelectThrows, HaltedBeforeDispatch,
         BeginExecution, Spawn, ExecutionThrows, ExecutionEnds, PublishExecution, LinkExecutionEvent,
         LinkNullEvent, UnlinkEvent, SettleExecution, SettleNull, LinkRequest, ObservationsDone, UnlinkFile,
         BeginObservation, ObservationEnds, LinkStreams, LinkReceipt, LinkObservationEvent, SettleObservation,
         ObservationUnresolved, Refused, durable
    <2>3. CASE history' = history BY <2>3 DEF Candidates
    <2>4. CASE LinkIndeterminate
      <3>1. PICK own \in pending : Append1(IndeterminateEvent(own)) BY <2>4 DEF LinkIndeterminate
      <3>2. PICK e \in Event : e = IndeterminateEvent(own)
        <4>1. own \in Pending /\ owner \in Runs \cup {0} BY <2>1 DEF TypeOK
        <4> QED BY <4>1 DEF Pending, IndeterminateEvent, Event, Kinds, Results
      <3>3. history' = Append(history, e) /\ history \in Seq(Event) /\ e.kind = "indeterminate"
        BY <2>1, <3>1, <3>2 DEF Append1, TypeOK, IndeterminateEvent
      <3>4. \A key, m : Eligible(history', key, m) \subseteq Eligible(history, key, m)
        BY <3>3, IndeterminatePromotesNothing
      <3> QED BY <3>4 DEF Candidates, HasCandidate
    <2> QED BY <2>2, <2>3, <2>4
  <1> QED BY <1>1, HistoryAlways, PTL DEF Spec, RecoveryPromotesNothing
=============================================================================
