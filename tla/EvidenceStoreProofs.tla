------------------------- MODULE EvidenceStoreProofs -------------------------
(***************************************************************************)
(* Proofs about EvidenceStore for every value of its constants.            *)
(***************************************************************************)
EXTENDS EvidenceStore, TLAPS

------------------------------------------------------------------------------
(* Types.                                                                  *)

\* The typing of the workers, one fact per way a worker is written.
LEMMA BetweenTyped ==
    ASSUME NEW stage \in Stages, NEW todo \in SUBSET (Members \X Nat)
    PROVE  Between(stage, todo) \in Work
BY DEF Between, Work, MaybeMember, Results

LEMMA InvokedTyped ==
    ASSUME TypeOK, NEW p \in Physicals, NEW stage \in Stages, NEW attempt \in Nat,
           NEW result \in Results, NEW closed \in BOOLEAN
    PROVE  Invoked(p, stage, attempt, result, closed) \in Work
BY DEF TypeOK, Invoked, Work

LEMMA SetTyped ==
    ASSUME TypeOK, NEW p \in Physicals, NEW w \in Work, Set(p, w)
    PROVE  work' \in [Physicals -> Work]
BY DEF TypeOK, Set

LEMMA GotoTyped ==
    ASSUME TypeOK, NEW p \in Physicals, NEW stage \in Stages, Goto(p, stage)
    PROVE  work' \in [Physicals -> Work]
  <1>1. /\ work[p].attempt \in Nat /\ work[p].result \in Results /\ work[p].closed \in BOOLEAN
    BY DEF TypeOK, Work
  <1> QED
    BY <1>1, InvokedTyped, SetTyped DEF Goto

LEMMA StageNames ==
    /\ {"idle", "done", "failed", "checked", "pending", "running", "executed", "thrown", "published",
        "appended", "nullified", "observing", "requested", "obspending",
        "checking", "examined", "streamed", "received", "obsappended"} = Stages
BY DEF Stages, Quiet

LEMMA NoWorkTyped == NoWork \in [Physicals -> Work]
BY BetweenTyped, StageNames DEF NoWork

LEMMA InitTyped == Init => TypeOK
  <1> SUFFICES ASSUME Init PROVE TypeOK
    OBVIOUS
  <1>1. history \in Seq(Event) /\ work \in [Physicals -> Work]
    BY NoWorkTyped DEF Init
  <1>2. /\ snapshots \in [Runs -> {"absent", "torn", "complete"}]
        /\ failedAt \in [Members -> Nat]
    BY DEF Init
  <1> QED
    BY <1>1, <1>2 DEF Init, TypeOK

\* What TypeOK says of the parts an action reads.
LEMMA PartsTyped ==
    ASSUME TypeOK, NEW p \in Physicals
    PROVE  /\ attempts \in Nat /\ sessions \in Nat /\ crashes \in Nat /\ faults \in Nat
           /\ work[p].attempt \in Nat /\ work[p].member \in MaybeMember
           /\ work[p].result \in Results /\ work[p].closed \in BOOLEAN
           /\ work[p].todo \subseteq Members \X Nat
           /\ owner \in Runs \cup {0}
           /\ history \in Seq(Event)
           /\ MembersOf[p] \subseteq Members
BY HistoryAssumption DEF TypeOK, Work

LEMMA KeyTyped == ASSUME TypeOK, NEW p \in Physicals PROVE KeyNow(p) \in Keys
BY DEF TypeOK, KeyNow, Keys

LEMMA ResultNames == {"PASS", "FAIL", "ERROR", "CANCELLED"} = Results
BY DEF Results

LEMMA FaultTyped == ASSUME TypeOK, Fault PROVE faults' \in Nat
BY DEF TypeOK, Fault

LEMMA EndsTyped ==
    ASSUME TypeOK, NEW p \in Physicals, NEW result \in Results,
           NEW state \in {"closed", "stopped", "live"}, Ends(p, result, state)
    PROVE  windows' \subseteq Window /\ faults' \in Nat /\ halted' \in BOOLEAN
  <1>1. faults \in Nat /\ windows \subseteq Window /\ halted \in BOOLEAN
    BY DEF TypeOK
  <1>2. faults' \in Nat /\ halted' \in BOOLEAN
    BY <1>1 DEF Ends, Fault
  <1>3. windows' \subseteq Window
    BY <1>1, PartsTyped DEF Ends, Window
  <1> QED
    BY <1>2, <1>3

LEMMA ObserveTyped ==
    ASSUME TypeOK, NEW result, NEW ms, Observe(result, ms)
    PROVE  failedAt' \in [Members -> Nat]
  <1>1. Len(history) + 1 \in Nat /\ failedAt \in [Members -> Nat]
    BY DEF TypeOK
  <1> QED
    BY <1>1 DEF Observe

LEMMA EventsTyped ==
    ASSUME TypeOK, NEW p \in Physicals
    PROVE  /\ ExecutionEvent(p, TRUE) \in Event
           /\ ExecutionEvent(p, FALSE) \in Event
           /\ ObservationEvent(p) \in Event
BY PartsTyped, KeyTyped DEF ExecutionEvent, ObservationEvent, Event, Kinds, MaybeMember

LEMMA AppendTyped ==
    ASSUME TypeOK, NEW e \in Event, Append1(e)
    PROVE  history' \in Seq(Event) /\ eventAlias' \subseteq Nat
  <1>1. history \in Seq(Event) /\ Len(history) + 1 \in Nat
    BY DEF TypeOK
  <1> QED
    BY <1>1 DEF Append1

LEMMA AbortTyped ==
    ASSUME TypeOK, NEW p \in Physicals, Abort(p)
    PROVE  /\ work' \in [Physicals -> Work]
           /\ serial' \in Physicals \cup {Nobody}
           /\ halted' \in BOOLEAN /\ alive' \in BOOLEAN /\ selected' \subseteq Members
BY StageNames, GotoTyped DEF TypeOK, Abort

LEMMA StepTyped ==
    ASSUME TypeOK, NEW p \in Physicals, Step(p)
    PROVE  TypeOK'
  <1>1. CASE Select(p)
    <2> DEFINE candidates == {c \in (MembersOf[p] \cap selected) \X DOMAIN history :
                                IsCandidate(history, KeyNow(p), c[1], c[2])}
               todo == {<<c[1], history[c[2]].attempt>> : c \in candidates}
    <2>a. \A i \in DOMAIN history : history[i].attempt \in Nat
      <3>1. history \in Seq(Event)
        BY DEF TypeOK
      <3>2. \A i \in DOMAIN history : history[i] \in Event
        BY <3>1
      <3> QED
        BY <3>2 DEF Event
    <2>b. todo \in SUBSET (Members \X Nat)
      BY <2>a, PartsTyped
    <2>c. Between("observing", todo) \in Work /\ Between("checked", {}) \in Work
      BY <2>b, BetweenTyped, StageNames
    <2>d. Set(p, Between("observing", todo)) \/ Set(p, Between("checked", {}))
      BY <1>1 DEF Select
    <2> HIDE DEF todo
    <2>1. work' \in [Physicals -> Work]
      BY <2>c, <2>d, SetTyped
    <2> QED
      BY <1>1, <2>1 DEF Select, TypeOK, durable, counters
  <1>2. CASE SelectThrows(p)
    BY <1>2, AbortTyped DEF SelectThrows, TypeOK, durable, counters
  <1>3. CASE HaltedBeforeDispatch(p)
    <2>1. work' \in [Physicals -> Work]
      BY <1>3, GotoTyped, StageNames DEF HaltedBeforeDispatch
    <2> QED
      BY <1>3, <2>1 DEF HaltedBeforeDispatch, TypeOK, durable, counters
  <1>4. CASE BeginExecution(p)
    <2>a. attempts + 1 \in Nat /\ "pending" \in Stages /\ "PASS" \in Results
      BY PartsTyped, StageNames, ResultNames
    <2>b. Invoked(p, "pending", attempts + 1, "PASS", TRUE) \in Work
      BY <2>a, InvokedTyped
    <2>1. work' \in [Physicals -> Work]
      BY <1>4, <2>b, SetTyped DEF BeginExecution
    <2> QED
      BY <1>4, <2>1, KeyTyped, PartsTyped DEF BeginExecution, TypeOK, durable, counters, Pending, MaybeMember
  <1>5. CASE Spawn(p)
    <2>1. work' \in [Physicals -> Work]
      BY <1>5, GotoTyped, StageNames DEF Spawn
    <2> QED
      BY <1>5, <2>1, PartsTyped DEF Spawn, TypeOK, durable, counters, Window
  <1>6. CASE ExecutionThrows(p)
    <2>1. work' \in [Physicals -> Work]
      BY <1>6, SetTyped, InvokedTyped, PartsTyped, StageNames, ResultNames DEF ExecutionThrows
    <2> QED
      BY <1>6, <2>1 DEF ExecutionThrows, TypeOK, durable, counters, Fault
  <1>7. CASE ExecutionEnds(p)
    <2>1. PICK result \in Results, state \in {"closed", "stopped", "live"} :
             /\ Ends(p, result, state)
             /\ Set(p, Invoked(p, "executed", work[p].attempt, result, state = "closed"))
             /\ Observe(result, MembersOf[p])
      BY <1>7 DEF ExecutionEnds
    <2>2. work' \in [Physicals -> Work]
      BY <2>1, SetTyped, InvokedTyped, PartsTyped, StageNames
    <2>3. windows' \subseteq Window /\ faults' \in Nat /\ halted' \in BOOLEAN
      BY <2>1, EndsTyped
    <2>4. failedAt' \in [Members -> Nat]
      BY <2>1, ObserveTyped
    <2> QED
      BY <1>7, <2>2, <2>3, <2>4 DEF ExecutionEnds, TypeOK
  <1>8. CASE PublishExecution(p)
    <2>1. work' \in [Physicals -> Work]
      BY <1>8, GotoTyped, StageNames DEF PublishExecution
    <2>2. artifacts' \subseteq Artifact
      BY <1>8, KeyTyped, PartsTyped DEF PublishExecution, TypeOK, Artifact
    <2> QED
      BY <1>8, <2>1, <2>2 DEF PublishExecution, TypeOK, counters
  <1>9. CASE LinkExecutionEvent(p)
    <2>1. work' \in [Physicals -> Work]
      BY <1>9, GotoTyped, StageNames DEF LinkExecutionEvent
    <2>2. ExecutionEvent(p, TRUE) \in Event
      BY <1>9, EventsTyped
    <2>3. history' \in Seq(Event) /\ eventAlias' \subseteq Nat
      BY <1>9, <2>2, AppendTyped DEF LinkExecutionEvent
    <2> QED
      BY <1>9, <2>1, <2>3 DEF LinkExecutionEvent, TypeOK, counters
  <1>10. CASE LinkNullEvent(p)
    <2>1. work' \in [Physicals -> Work]
      BY <1>10, GotoTyped, StageNames DEF LinkNullEvent
    <2>2. ExecutionEvent(p, FALSE) \in Event
      BY <1>10, EventsTyped
    <2>3. history' \in Seq(Event) /\ eventAlias' \subseteq Nat
      BY <1>10, <2>2, AppendTyped DEF LinkNullEvent
    <2> QED
      BY <1>10, <2>1, <2>3 DEF LinkNullEvent, TypeOK, counters
  <1>11. CASE UnlinkEvent(p)
    BY <1>11 DEF UnlinkEvent, TypeOK, durable, counters, volatile
  <1>12. CASE SettleExecution(p)
    <2>1. work' \in [Physicals -> Work]
      BY <1>12, SetTyped, BetweenTyped, PartsTyped, StageNames DEF SettleExecution
    <2> QED
      BY <1>12, <2>1 DEF SettleExecution, TypeOK, durable, counters
  <1>13. CASE SettleNull(p)
    <2>1. work' \in [Physicals -> Work]
      BY <1>13, SetTyped, BetweenTyped, StageNames DEF SettleNull
    <2> QED
      BY <1>13, <2>1 DEF SettleNull, TypeOK, durable, counters
  <1>14. CASE LinkRequest(p)
    <2>1. PICK mark \in work[p].todo :
             Set(p, [at |-> "requested", attempt |-> mark[2], member |-> mark[1],
                     result |-> "PASS", closed |-> TRUE, todo |-> work[p].todo \ {mark}])
      BY <1>14 DEF LinkRequest
    <2>2. [at |-> "requested", attempt |-> mark[2], member |-> mark[1],
           result |-> "PASS", closed |-> TRUE, todo |-> work[p].todo \ {mark}] \in Work
      BY PartsTyped, StageNames, ResultNames DEF Work, MaybeMember
    <2>3. work' \in [Physicals -> Work]
      BY <2>1, <2>2, SetTyped
    <2> QED
      BY <1>14, <2>3 DEF LinkRequest, TypeOK, counters
  <1>15. CASE ObservationsDone(p)
    <2>1. work' \in [Physicals -> Work]
      BY <1>15, SetTyped, BetweenTyped, StageNames DEF ObservationsDone
    <2> QED
      BY <1>15, <2>1 DEF ObservationsDone, TypeOK, durable, counters
  <1>16. CASE UnlinkFile(p)
    BY <1>16 DEF UnlinkFile, TypeOK, durable, counters, volatile
  <1>17. CASE BeginObservation(p)
    <2>1. work' \in [Physicals -> Work]
      BY <1>17, GotoTyped, StageNames DEF BeginObservation
    <2> QED
      BY <1>17, <2>1, KeyTyped, PartsTyped DEF BeginObservation, TypeOK, durable, counters, ObservationPending, Pending
  <1>18. CASE ObservationEnds(p)
    <2>1. PICK result \in Results, state \in {"closed", "stopped", "live"} :
             /\ Ends(p, result, state)
             /\ Set(p, Invoked(p, "examined", work[p].attempt, result, state = "closed"))
             /\ Observe(result, {work[p].member})
      BY <1>18 DEF ObservationEnds
    <2>2. work' \in [Physicals -> Work]
      BY <2>1, SetTyped, InvokedTyped, PartsTyped, StageNames
    <2>3. windows' \subseteq Window /\ faults' \in Nat /\ halted' \in BOOLEAN
      BY <2>1, EndsTyped
    <2>4. failedAt' \in [Members -> Nat]
      BY <2>1, ObserveTyped
    <2> QED
      BY <1>18, <2>2, <2>3, <2>4 DEF ObservationEnds, TypeOK
  <1>19. CASE LinkStreams(p)
    <2>1. work' \in [Physicals -> Work]
      BY <1>19, GotoTyped, StageNames DEF LinkStreams
    <2> QED
      BY <1>19, <2>1 DEF LinkStreams, TypeOK, durable, counters
  <1>20. CASE LinkReceipt(p)
    <2>1. work' \in [Physicals -> Work]
      BY <1>20, GotoTyped, StageNames DEF LinkReceipt
    <2> QED
      BY <1>20, <2>1, KeyTyped, PartsTyped DEF LinkReceipt, TypeOK, counters, Receipt
  <1>21. CASE LinkObservationEvent(p)
    <2>1. work' \in [Physicals -> Work]
      BY <1>21, GotoTyped, StageNames DEF LinkObservationEvent
    <2>2. ObservationEvent(p) \in Event
      BY <1>21, EventsTyped
    <2>3. history' \in Seq(Event) /\ eventAlias' \subseteq Nat
      BY <1>21, <2>2, AppendTyped DEF LinkObservationEvent
    <2> QED
      BY <1>21, <2>1, <2>3 DEF LinkObservationEvent, TypeOK, counters
  <1>22. CASE SettleObservation(p)
    <2>1. work' \in [Physicals -> Work]
      BY <1>22, SetTyped, BetweenTyped, PartsTyped, StageNames DEF SettleObservation
    <2> QED
      BY <1>22, <2>1 DEF SettleObservation, TypeOK, durable, counters
  <1>23. CASE ObservationUnresolved(p)
    BY <1>23, AbortTyped DEF ObservationUnresolved, TypeOK, durable, counters
  <1>24. CASE Refused(p)
    BY <1>24, AbortTyped DEF Refused, TypeOK, durable, counters
  <1> QED
    BY <1>1, <1>2, <1>3, <1>4, <1>5, <1>6, <1>7, <1>8, <1>9, <1>10, <1>11, <1>12,
       <1>13, <1>14, <1>15, <1>16, <1>17, <1>18, <1>19, <1>20, <1>21, <1>22, <1>23, <1>24 DEF Step

LEMMA NextTyped ==
    ASSUME TypeOK, [Next]_vars
    PROVE  TypeOK'
  <1>1. CASE Release
    BY <1>1, NoWorkTyped DEF Release, TypeOK, counters
  <1>2. CASE Abandon
    BY <1>2, NoWorkTyped DEF Abandon, TypeOK, durable, counters
  <1>3. CASE StartRecovery
    BY <1>3 DEF StartRecovery, TypeOK, counters, volatile
  <1>4. CASE CreateSnapshot
    BY <1>4 DEF CreateSnapshot, TypeOK, counters, volatile
  <1>5. CASE WriteSnapshot
    BY <1>5 DEF WriteSnapshot, TypeOK, counters, volatile
  <1>6. CASE FindSnapshot
    BY <1>6 DEF FindSnapshot, TypeOK, durable, counters, volatile
  <1>7. CASE RetireAlias
    BY <1>7 DEF RetireAlias, TypeOK, counters, volatile
  <1>8. CASE LinkIndeterminate
    <2>1. PICK q \in pending : Append1(IndeterminateEvent(q))
      BY <1>8 DEF LinkIndeterminate
    <2>2. q \in Pending /\ owner \in Runs \cup {0}
      BY DEF TypeOK
    <2>3. IndeterminateEvent(q) \in Event
      BY <2>2, ResultNames DEF IndeterminateEvent, Pending, Event, Kinds
    <2>4. history' \in Seq(Event) /\ eventAlias' \subseteq Nat
      BY <2>1, <2>3, AppendTyped
    <2> QED
      BY <1>8, <2>4 DEF LinkIndeterminate, TypeOK, counters, volatile
  <1>9. CASE UnlinkIndeterminate
    BY <1>9 DEF UnlinkIndeterminate, TypeOK, counters, volatile
  <1>10. CASE PendingAccounted
    BY <1>10 DEF PendingAccounted, TypeOK, durable, counters, volatile
  <1>11. CASE Verify
    BY <1>11 DEF Verify, TypeOK, durable, counters, volatile
  <1>12. CASE Retire
    BY <1>12 DEF Retire, TypeOK, counters, volatile
  <1>13. CASE RemoveGuard
    BY <1>13 DEF RemoveGuard, EndRecovery, TypeOK, counters, volatile
  <1>14. CASE RecoveryRefused
    BY <1>14 DEF RecoveryRefused, EndRecovery, TypeOK, counters, volatile
  <1>15. CASE ChangeInputs
    BY <1>15 DEF ChangeInputs, TypeOK, durable, counters, volatile
  <1>16. CASE OpenSession
    <2>1. selected' \subseteq Members
      BY <1>16, StoreAssumption DEF OpenSession
    <2>2. work' \in [Physicals -> Work]
      BY <1>16, NoWorkTyped DEF OpenSession
    <2>3. halted' \in BOOLEAN
      BY <1>16 DEF OpenSession
    <2>4. owner' \in Runs \cup {0} /\ sessions' \in Nat
      BY <1>16 DEF OpenSession, TypeOK
    <2> QED
      BY <1>16, <2>1, <2>2, <2>3, <2>4 DEF OpenSession, TypeOK
  <1>17. CASE Cancel
    <2>1. faults' \in Nat
      BY <1>17, FaultTyped DEF Cancel
    <2> QED
      BY <1>17, <2>1 DEF Cancel, TypeOK, durable
  <1>18. CASE Crash
    <2>1. crashes' \in Nat
      BY <1>18 DEF Crash, TypeOK
    <2>2. work' \in [Physicals -> Work]
      BY <1>18, NoWorkTyped DEF Crash, Forget
    <2> QED
      BY <1>18, <2>1, <2>2 DEF Crash, Forget, TypeOK, durable
  <1>19. CASE Reboot
    BY <1>19 DEF Reboot, TypeOK, durable, counters, volatile
  <1>20. CASE RecoveryThrows
    <2>1. faults' \in Nat
      BY <1>20, FaultTyped DEF RecoveryThrows
    <2> QED
      BY <1>20, <2>1 DEF RecoveryThrows, EndRecovery, TypeOK, volatile
  <1>21. CASE RecoveryCrash
    BY <1>21 DEF RecoveryCrash, TypeOK, durable, volatile
  <1>22. ASSUME NEW p \in Physicals, StorageError(p)
         PROVE  TypeOK'
    <2>1. Abort(p)
      BY <1>22 DEF StorageError
    <2> QED
      BY <1>22, <2>1, AbortTyped DEF StorageError, Fault, TypeOK, durable
  <1>23. CASE \E p \in Physicals : Step(p)
    BY <1>23, StepTyped
  <1>24. CASE UNCHANGED vars
    BY <1>24 DEF TypeOK, vars, durable, counters, volatile
  <1> QED
    BY <1>1, <1>2, <1>3, <1>4, <1>5, <1>6, <1>7, <1>8, <1>9, <1>10, <1>11, <1>12, <1>13, <1>14, <1>15,
       <1>16, <1>17, <1>18, <1>19, <1>20, <1>21, <1>22, <1>23, <1>24
       DEF Next, EndSession, Recover, Environment

\* Every state of the store is well typed.
THEOREM TypeCorrect == Spec => []TypeOK
BY InitTyped, NextTyped, PTL DEF Spec

------------------------------------------------------------------------------
(* Accounting.                                                             *)

AboutArtifact(e, x) ==
    /\ e.key = x.key /\ e.attempt = x.attempt
    /\ e.kind # "observation" /\ e.member = NoMember

AboutReceipt(e, c) ==
    /\ e.kind \in {"observation", "indeterminate"}
    /\ e.key = c.key /\ e.attempt = c.attempt /\ e.member = c.member /\ e.run = c.run

LEMMA AppendIndices ==
    ASSUME NEW h \in Seq(Event), NEW e \in Event
    PROVE  /\ Append(h, e) \in Seq(Event)
           /\ DOMAIN Append(h, e) = DOMAIN h \cup {Len(h) + 1}
           /\ DOMAIN h \subseteq Nat
           /\ Len(h) + 1 \in Nat
           /\ Len(h) + 1 \notin DOMAIN h
           /\ \A i \in DOMAIN h : Append(h, e)[i] = h[i] /\ i < Len(h) + 1
           /\ Append(h, e)[Len(h) + 1] = e
OBVIOUS

\* An append keeps an artifact accounted unless it records another outcome.
LEMMA ArtifactStaysAccounted ==
    ASSUME NEW h \in Seq(Event), NEW e \in Event, NEW x \in Artifact,
           AboutArtifact(e, x) => e.kind = "indeterminate" \/ e.result = x.result,
           AccountsArtifact(h, x) \/ AboutArtifact(e, x)
    PROVE  AccountsArtifact(Append(h, e), x)
  <1> DEFINE g == Append(h, e)
             n == Len(h) + 1
  <1>1. /\ DOMAIN g = DOMAIN h \cup {n} /\ DOMAIN h \subseteq Nat /\ n \in Nat /\ g[n] = e
        /\ n \notin DOMAIN h
        /\ \A i \in DOMAIN h : g[i] = h[i] /\ i < n
    BY AppendIndices
  <1> HIDE DEF g, n
  <1>2. CASE AboutArtifact(e, x)
    <2>1. n \in AttemptEvents(g, x)
      BY <1>1, <1>2 DEF AboutArtifact, AttemptEvents
    <2>2. \A j \in AttemptEvents(g, x) : j <= n
      BY <1>1 DEF AttemptEvents
    <2>3. g[n].kind = "execution" => g[n].result = x.result
      BY <1>1, <1>2
    <2> QED
      BY <2>1, <2>2, <2>3 DEF AccountsArtifact, g
  <1>3. CASE ~AboutArtifact(e, x)
    <2>1. AttemptEvents(g, x) = AttemptEvents(h, x)
      BY <1>1, <1>3 DEF AboutArtifact, AttemptEvents
    <2>2. AccountsArtifact(h, x)
      BY <1>3
    <2>3. PICK i \in AttemptEvents(h, x) :
             /\ \A j \in AttemptEvents(h, x) : j <= i
             /\ h[i].kind = "execution" => h[i].result = x.result
      BY <2>2 DEF AccountsArtifact
    <2>4. g[i] = h[i]
      BY <1>1, <2>3 DEF AttemptEvents
    <2>5. i \in AttemptEvents(g, x) /\ \A j \in AttemptEvents(g, x) : j <= i
      BY <2>1, <2>3, Zenon
    <2>6. g[i].kind = "execution" => g[i].result = x.result
      BY <2>3, <2>4
    <2> QED
      BY <2>5, <2>6 DEF AccountsArtifact, g
  <1> QED
    BY <1>2, <1>3

LEMMA ReceiptStaysAccounted ==
    ASSUME NEW h \in Seq(Event), NEW e \in Event, NEW c,
           AccountsReceipt(h, c) \/ AboutReceipt(e, c)
    PROVE  AccountsReceipt(Append(h, e), c)
BY AppendIndices DEF AccountsReceipt, AboutReceipt

Recorded == <<history, artifacts, receipts, owner, pending, attempts, version, recovery, alive>>

\* q goes on with the invocation it is in.
GoesOn(q) ==
    /\ work'[q].attempt = work[q].attempt /\ work'[q].member = work[q].member
    /\ \/ {work[q].at, work'[q].at} \subseteq Announcing \ {"published", "appended"}
       \/ {work[q].at, work'[q].at} \subseteq AnnouncingObservation \ {"obsappended"}

\* Steps that record nothing: workers stand still, go on, or leave an invocation.
LEMMA RecordNothing ==
    ASSUME AccountingInv, UNCHANGED Recorded,
           \A q \in Physicals : \/ work'[q] = work[q]
                                \/ work'[q].at \notin Announcing \cup AnnouncingObservation
                                \/ GoesOn(q)
    PROVE  (Accounted /\ InvocationsAnnounced /\ FreshAttempts /\ Settled /\ Ownership)'
  <1> USE DEF AccountingInv, Recorded
  <1>1. Accounted'
    BY DEF Accounted
  <1>2. InvocationsAnnounced'
    BY DEF InvocationsAnnounced, At, GoesOn, ExecutionPending, ObservationPending, KeyNow,
           Announcing, AnnouncingObservation
  <1>3. FreshAttempts'
    BY DEF FreshAttempts, At, GoesOn, SameAttempt, KeyNow, Announcing, AnnouncingObservation
  <1>4. Settled'
    BY DEF Settled, At, GoesOn, SameAttempt, KeyNow, Announcing, AnnouncingObservation
  <1>5. Ownership'
    BY DEF Ownership, AllAccounted
  <1> QED
    BY <1>1, <1>2, <1>3, <1>4, <1>5

LEMMA WorkerWrites ==
    ASSUME TypeOK, NEW p \in Physicals, NEW w, Set(p, w)
    PROVE  work'[p] = w /\ \A q \in Physicals \ {p} : work'[q] = work[q]
BY DEF TypeOK, Set

LEMMA WorkerGoes ==
    ASSUME TypeOK, NEW p \in Physicals, NEW stage, Goto(p, stage)
    PROVE  /\ work'[p].at = stage /\ work'[p].attempt = work[p].attempt
           /\ work'[p].member = work[p].member /\ work'[p].result = work[p].result
           /\ work'[p].closed = work[p].closed
           /\ \A q \in Physicals \ {p} : work'[q] = work[q]
BY WorkerWrites DEF Goto, Invoked

\* A worker that throws, or that turns to the next thing to observe, announces nothing.
LEMMA AbortLeaves ==
    ASSUME TypeOK, NEW p \in Physicals, Abort(p)
    PROVE  \A q \in Physicals : \/ work'[q] = work[q]
                                \/ work'[q].at \notin Announcing \cup AnnouncingObservation
                                \/ GoesOn(q)
BY WorkerGoes DEF Abort, Announcing, AnnouncingObservation

LEMMA BetweenLeaves ==
    ASSUME TypeOK, NEW p \in Physicals, NEW todo,
           NEW stage \in Stages \ (Announcing \cup AnnouncingObservation),
           Set(p, Between(stage, todo))
    PROVE  \A q \in Physicals : \/ work'[q] = work[q]
                                \/ work'[q].at \notin Announcing \cup AnnouncingObservation
                                \/ GoesOn(q)
BY WorkerWrites DEF Between

Kept == (Accounted /\ InvocationsAnnounced /\ FreshAttempts /\ Settled /\ Ownership)'

\* The session's steps that write nothing the accounting is about.
LEMMA SilentSteps ==
    ASSUME AccountingInv, NEW p \in Physicals,
           \/ Select(p) \/ SelectThrows(p) \/ HaltedBeforeDispatch(p) \/ Spawn(p)
           \/ ExecutionThrows(p) \/ ExecutionEnds(p) \/ UnlinkEvent(p) \/ LinkRequest(p)
           \/ ObservationsDone(p) \/ UnlinkFile(p) \/ ObservationEnds(p) \/ LinkStreams(p)
           \/ ObservationUnresolved(p) \/ Refused(p) \/ StorageError(p)
    PROVE  Kept
  <1> DEFINE Leaves == \A q \in Physicals :
                          \/ work'[q] = work[q]
                          \/ work'[q].at \notin Announcing \cup AnnouncingObservation
                          \/ GoesOn(q)
  <1>0. TypeOK
    BY DEF AccountingInv
  <1>a. UNCHANGED Recorded
    BY DEF Select, SelectThrows, HaltedBeforeDispatch, Spawn, ExecutionThrows, ExecutionEnds,
       UnlinkEvent, LinkRequest, ObservationsDone, UnlinkFile, ObservationEnds, LinkStreams,
       ObservationUnresolved, Refused, StorageError, Abort, Recorded, durable, counters, volatile
  <1>s. "checked" \in Stages \ (Announcing \cup AnnouncingObservation)
        /\ "observing" \in Stages \ (Announcing \cup AnnouncingObservation)
        /\ "done" \in Stages \ (Announcing \cup AnnouncingObservation)
    BY DEF Stages, Quiet, Announcing, AnnouncingObservation
  <1>1. CASE Select(p)
    <2>1. PICK todo : Set(p, Between("observing", todo)) \/ Set(p, Between("checked", {}))
      BY <1>1 DEF Select
    <2> QED
      BY <1>0, <1>s, <2>1, BetweenLeaves, <1>a, RecordNothing DEF Kept
  <1>2. CASE SelectThrows(p) \/ ObservationUnresolved(p) \/ Refused(p) \/ StorageError(p)
    <2>1. Abort(p)
      BY <1>2 DEF SelectThrows, ObservationUnresolved, Refused, StorageError
    <2> QED
      BY <1>0, <2>1, AbortLeaves, <1>a, RecordNothing DEF Kept
  <1>3. CASE HaltedBeforeDispatch(p) \/ Spawn(p) \/ LinkStreams(p)
    <2>1. Leaves
      BY <1>0, <1>3, WorkerGoes
         DEF HaltedBeforeDispatch, Spawn, LinkStreams, At, GoesOn, Announcing, AnnouncingObservation
    <2> QED
      BY <2>1, <1>a, RecordNothing DEF Kept
  <1>4. CASE ExecutionThrows(p) \/ ExecutionEnds(p) \/ ObservationEnds(p)
    <2>1. PICK stage, result, closed :
             /\ Set(p, Invoked(p, stage, work[p].attempt, result, closed))
             /\ \/ work[p].at \in {"pending", "running"} /\ stage \in {"thrown", "executed"}
                \/ work[p].at = "checking" /\ stage = "examined"
      <3>1. CASE ExecutionThrows(p)
        BY <3>1 DEF ExecutionThrows, At
      <3>2. CASE ExecutionEnds(p)
        BY <3>2 DEF ExecutionEnds, At
      <3>3. CASE ObservationEnds(p)
        BY <3>3 DEF ObservationEnds, At
      <3> QED
        BY <1>4, <3>1, <3>2, <3>3
    <2>2. /\ work'[p].at = stage /\ work'[p].attempt = work[p].attempt
          /\ work'[p].member = work[p].member
          /\ \A q \in Physicals \ {p} : work'[q] = work[q]
      BY <1>0, <2>1, WorkerWrites DEF Invoked
    <2>3. Leaves
      BY <2>1, <2>2 DEF GoesOn, Announcing, AnnouncingObservation
    <2> QED
      BY <2>3, <1>a, RecordNothing DEF Kept
  <1>5. CASE UnlinkEvent(p) \/ UnlinkFile(p)
    <2>1. Leaves
      BY <1>5 DEF UnlinkEvent, UnlinkFile, volatile
    <2> QED
      BY <2>1, <1>a, RecordNothing DEF Kept
  <1>6. CASE LinkRequest(p)
    <2>1. PICK mark \in work[p].todo :
             Set(p, [at |-> "requested", attempt |-> mark[2], member |-> mark[1],
                     result |-> "PASS", closed |-> TRUE, todo |-> work[p].todo \ {mark}])
      BY <1>6 DEF LinkRequest
    <2>2. Leaves
      BY <1>0, <2>1, WorkerWrites DEF Announcing, AnnouncingObservation
    <2> QED
      BY <2>2, <1>a, RecordNothing DEF Kept
  <1>7. CASE ObservationsDone(p)
    <2>1. Set(p, Between("done", {}))
      BY <1>7 DEF ObservationsDone
    <2> QED
      BY <1>0, <1>s, <2>1, BetweenLeaves, <1>a, RecordNothing DEF Kept
  <1> QED
    BY <1>1, <1>2, <1>3, <1>4, <1>5, <1>6, <1>7

\* Two physical slots never share an execution key.
LEMMA SlotsDiffer ==
    ASSUME NEW p, NEW q, p # q
    PROVE  KeyNow(p) # KeyNow(q)
BY DEF KeyNow

\* A fresh attempt is announced before anything is spawned for it.
LEMMA BeginExecutionKept ==
    ASSUME AccountingInv, NEW p \in Physicals, BeginExecution(p)
    PROVE  Kept
  <1> DEFINE mine == [kind |-> "execution", key |-> KeyNow(p), attempt |-> attempts + 1, member |-> NoMember]
  <1>1. /\ TypeOK /\ Accounted /\ InvocationsAnnounced /\ FreshAttempts /\ Settled /\ Ownership
    BY DEF AccountingInv
  <1>2. /\ work'[p].at = "pending" /\ work'[p].attempt = attempts + 1
        /\ \A q \in Physicals \ {p} : work'[q] = work[q]
    BY <1>1, WorkerWrites DEF BeginExecution, Invoked
  <1>3. /\ pending' = pending \cup {mine} /\ attempts' = attempts + 1
        /\ UNCHANGED <<history, artifacts, receipts, owner, version, recovery, alive>>
    BY DEF BeginExecution
  <1>4. attempts \in Nat /\ (\A x \in artifacts : x.attempt \in Nat /\ x.attempt <= attempts)
        /\ \A q \in Physicals : work[q].attempt \in Nat
    BY <1>1, PartsTyped DEF FreshAttempts, TypeOK, Artifact
  <1>5. Accounted'
    BY <1>1, <1>3 DEF Accounted
  <1>6. InvocationsAnnounced'
    BY <1>1, <1>2, <1>3 DEF InvocationsAnnounced, At, ExecutionPending, ObservationPending, KeyNow,
       Announcing, AnnouncingObservation
  <1>7. FreshAttempts'
    <2>1. \A x \in artifacts' : x.attempt <= attempts'
      BY <1>3, <1>4
    <2>2. ASSUME NEW q \in Physicals
          PROVE  /\ At(q, Announcing)' => work'[q].attempt <= attempts'
                 /\ At(q, Announcing \ {"published", "appended"})' => \A x \in artifacts' : ~SameAttempt(x, q)'
                 /\ At(q, {"published", "appended"})' =>
                       \A x \in artifacts' : SameAttempt(x, q)' => x.result = work'[q].result
      <3>1. CASE q = p
        BY <3>1, <1>2, <1>3, <1>4 DEF At, SameAttempt
      <3>2. CASE q # p
        BY <3>2, <1>1, <1>2, <1>3, <1>4 DEF FreshAttempts, At, SameAttempt, KeyNow
      <3> QED
        BY <3>1, <3>2
    <2> QED
      BY <2>1, <2>2 DEF FreshAttempts
  <1>8. Settled'
    BY <1>1, <1>2, <1>3 DEF Settled, At, SameAttempt, KeyNow
  <1>9. Ownership'
    BY <1>1, <1>3 DEF Ownership, AllAccounted, BeginExecution, At
  <1> QED
    BY <1>5, <1>6, <1>7, <1>8, <1>9 DEF Kept

\* A commit is of an announced attempt, and of no other artifact.
LEMMA PublishExecutionKept ==
    ASSUME AccountingInv, NEW p \in Physicals, PublishExecution(p)
    PROVE  Kept
  <1> DEFINE mine == [key |-> KeyNow(p), attempt |-> work[p].attempt, result |-> work[p].result]
  <1>1. /\ TypeOK /\ Accounted /\ InvocationsAnnounced /\ FreshAttempts /\ Settled /\ Ownership
    BY DEF AccountingInv
  <1>2. /\ work'[p].at = "published" /\ work'[p].attempt = work[p].attempt
        /\ work'[p].member = work[p].member /\ work'[p].result = work[p].result
        /\ \A q \in Physicals \ {p} : work'[q] = work[q]
    BY <1>1, WorkerGoes DEF PublishExecution
  <1>3. /\ artifacts' = artifacts \cup {mine} /\ At(p, {"executed"})
        /\ UNCHANGED <<history, receipts, owner, pending, version, attempts, recovery, alive>>
    BY DEF PublishExecution, counters
  <1>4. ExecutionPending(p) \in pending /\ work[p].attempt <= attempts
        /\ \A x \in artifacts : ~SameAttempt(x, p)
    BY <1>1, <1>3 DEF InvocationsAnnounced, FreshAttempts, At, Announcing
  <1>5. Accounted'
    BY <1>1, <1>3, <1>4 DEF Accounted, ExecutionPending
  <1>6. InvocationsAnnounced'
    BY <1>1, <1>2, <1>3, <1>4 DEF InvocationsAnnounced, At, ExecutionPending, ObservationPending, KeyNow,
       Announcing, AnnouncingObservation
  <1>7. FreshAttempts'
    <2>1. \A x \in artifacts' : x.attempt <= attempts'
      BY <1>1, <1>3, <1>4 DEF FreshAttempts
    <2>2. ASSUME NEW q \in Physicals
          PROVE  /\ At(q, Announcing)' => work'[q].attempt <= attempts'
                 /\ At(q, Announcing \ {"published", "appended"})' => \A x \in artifacts' : ~SameAttempt(x, q)'
                 /\ At(q, {"published", "appended"})' =>
                       \A x \in artifacts' : SameAttempt(x, q)' => x.result = work'[q].result
      <3>1. CASE q = p
        BY <3>1, <1>2, <1>3, <1>4 DEF At, SameAttempt, KeyNow
      <3>2. CASE q # p
        BY <3>2, <1>1, <1>2, <1>3, SlotsDiffer DEF FreshAttempts, At, SameAttempt, KeyNow
      <3> QED
        BY <3>1, <3>2
    <2> QED
      BY <2>1, <2>2 DEF FreshAttempts
  <1>8. Settled'
    <2>1. ASSUME NEW q \in Physicals, At(q, {"appended"})', NEW x \in artifacts', SameAttempt(x, q)'
          PROVE  AccountsArtifact(history', x)
      <3>1. q # p
        BY <2>1, <1>2 DEF At
      <3>2. x # mine
        BY <2>1, <3>1, <1>2, <1>3 DEF SameAttempt, KeyNow
      <3> QED
        BY <2>1, <3>1, <3>2, <1>1, <1>2, <1>3 DEF Settled, At, SameAttempt, KeyNow
    <2>2. ASSUME NEW q \in Physicals, At(q, {"obsappended"})', NEW c \in receipts',
                 SameAttempt(c, q)', c.member = work'[q].member, c.run = owner'
          PROVE  AccountsReceipt(history', c)
      BY <2>2, <1>1, <1>2, <1>3 DEF Settled, At, SameAttempt, KeyNow
    <2> QED
      BY <2>1, <2>2 DEF Settled
  <1>9. Ownership'
    BY <1>1, <1>3 DEF Ownership, At
  <1> QED
    BY <1>5, <1>6, <1>7, <1>8, <1>9 DEF Kept

\* What an appended event does to the accounting of everything committed.
LEMMA AppendAccounts ==
    ASSUME TypeOK, NEW e \in Event, Append1(e),
           \A x \in artifacts : AboutArtifact(e, x) => e.kind = "indeterminate" \/ e.result = x.result
    PROVE  /\ \A x \in artifacts : AccountsArtifact(history, x) \/ AboutArtifact(e, x)
                                      => AccountsArtifact(history', x)
           /\ \A c \in receipts : AccountsReceipt(history, c) \/ AboutReceipt(e, c)
                                      => AccountsReceipt(history', c)
  <1>1. history \in Seq(Event) /\ artifacts \subseteq Artifact /\ history' = Append(history, e)
    BY DEF TypeOK, Append1
  <1>2. \A x \in artifacts : AccountsArtifact(history, x) \/ AboutArtifact(e, x)
                                => AccountsArtifact(history', x)
    BY <1>1, ArtifactStaysAccounted
  <1>3. \A c \in receipts : AccountsReceipt(history, c) \/ AboutReceipt(e, c)
                                => AccountsReceipt(history', c)
    BY <1>1, ReceiptStaysAccounted
  <1> QED
    BY <1>2, <1>3

\* A session appends an event of the invocation it announced.
LEMMA LinkKept ==
    ASSUME AccountingInv, NEW p \in Physicals,
           LinkExecutionEvent(p) \/ LinkNullEvent(p) \/ LinkObservationEvent(p)
    PROVE  Kept
  <1>1. /\ TypeOK /\ Accounted /\ InvocationsAnnounced /\ FreshAttempts /\ Settled /\ Ownership
    BY DEF AccountingInv
  <1>2. PICK e \in Event, stage \in {"appended", "nullified", "obsappended"} :
           /\ Append1(e) /\ Goto(p, stage)
           /\ \/ /\ work[p].at = "published" /\ stage = "appended"
                 /\ e = ExecutionEvent(p, TRUE)
              \/ /\ work[p].at = "thrown" /\ stage = "nullified"
                 /\ e = ExecutionEvent(p, FALSE)
              \/ /\ work[p].at = "received" /\ stage = "obsappended"
                 /\ e = ObservationEvent(p)
    BY <1>1, EventsTyped DEF LinkExecutionEvent, LinkNullEvent, LinkObservationEvent, At
  <1>3. /\ work'[p].at = stage /\ work'[p].attempt = work[p].attempt
        /\ work'[p].member = work[p].member /\ work'[p].result = work[p].result
        /\ \A q \in Physicals \ {p} : work'[q] = work[q]
    BY <1>1, <1>2, WorkerGoes
  <1>4. /\ alive
        /\ UNCHANGED <<artifacts, receipts, owner, pending, version, attempts, recovery, alive>>
    BY DEF LinkExecutionEvent, LinkNullEvent, LinkObservationEvent, At, counters
  <1>5. /\ work[p].at = "published" => /\ \A x \in artifacts : SameAttempt(x, p) => x.result = work[p].result
        /\ work[p].at = "thrown" => \A x \in artifacts : ~SameAttempt(x, p)
    BY <1>1, <1>4 DEF FreshAttempts, At, Announcing
  <1>6. \A x \in artifacts : AboutArtifact(e, x) => e.kind = "indeterminate" \/ e.result = x.result
    BY <1>2, <1>5 DEF AboutArtifact, ExecutionEvent, ObservationEvent, SameAttempt
  <1>7. /\ \A x \in artifacts : AccountsArtifact(history, x) \/ AboutArtifact(e, x)
                                   => AccountsArtifact(history', x)
        /\ \A c \in receipts : AccountsReceipt(history, c) \/ AboutReceipt(e, c)
                                   => AccountsReceipt(history', c)
    BY <1>1, <1>2, <1>6, AppendAccounts
  <1>8. Accounted'
    BY <1>1, <1>4, <1>7 DEF Accounted
  <1>9. InvocationsAnnounced'
    BY <1>1, <1>2, <1>3, <1>4 DEF InvocationsAnnounced, At, ExecutionPending, ObservationPending, KeyNow,
       Announcing, AnnouncingObservation
  <1>10. FreshAttempts'
    <2>1. ASSUME NEW q \in Physicals
          PROVE  /\ At(q, Announcing)' => work'[q].attempt <= attempts'
                 /\ At(q, Announcing \ {"published", "appended"})' => \A x \in artifacts' : ~SameAttempt(x, q)'
                 /\ At(q, {"published", "appended"})' =>
                       \A x \in artifacts' : SameAttempt(x, q)' => x.result = work'[q].result
      <3>1. CASE q = p
        <4>1. \A x \in artifacts : SameAttempt(x, p)' <=> SameAttempt(x, p)
          BY <1>3, <1>4 DEF SameAttempt, KeyNow
        <4>2. stage # "obsappended" => work[p].attempt <= attempts
          BY <1>1, <1>2, <1>4 DEF FreshAttempts, At, Announcing
        <4> QED
          BY <3>1, <4>1, <4>2, <1>2, <1>3, <1>4, <1>5 DEF At, Announcing
      <3>2. CASE q # p
        BY <3>2, <1>1, <1>3, <1>4 DEF FreshAttempts, At, SameAttempt, KeyNow
      <3> QED
        BY <3>1, <3>2
    <2> QED
      BY <2>1, <1>1, <1>4 DEF FreshAttempts
  <1>11. Settled'
    <2>1. ASSUME NEW q \in Physicals, At(q, {"appended"})', NEW x \in artifacts', SameAttempt(x, q)'
          PROVE  AccountsArtifact(history', x)
      <3>1. CASE q = p
        <4>1. e = ExecutionEvent(p, TRUE) /\ SameAttempt(x, p)
          BY <2>1, <3>1, <1>2, <1>3, <1>4 DEF At, SameAttempt, KeyNow
        <4>2. AboutArtifact(e, x)
          BY <4>1 DEF AboutArtifact, ExecutionEvent, SameAttempt
        <4> QED
          BY <2>1, <4>2, <1>4, <1>7
      <3>2. CASE q # p
        <4>1. At(q, {"appended"}) /\ SameAttempt(x, q) /\ x \in artifacts
          BY <2>1, <3>2, <1>3, <1>4 DEF At, SameAttempt, KeyNow
        <4> QED
          BY <4>1, <1>1, <1>7 DEF Settled
      <3> QED
        BY <3>1, <3>2
    <2>2. ASSUME NEW q \in Physicals, At(q, {"obsappended"})', NEW c \in receipts',
                 SameAttempt(c, q)', c.member = work'[q].member, c.run = owner'
          PROVE  AccountsReceipt(history', c)
      <3>1. CASE q = p
        <4>1. e = ObservationEvent(p) /\ SameAttempt(c, p) /\ c.member = work[p].member /\ c.run = owner
          BY <2>2, <3>1, <1>2, <1>3, <1>4 DEF At, SameAttempt, KeyNow
        <4>2. AboutReceipt(e, c)
          BY <4>1 DEF AboutReceipt, ObservationEvent, SameAttempt
        <4> QED
          BY <2>2, <4>2, <1>4, <1>7
      <3>2. CASE q # p
        <4>1. /\ At(q, {"obsappended"}) /\ SameAttempt(c, q) /\ c \in receipts
              /\ c.member = work[q].member /\ c.run = owner
          BY <2>2, <3>2, <1>3, <1>4 DEF At, SameAttempt, KeyNow
        <4> QED
          BY <4>1, <1>1, <1>7 DEF Settled
      <3> QED
        BY <3>1, <3>2
    <2> QED
      BY <2>1, <2>2 DEF Settled
  <1>12. Ownership'
    BY <1>1, <1>4 DEF Ownership
  <1> QED
    BY <1>8, <1>9, <1>10, <1>11, <1>12 DEF Kept

\* Clearing a pending result: its event is durable, and no other worker's goes.
LEMMA SettleKept ==
    ASSUME AccountingInv, NEW p \in Physicals,
           SettleExecution(p) \/ SettleNull(p) \/ SettleObservation(p)
    PROVE  Kept
  <1>1. /\ TypeOK /\ Accounted /\ InvocationsAnnounced /\ FreshAttempts /\ Settled /\ Ownership
    BY DEF AccountingInv
  <1>2. PICK stage, todo : stage \in {"observing", "done"} /\ Set(p, Between(stage, todo))
    BY DEF SettleExecution, SettleNull, SettleObservation
  <1>3. /\ work'[p].at \notin Announcing \cup AnnouncingObservation
        /\ \A q \in Physicals \ {p} : work'[q] = work[q]
    BY <1>1, <1>2, WorkerWrites DEF Between, Announcing, AnnouncingObservation
  <1>4. /\ alive
        /\ UNCHANGED <<history, artifacts, receipts, owner, version, attempts, recovery, alive>>
    BY DEF SettleExecution, SettleNull, SettleObservation, At, counters
  <1>5. PICK mine \in {ExecutionPending(p), ObservationPending(p)} :
           /\ pending' = pending \ {mine} \/ pending' = pending
           /\ \/ work[p].at \in {"appended", "nullified"} /\ mine = ExecutionPending(p)
              \/ work[p].at = "obsappended" /\ mine = ObservationPending(p)
    BY DEF SettleExecution, SettleNull, SettleObservation, At
  <1>6. mine.key = KeyNow(p) /\ mine.attempt = work[p].attempt
    BY <1>5 DEF ExecutionPending, ObservationPending
  <1>7. Accounted'
    <2>1. ASSUME NEW x \in artifacts, ~AccountsArtifact(history, x)
          PROVE  [kind |-> "execution", key |-> x.key, attempt |-> x.attempt, member |-> NoMember] \in pending'
      <3> DEFINE its == [kind |-> "execution", key |-> x.key, attempt |-> x.attempt, member |-> NoMember]
      <3>1. its \in pending
        BY <2>1, <1>1 DEF Accounted
      <3>2. its # mine
        <4>1. CASE work[p].at = "appended"
          BY <4>1, <2>1, <1>1, <1>4, <1>6 DEF Settled, At, SameAttempt
        <4>2. CASE work[p].at = "nullified"
          BY <4>2, <1>1, <1>4, <1>6 DEF FreshAttempts, At, SameAttempt, Announcing
        <4>3. CASE work[p].at = "obsappended"
          BY <4>3, <1>5 DEF ObservationPending
        <4> QED
          BY <4>1, <4>2, <4>3, <1>5
      <3> QED
        BY <3>1, <3>2, <1>5
    <2>2. ASSUME NEW c \in receipts, ~AccountsReceipt(history, c)
          PROVE  /\ owner = c.run
                 /\ [kind |-> "observation", key |-> c.key, attempt |-> c.attempt, member |-> c.member] \in pending'
      <3> DEFINE its == [kind |-> "observation", key |-> c.key, attempt |-> c.attempt, member |-> c.member]
      <3>1. its \in pending /\ owner = c.run
        BY <2>2, <1>1 DEF Accounted
      <3>2. its # mine
        <4>1. CASE work[p].at \in {"appended", "nullified"}
          BY <4>1, <1>5 DEF ExecutionPending
        <4>2. CASE work[p].at = "obsappended"
          BY <4>2, <2>2, <3>1, <1>1, <1>4, <1>5 DEF Settled, At, SameAttempt, ObservationPending
        <4> QED
          BY <4>1, <4>2, <1>5
      <3> QED
        BY <3>1, <3>2, <1>5
    <2> QED
      BY <2>1, <2>2, <1>4 DEF Accounted
  <1>8. InvocationsAnnounced'
    <2>1. \A q \in Physicals \ {p} : ExecutionPending(q) # mine /\ ObservationPending(q) # mine
      BY <1>6, SlotsDiffer DEF ExecutionPending, ObservationPending
    <2>2. \A q \in Physicals \ {p} : /\ ExecutionPending(q)' = ExecutionPending(q)
                                     /\ ObservationPending(q)' = ObservationPending(q)
      BY <1>3, <1>4 DEF ExecutionPending, ObservationPending, KeyNow
    <2> QED
      BY <2>1, <2>2, <1>1, <1>3, <1>4, <1>5 DEF InvocationsAnnounced, At
  <1>9. FreshAttempts'
    BY <1>1, <1>3, <1>4 DEF FreshAttempts, At, SameAttempt, KeyNow, Announcing
  <1>10. Settled'
    BY <1>1, <1>3, <1>4 DEF Settled, At, SameAttempt, KeyNow, Announcing, AnnouncingObservation
  <1>11. Ownership'
    BY <1>1, <1>4, <1>5 DEF Ownership, AllAccounted
  <1> QED
    BY <1>7, <1>8, <1>9, <1>10, <1>11 DEF Kept

\* The pending result of an observation precedes its receipt.
LEMMA ObservationKept ==
    ASSUME AccountingInv, NEW p \in Physicals, BeginObservation(p) \/ LinkReceipt(p)
    PROVE  Kept
  <1>1. /\ TypeOK /\ Accounted /\ InvocationsAnnounced /\ FreshAttempts /\ Settled /\ Ownership
    BY DEF AccountingInv
  <1>2. PICK stage \in {"obspending", "received"} : Goto(p, stage)
    BY DEF BeginObservation, LinkReceipt
  <1>3. /\ work'[p].at = stage /\ work'[p].attempt = work[p].attempt
        /\ work'[p].member = work[p].member /\ work'[p].result = work[p].result
        /\ \A q \in Physicals \ {p} : work'[q] = work[q]
    BY <1>1, <1>2, WorkerGoes
  <1>4. /\ alive
        /\ UNCHANGED <<history, artifacts, owner, version, attempts, recovery, alive>>
    BY DEF BeginObservation, LinkReceipt, At, counters
  <1>5. pending \subseteq pending' /\ ObservationPending(p) \in pending'
    BY <1>1 DEF BeginObservation, LinkReceipt, InvocationsAnnounced, At, AnnouncingObservation
  <1>6. \A c \in receipts' : \/ c \in receipts
                             \/ /\ c.run = owner /\ c.key = KeyNow(p) /\ c.attempt = work[p].attempt
                                /\ c.member = work[p].member
    BY DEF BeginObservation, LinkReceipt
  <1>7. Accounted'
    BY <1>1, <1>4, <1>5, <1>6 DEF Accounted, ObservationPending
  <1>8. InvocationsAnnounced'
    BY <1>1, <1>2, <1>3, <1>4, <1>5 DEF InvocationsAnnounced, At, ExecutionPending, ObservationPending, KeyNow,
       Announcing, AnnouncingObservation
  <1>9. FreshAttempts'
    BY <1>1, <1>2, <1>3, <1>4 DEF FreshAttempts, At, SameAttempt, KeyNow, Announcing
  <1>10. Settled'
    <2>1. ASSUME NEW q \in Physicals, At(q, {"appended"})', NEW x \in artifacts', SameAttempt(x, q)'
          PROVE  AccountsArtifact(history', x)
      BY <2>1, <1>1, <1>2, <1>3, <1>4 DEF Settled, At, SameAttempt, KeyNow
    <2>2. ASSUME NEW q \in Physicals, At(q, {"obsappended"})', NEW c \in receipts',
                 SameAttempt(c, q)', c.member = work'[q].member, c.run = owner'
          PROVE  AccountsReceipt(history', c)
      <3>1. q # p /\ At(q, {"obsappended"}) /\ SameAttempt(c, q)
        BY <2>2, <1>2, <1>3, <1>4 DEF At, SameAttempt, KeyNow
      <3>2. c \in receipts
        BY <2>2, <3>1, <1>6, SlotsDiffer DEF SameAttempt
      <3> QED
        BY <2>2, <3>1, <3>2, <1>1, <1>3, <1>4 DEF Settled
    <2> QED
      BY <2>1, <2>2 DEF Settled
  <1>11. Ownership'
    BY <1>1, <1>4 DEF Ownership
  <1> QED
    BY <1>7, <1>8, <1>9, <1>10, <1>11 DEF Kept

\* What is said of the workers holds of a dead session.
LEMMA NobodyWorks ==
    ASSUME AccountingInv, ~alive', UNCHANGED <<artifacts, attempts>>
    PROVE  (InvocationsAnnounced /\ FreshAttempts /\ Settled)'
BY DEF AccountingInv, InvocationsAnnounced, FreshAttempts, Settled, At

\* A session begins and ends, and a recovery runs, with no invocation in flight.
LEMMA RestKept ==
    ASSUME AccountingInv, EndSession \/ Recover \/ Environment \/ UNCHANGED vars
    PROVE  Kept
  <1>1. /\ TypeOK /\ Accounted /\ InvocationsAnnounced /\ FreshAttempts /\ Settled /\ Ownership
    BY DEF AccountingInv
  <1>2. CASE Release \/ Abandon \/ Crash
    <2>1. ~alive' /\ UNCHANGED <<history, artifacts, receipts, attempts, recovery>>
      BY <1>2 DEF Release, Abandon, Crash, Forget, durable, counters
    <2>2. recovery \in {"none", "retired"}
      BY <1>1, <1>2 DEF Release, Abandon, Crash, Finished, Ownership
    <2>3. pending' = pending /\ (owner' = owner \/ (owner' = 0 /\ pending = {}))
      BY <1>2 DEF Release, Abandon, Crash, durable
    <2>4. Accounted'
      BY <1>1, <2>1, <2>3 DEF Accounted
    <2>5. Ownership'
      BY <1>1, <2>1, <2>2, <2>3 DEF Ownership
    <2> QED
      BY <2>1, <2>4, <2>5, NobodyWorks DEF Kept
  <1>3. CASE Cancel \/ Reboot \/ UNCHANGED vars
    <2>1. UNCHANGED Recorded /\ work' = work
      BY <1>3 DEF Cancel, Reboot, vars, Recorded, durable, counters, volatile
    <2> QED
      BY <2>1, RecordNothing DEF Kept
  <1>4. CASE ChangeInputs
    <2>1. ~alive' /\ UNCHANGED <<history, artifacts, receipts, owner, pending, attempts, recovery, alive>>
      BY <1>1, <1>4 DEF ChangeInputs, Ownership, durable, counters, volatile
    <2>2. Accounted' /\ Ownership'
      BY <1>1, <2>1 DEF Accounted, Ownership, AllAccounted
    <2> QED
      BY <2>1, <2>2, NobodyWorks DEF Kept
  <1>5. CASE OpenSession
    <2>1. /\ owner = 0 /\ owner' # 0 /\ alive' /\ work' = NoWork
          /\ UNCHANGED <<history, artifacts, receipts, pending, attempts, recovery>>
      BY <1>1, <1>5 DEF OpenSession, TypeOK
    <2>2. \A q \in Physicals : work'[q].at = "idle"
      BY <2>1 DEF NoWork, Between
    <2>3. (InvocationsAnnounced /\ FreshAttempts /\ Settled)'
      BY <1>1, <2>1, <2>2 DEF InvocationsAnnounced, FreshAttempts, Settled, At, Announcing, AnnouncingObservation
    <2>4. pending = {} /\ recovery \in {"none", "retired"}
      BY <1>1, <2>1 DEF Ownership
    <2>5. Accounted' /\ Ownership'
      BY <1>1, <2>1, <2>4 DEF Accounted, Ownership
    <2> QED
      BY <2>3, <2>5 DEF Kept
  <1>6. CASE LinkIndeterminate
    <2>1. PICK q \in pending : Append1(IndeterminateEvent(q))
      BY <1>6 DEF LinkIndeterminate
    <2>2. /\ recovery = "preserved" /\ recovery' = "linked"
          /\ UNCHANGED <<artifacts, receipts, owner, pending, attempts, alive>>
      BY <1>6 DEF LinkIndeterminate, counters, volatile
    <2>3. owner # 0 /\ ~alive
      BY <1>1, <2>2 DEF Ownership
    <2>4. q \in Pending /\ owner \in Runs \cup {0}
      BY <1>1 DEF TypeOK
    <2>5. IndeterminateEvent(q) \in Event /\ IndeterminateEvent(q).kind = "indeterminate"
      BY <2>4, ResultNames DEF IndeterminateEvent, Pending, Event, Kinds
    <2>6. /\ \A x \in artifacts : AccountsArtifact(history, x) => AccountsArtifact(history', x)
          /\ \A c \in receipts : AccountsReceipt(history, c) => AccountsReceipt(history', c)
      BY <1>1, <2>1, <2>5, AppendAccounts
    <2>7. Accounted' /\ Ownership'
      BY <1>1, <2>2, <2>3, <2>6 DEF Accounted, Ownership
    <2> QED
      BY <2>2, <2>3, <2>7, NobodyWorks DEF Kept
  <1>7. CASE Retire
    <2>1. /\ recovery = "verified" /\ recovery' = "retired" /\ owner' = 0 /\ pending' = {}
          /\ UNCHANGED <<history, artifacts, receipts, attempts, alive>>
      BY <1>7 DEF Retire, counters, volatile
    <2>2. AllAccounted /\ ~alive
      BY <1>1, <2>1 DEF Ownership
    <2>3. Accounted' /\ Ownership'
      BY <2>1, <2>2 DEF Accounted, Ownership, AllAccounted
    <2> QED
      BY <2>1, <2>2, <2>3, NobodyWorks DEF Kept
  <1>8. CASE Verify
    <2>1. /\ recovery = "accounted" /\ Readable /\ recovery' = "verified"
          /\ UNCHANGED <<history, artifacts, receipts, owner, pending, attempts, alive>>
      BY <1>8 DEF Verify, durable, counters, volatile
    <2>2. owner # 0 /\ ~alive
      BY <1>1, <2>1 DEF Ownership
    <2>3. AllAccounted'
      BY <2>1 DEF Readable, AllAccounted
    <2>4. Accounted' /\ Ownership'
      BY <1>1, <2>1, <2>2, <2>3 DEF Accounted, Ownership
    <2> QED
      BY <2>1, <2>2, <2>4, NobodyWorks DEF Kept
  <1>9. CASE \/ StartRecovery \/ CreateSnapshot \/ WriteSnapshot \/ FindSnapshot \/ RetireAlias
             \/ UnlinkIndeterminate \/ PendingAccounted \/ RemoveGuard \/ RecoveryRefused
             \/ RecoveryThrows \/ RecoveryCrash
    <2>1. /\ UNCHANGED <<history, artifacts, receipts, owner, pending, attempts, version, alive, work>>
          /\ recovery' # "verified"
      BY <1>9 DEF StartRecovery, CreateSnapshot, WriteSnapshot, FindSnapshot, RetireAlias,
         UnlinkIndeterminate, PendingAccounted, RemoveGuard, RecoveryRefused, RecoveryThrows,
         RecoveryCrash, EndRecovery, durable, counters, volatile
    <2>2. recovery' \notin {"none", "retired"} => owner # 0 /\ ~alive
      BY <1>1, <1>9 DEF StartRecovery, CreateSnapshot, WriteSnapshot, FindSnapshot, RetireAlias,
         UnlinkIndeterminate, PendingAccounted, RemoveGuard, RecoveryRefused, RecoveryThrows,
         RecoveryCrash, EndRecovery, Ownership
    <2>3. Accounted' /\ Ownership'
      BY <1>1, <2>1, <2>2 DEF Accounted, Ownership
    <2>4. (InvocationsAnnounced /\ FreshAttempts /\ Settled)'
      BY <1>1, <2>1 DEF InvocationsAnnounced, FreshAttempts, Settled, At, SameAttempt, KeyNow,
         ExecutionPending, ObservationPending
    <2> QED
      BY <2>3, <2>4 DEF Kept
  <1>10. ASSUME NEW p \in Physicals, StorageError(p)
         PROVE  Kept
    BY <1>10, SilentSteps
  <1> QED
    BY <1>2, <1>3, <1>4, <1>5, <1>6, <1>7, <1>8, <1>9, <1>10 DEF EndSession, Recover, Environment

LEMMA InitAccounts == Init => AccountingInv
  <1> SUFFICES ASSUME Init PROVE AccountingInv
    OBVIOUS
  <1>1. TypeOK
    BY InitTyped
  <1>2. Accounted /\ InvocationsAnnounced /\ FreshAttempts /\ Settled /\ Ownership
    BY DEF Init, Accounted, InvocationsAnnounced, FreshAttempts, Settled, Ownership, At
  <1> QED
    BY <1>1, <1>2 DEF AccountingInv

LEMMA NextAccounts == ASSUME AccountingInv, [Next]_vars PROVE AccountingInv'
  <1>1. TypeOK'
    BY NextTyped DEF AccountingInv
  <1>2. ASSUME NEW p \in Physicals, Step(p)
        PROVE  Kept
    BY <1>2, SilentSteps, BeginExecutionKept, PublishExecutionKept, LinkKept, SettleKept, ObservationKept DEF Step
  <1>3. Kept
    BY <1>2, RestKept DEF Next
  <1> QED
    BY <1>1, <1>3 DEF Kept, AccountingInv

\* Whatever step a crash, an error or a recovery follows, every committed artifact
\* and receipt has its event or is announced by the owner file.
THEOREM AccountedAlways == Spec => []Accounted
  <1>1. Spec => []AccountingInv
    BY InitAccounts, NextAccounts, PTL DEF Spec
  <1>2. AccountingInv => Accounted
    BY DEF AccountingInv
  <1> QED
    BY <1>1, <1>2, PTL
=============================================================================
