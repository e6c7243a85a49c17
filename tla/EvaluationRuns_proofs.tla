----------------------- MODULE EvaluationRuns_proofs -----------------------
(***************************************************************************)
(* The accounting of paid evaluation runs for every finite set of cases,   *)
(* every number of pool threads, every prompt, price, usage and limit.     *)
(*                                                                         *)
(* The three properties are about files and money after the fact.  What    *)
(* carries them is the lock: during a call the total stands still and the  *)
(* session's ledger has successes only, even when an overlapping call has  *)
(* closed the controller meanwhile.                                        *)
(***************************************************************************)
EXTENDS EvaluationRuns, FiniteSetTheorems, TLAPS

\* The worst case of a case is a natural number and not below LeastWorst.
LEMMA WorstCaseFacts ==
  ASSUME NEW c \in Cases
  PROVE  /\ WorstCase(Rate, c) \in Nat /\ LeastWorst <= WorstCase(Rate, c)
         /\ WorstCase(InRate, c) \in Nat
         /\ WorstCase(WorstInRate, c) \in Nat
<1>1. \A rate \in {InRate, WorstInRate} :
         WorstCase(rate, c) \in Nat /\ LeastWorst <= WorstCase(rate, c)
  BY ConstantsAssumption DEF WorstCase, EstimateInputTokens
<1> QED
  BY <1>1 DEF Rate

\* A line appended to the session's ledger changes nothing before it.
LEMMA LedgerAppend ==
  ASSUME ledgers \in Seq(Seq(LedgerLines)), Len(ledgers) > 0,
         NEW line \in LedgerLines, AppendLine(line)
  PROVE  /\ ledgers' \in Seq(Seq(LedgerLines))
         /\ Len(ledgers') = Len(ledgers)
         /\ \A k \in DOMAIN ledgers : k # Len(ledgers) => ledgers'[k] = ledgers[k]
         /\ Len(Current') = Len(Current) + 1
         /\ \A i \in DOMAIN Current : Current'[i] = Current[i]
         /\ Current'[Len(Current) + 1] = line
         /\ DOMAIN Current' = DOMAIN Current \cup {Len(Current) + 1}
<1>1. Len(ledgers) \in DOMAIN ledgers /\ Current \in Seq(LedgerLines)
  BY DEF Current
<1>2. ledgers' = [ledgers EXCEPT ![Len(ledgers)] = Append(Current, line)]
  BY DEF AppendLine, Current
<1>3. Append(Current, line) \in Seq(LedgerLines)
  BY <1>1
<1>4. ledgers' \in Seq(Seq(LedgerLines)) /\ Len(ledgers') = Len(ledgers)
  BY <1>1, <1>2, <1>3
<1>5. Current' = Append(Current, line)
  BY <1>1, <1>2, <1>4 DEF Current
<1>6. \A k \in DOMAIN ledgers : k # Len(ledgers) => ledgers'[k] = ledgers[k]
  BY <1>2
<1> QED
  BY <1>1, <1>4, <1>5, <1>6

\* A report stays accounted for while the ledgers it names stay as they are.
LEMMA ReportStays ==
  ASSUME ReportAccounted, report' = report,
         \A c \in DOMAIN report.made :
            ledgers'[report.made[c].ledger] = ledgers[report.made[c].ledger]
  PROVE  ReportAccounted'
  BY DEF ReportAccounted

\* The initial state: no session, no ledgers, no report.
LEMMA InitHolds == Init => IInv
<1> SUFFICES ASSUME Init PROVE IInv
  OBVIOUS
<1>1. TypeOK
  <2>1. << >> \in Seq(Seq(LedgerLines))
    OBVIOUS
  <2> QED
    BY <2>1, ConstantsAssumption DEF Init, TypeOK
<1>2. DOMAIN report.made = {} /\ DOMAIN ledgers = {} /\ ~Running
  BY DEF Init, NoReport, Running
<1>3. PoolAccounted /\ CallsSerialised /\ SpendTracked
  BY <1>2 DEF Init, PoolAccounted, CallsSerialised, SpendTracked
<1>4. ReportLedgers /\ ReportAccounted /\ FailureEndsLedger
  BY <1>2 DEF ReportLedgers, ReportAccounted, FailureEndsLedger
<1>5. SpendBounded
  BY ConstantsAssumption, LimitsAssumption DEF Init, SpendBounded
<1> QED
  BY <1>1, <1>3, <1>4, <1>5 DEF IInv

\* A session begins with a new ledger and nothing billed, refused or not.
LEMMA StartRunKeeps ==
  ASSUME IInv, NEW s \in SUBSET Cases, NEW n \in Threads, NEW m \in {"informed", "c1"},
         NEW limit \in {0, Cardinality(Cases) * ExpectedCost}, NEW a \in BOOLEAN,
         StartRun(s, n, m, limit, a)
  PROVE  IInv'
<1> USE DEF IInv
<1>1. /\ ledgers \in Seq(Seq(LedgerLines)) /\ ledgers' = Append(ledgers, << >>)
      /\ << >> \in Seq(LedgerLines)
  BY DEF StartRun, TypeOK
<1>2. /\ ledgers' \in Seq(Seq(LedgerLines))
      /\ Len(ledgers') = Len(ledgers) + 1
      /\ DOMAIN ledgers' = DOMAIN ledgers \cup {Len(ledgers')}
      /\ \A k \in DOMAIN ledgers : ledgers'[k] = ledgers[k]
      /\ Current' = << >>
      /\ DOMAIN ledgers = 1..Len(ledgers) /\ Len(ledgers) \in Nat
  BY <1>1 DEF Current
<1>3. /\ UNCHANGED <<fixture, report, pc, case>>
      /\ results' = {} /\ ~broken' /\ ~closed' /\ total' = 0 /\ billed' = 0
      /\ \A t \in Threads : pc[t] = "idle"
      /\ todo = {} /\ ~Running
  BY DEF StartRun, PoolAccounted
<1>4. \/ UNCHANGED <<session, todo>>
      \/ /\ session'.selected = s /\ session'.controller = m
         /\ session'.resumed = [c \in s \cap DOMAIN report.made |-> report.made[c]]
         /\ todo' = s \ DOMAIN report.made
         /\ report # NoReport => report.fixture = fixture
  BY DEF StartRun, Resumable
<1>5. TypeOK'
  <2>1. todo' \subseteq Cases
    BY <1>3, <1>4
  <2>2. /\ fixture' \in Fixtures
        /\ pc' \in [Threads -> {"idle", "execute", "calling"}]
        /\ case' \in [Threads -> Nat]
        /\ faults' \in Nat
    BY <1>3 DEF StartRun, TypeOK
  <2>3. results' \subseteq Cases /\ broken' \in BOOLEAN /\ closed' \in BOOLEAN
    BY DEF StartRun
  <2> QED
    BY <1>2, <1>3, <2>1, <2>2, <2>3 DEF TypeOK
<1>6. PoolAccounted'
  <2>1. CASE UNCHANGED <<session, todo>>
    BY <1>3, <2>1 DEF PoolAccounted, Running
  <2>2. CASE ~UNCHANGED <<session, todo>>
    <3>1. \A c \in DOMAIN report.made : report.made[c].ledger < Len(ledgers')
      BY <1>2 DEF ReportLedgers
    <3>2. \A c \in DOMAIN session'.resumed :
             c \in DOMAIN report.made /\ session'.resumed[c] = report.made[c]
      BY <1>4, <2>2
    <3>3. \A c \in s : c \in todo' \/ c \in DOMAIN session'.resumed
      BY <1>4, <2>2
    <3>4. Running'
      BY <1>4, <2>2 DEF Running, NoSession
    <3> QED
      BY <1>2, <1>3, <1>4, <2>2, <3>1, <3>2, <3>3, <3>4 DEF PoolAccounted
  <2> QED
    BY <2>1, <2>2
<1>7. CallsSerialised'
  <2>1. Cardinality(results') = 0 /\ Len(Current') = 0 /\ DOMAIN Current' = {}
    BY <1>2, <1>3, FS_EmptySet
  <2> QED
    BY <1>3, <2>1 DEF CallsSerialised, AllSucceeded
<1>8. SpendTracked' /\ SpendBounded'
  BY <1>3, ConstantsAssumption, LimitsAssumption DEF SpendTracked, SpendBounded
<1>9. ReportLedgers'
  BY <1>2, <1>3 DEF ReportLedgers
<1>10. ReportAccounted'
  BY <1>2, <1>3, ReportStays DEF ReportLedgers
<1>11. FailureEndsLedger'
  <2>1. DOMAIN ledgers'[Len(ledgers')] = {}
    BY <1>2 DEF Current
  <2> QED
    BY <1>2, <2>1 DEF FailureEndsLedger
<1> QED
  BY <1>5, <1>6, <1>7, <1>8, <1>9, <1>10, <1>11
\* The next case moves from the pool to a thread.
LEMMA TakeCaseKeeps ==
  ASSUME IInv, NEW t \in Threads, TakeCase(t)
  PROVE  IInv'
<1> USE DEF IInv
<1>1. PICK c \in todo : case' = [case EXCEPT ![t] = c] /\ todo' = todo \ {c}
  BY DEF TakeCase
<1>2. /\ Running /\ pc[t] = "idle" /\ pc' = [pc EXCEPT ![t] = "execute"]
      /\ UNCHANGED <<fixture, report, ledgers, provenance, session, results, broken, closed,
                     total, billed, faults>>
  BY DEF TakeCase, control
<1>3. c \in Cases /\ c \in Nat
  BY ConstantsAssumption DEF TypeOK
<1>4. /\ pc'[t] = "execute" /\ case'[t] = c
      /\ \A u \in Threads : u # t => pc'[u] = pc[u] /\ case'[u] = case[u]
  BY <1>1, <1>2 DEF TypeOK
<1>5. LockHeld' = LockHeld /\ Running' = Running /\ Current' = Current /\ Rate' = Rate
  BY <1>2, <1>4 DEF LockHeld, Running, Current, Rate
<1>6. TypeOK'
  BY <1>1, <1>2, <1>3 DEF TypeOK
<1>7. PoolAccounted'
  BY <1>1, <1>2, <1>3, <1>4, <1>5 DEF PoolAccounted
<1>8. CallsSerialised'
  BY <1>2, <1>4, <1>5 DEF CallsSerialised
<1>9. SpendTracked'
  BY <1>2, <1>4, <1>5 DEF SpendTracked, WorstCase, EstimateInputTokens
<1>10. ReportLedgers' /\ SpendBounded' /\ ReportAccounted' /\ FailureEndsLedger'
  BY <1>2 DEF ReportLedgers, SpendBounded, ReportAccounted, FailureEndsLedger
<1> QED
  BY <1>6, <1>7, <1>8, <1>9, <1>10

\* A case raises outside a call, whether or not it closes the controller.
LEMMA RaisesKeeps ==
  ASSUME IInv, NEW t \in Threads, pc[t] = "execute", Raises(t), faults' \in Nat,
         closed' \in BOOLEAN, closed => closed',
         UNCHANGED <<fixture, report, ledgers, provenance, session, todo, case, total, billed>>
  PROVE  IInv'
<1> USE DEF IInv
<1>1. /\ pc'[t] = "idle" /\ \A u \in Threads : u # t => pc'[u] = pc[u]
      /\ broken' = TRUE /\ results' = results
  BY DEF Raises, TypeOK
<1>2. LockHeld' = LockHeld /\ Running' = Running /\ Current' = Current /\ Rate' = Rate
  BY <1>1 DEF LockHeld, Running, Current, Rate
<1>3. TypeOK'
  BY DEF Raises, TypeOK
<1>4. PoolAccounted'
  BY <1>1, <1>2 DEF PoolAccounted
<1>5. CallsSerialised'
  BY <1>1, <1>2 DEF CallsSerialised
<1>6. SpendTracked'
  BY <1>1, <1>2 DEF SpendTracked, WorstCase, EstimateInputTokens
<1>7. ReportLedgers' /\ SpendBounded' /\ ReportAccounted' /\ FailureEndsLedger'
  BY DEF ReportLedgers, SpendBounded, ReportAccounted, FailureEndsLedger
<1> QED
  BY <1>3, <1>4, <1>5, <1>6, <1>7

\* _fail closes the controller outside any other call: whatever is billed, the
\* failed line follows successes and nothing follows it.
LEMMA FailKeeps ==
  ASSUME IInv, NEW t \in Threads, NEW charged \in Nat, Fail(t, charged), Running,
         ~closed \/ pc[t] = "calling", \A u \in Threads : pc[u] = "calling" => u = t,
         UNCHANGED <<fixture, report, provenance, session, todo, case>>,
         billed' \in Nat, billed' <= MaxRun + MaxBill - LeastWorst
  PROVE  IInv'
<1> USE DEF IInv
<1>1. /\ pc'[t] = "idle" /\ \A u \in Threads : u # t => pc'[u] = pc[u]
      /\ broken' = TRUE /\ closed' = TRUE /\ results' = results /\ total' = total + charged
  BY DEF Fail, Raises, TypeOK
<1>2. ~LockHeld' /\ Running' = Running /\ Len(ledgers) > 0 /\ AllSucceeded(Current)
  <2>1. ~closed \/ LockHeld
    BY DEF LockHeld
  <2> QED
    BY <1>1, <2>1 DEF LockHeld, Running, PoolAccounted, CallsSerialised
<1>3. Line("failed", charged) \in LedgerLines /\ Line("failed", charged).outcome = "failed"
  BY DEF Line, LedgerLines
<1>4. /\ ledgers' \in Seq(Seq(LedgerLines))
      /\ Len(ledgers') = Len(ledgers)
      /\ \A k \in DOMAIN ledgers : k # Len(ledgers) => ledgers'[k] = ledgers[k]
      /\ Len(Current') >= Len(Current)
      /\ \A i \in DOMAIN Current' : Current'[i].outcome = "failed" => i = Len(Current')
      /\ DOMAIN ledgers' = DOMAIN ledgers
      /\ faults' \in Nat
  <2>1. CASE AppendLine(Line("failed", charged)) /\ UNCHANGED faults
    <3>1. /\ ledgers \in Seq(Seq(LedgerLines)) /\ Len(ledgers) > 0
          /\ AppendLine(Line("failed", charged))
      BY <1>2, <2>1 DEF TypeOK
    <3>2. /\ ledgers' \in Seq(Seq(LedgerLines))
          /\ Len(ledgers') = Len(ledgers)
          /\ \A k \in DOMAIN ledgers : k # Len(ledgers) => ledgers'[k] = ledgers[k]
          /\ Len(Current') = Len(Current) + 1
          /\ \A i \in DOMAIN Current : Current'[i] = Current[i]
          /\ DOMAIN Current' = DOMAIN Current \cup {Len(Current) + 1}
      BY <1>3, <3>1, LedgerAppend
    <3>3. DOMAIN ledgers' = DOMAIN ledgers /\ Len(Current) \in Nat
      BY <3>1, <3>2 DEF Current
    <3>4. \A i \in DOMAIN Current' : Current'[i].outcome = "failed" => i = Len(Current')
      BY <1>2, <3>2 DEF AllSucceeded
    <3>5. faults' \in Nat
      BY <2>1 DEF TypeOK
    <3> QED
      BY <3>2, <3>3, <3>4, <3>5
  <2>2. CASE Fault /\ UNCHANGED ledgers
    BY <1>2, <2>2 DEF AllSucceeded, Current, Fault, TypeOK
  <2> QED
    BY <2>1, <2>2 DEF Fail, WriteLedger
<1>5. TypeOK'
  BY <1>1, <1>4 DEF Fail, Raises, TypeOK
<1>6. PoolAccounted'
  BY <1>1, <1>2, <1>4 DEF PoolAccounted
<1>7. CallsSerialised'
  <2>1. Cardinality(results') <= Len(Current')
    <3>1. Cardinality(results) <= Len(Current) /\ Cardinality(results) \in Nat
      BY FS_Subset, FS_CardinalityType, ConstantsAssumption DEF CallsSerialised, TypeOK
    <3>2. Len(Current) \in Nat /\ Len(Current') \in Nat
      BY <1>2, <1>4 DEF TypeOK, Current
    <3> QED
      BY <1>1, <1>4, <3>1, <3>2
  <2> QED
    BY <1>1, <1>2, <2>1 DEF CallsSerialised, LockHeld
<1>8. SpendTracked' /\ SpendBounded'
  BY <1>1, <1>2 DEF SpendTracked, SpendBounded, LockHeld
<1>9. ReportLedgers'
  BY <1>4 DEF ReportLedgers
<1>10. ReportAccounted'
  BY <1>4, ReportStays DEF PoolAccounted, ReportLedgers
<1>11. FailureEndsLedger'
  <2>1. ASSUME NEW k \in DOMAIN ledgers', NEW i \in DOMAIN ledgers'[k],
               ledgers'[k][i].outcome = "failed"
        PROVE  i = Len(ledgers'[k])
    <3>1. CASE k = Len(ledgers)
      BY <1>4, <2>1, <3>1 DEF Current
    <3>2. CASE k # Len(ledgers)
      BY <1>4, <2>1, <3>2 DEF FailureEndsLedger
    <3> QED
      BY <3>1, <3>2
  <2> QED
    BY <2>1 DEF FailureEndsLedger
<1> QED
  BY <1>5, <1>6, <1>7, <1>8, <1>9, <1>10, <1>11

\* Admission: refused by the lock, by the closed controller or by a limit; or the
\* call begins with room for its worst case.
LEMMA EnterKeeps ==
  ASSUME IInv, NEW t \in Threads, NEW rate, rate = Rate, Enter(t, rate)
  PROVE  IInv'
<1>1. /\ Running /\ pc[t] = "execute"
      /\ UNCHANGED <<fixture, report, provenance, session, todo, case, billed>>
  BY DEF Enter
<1>2. CASE LockHeld
  BY <1>1, <1>2, RaisesKeeps DEF Enter, IInv, TypeOK
<1>3. CASE ~LockHeld /\ closed
  BY <1>1, <1>3, RaisesKeeps DEF Enter, IInv, TypeOK
<1>4. CASE ~LockHeld /\ ~closed /\ ~Admitted(WorstCase(rate, case[t]))
  <2>1. Fail(t, 0) /\ \A u \in Threads : pc[u] = "calling" => u = t
    BY <1>4 DEF Enter, LockHeld
  <2>2. billed' \in Nat /\ billed' <= MaxRun + MaxBill - LeastWorst
    BY <1>1 DEF IInv, TypeOK, SpendBounded
  <2> QED
    BY <1>1, <1>4, <2>1, <2>2, FailKeeps
<1>5. CASE ~LockHeld /\ ~closed /\ Admitted(WorstCase(rate, case[t]))
  <2> USE DEF IInv
  <2>1. /\ pc' = [pc EXCEPT ![t] = "calling"]
        /\ UNCHANGED <<closed, total, ledgers, broken, results, faults>>
    BY <1>5 DEF Enter
  <2>2. pc'[t] = "calling" /\ \A u \in Threads : u # t => pc'[u] = pc[u]
    BY <2>1 DEF TypeOK
  <2>3. Running' = Running /\ Current' = Current /\ Rate' = Rate
    BY <1>1, <2>1 DEF Running, Current, Rate
  <2>4. TypeOK'
    BY <1>1, <2>1 DEF TypeOK
  <2>5. PoolAccounted'
    BY <1>1, <2>1, <2>2, <2>3 DEF PoolAccounted
  <2>6. CallsSerialised'
    BY <1>1, <1>5, <2>1, <2>2, <2>3 DEF CallsSerialised, LockHeld
  <2>7. SpendTracked'
    <3>1. billed' = total'
      BY <1>1, <1>5, <2>1 DEF SpendTracked
    <3>2. total + WorstCase(Rate, case[t]) <= MaxRun
      BY <1>5 DEF Admitted
    <3>3. \A u \in Threads : pc'[u] = "calling" => u = t
      BY <1>5, <2>2 DEF LockHeld
    <3>4. WorstCase(Rate', case'[t]) = WorstCase(Rate, case[t])
      BY <1>1, <2>3
    <3> QED
      BY <2>1, <3>1, <3>2, <3>3, <3>4 DEF SpendTracked, WorstCase, EstimateInputTokens
  <2>8. ReportLedgers' /\ SpendBounded' /\ ReportAccounted' /\ FailureEndsLedger'
    BY <1>1, <2>1 DEF ReportLedgers, SpendBounded, ReportAccounted, FailureEndsLedger
  <2> QED
    BY <2>4, <2>5, <2>6, <2>7, <2>8
<1> QED
  BY <1>2, <1>3, <1>4, <1>5

\* During a call the provider's bill and the total agree, and the worst case is
\* still free: whatever the call costs stays within the bound.
LEMMA CallBounded ==
  ASSUME IInv, NEW t \in Threads, pc[t] = "calling", NEW bill \in 0..MaxBill
  PROVE  /\ Running
         /\ case[t] \in Cases
         /\ \A u \in Threads : pc[u] = "calling" => u = t
         /\ AllSucceeded(Current)
         /\ billed = total
         /\ billed + bill \in Nat
         /\ billed + bill <= MaxRun + MaxBill - LeastWorst
<1> USE DEF IInv
<1>1. Running /\ case[t] \in Cases /\ LockHeld
  BY DEF PoolAccounted, LockHeld
<1>2. billed = total /\ total + WorstCase(Rate, case[t]) <= MaxRun
  BY <1>1 DEF SpendTracked
<1>3. AllSucceeded(Current) /\ \A u \in Threads : pc[u] = "calling" => u = t
  BY <1>1 DEF CallsSerialised
<1>4. WorstCase(Rate, case[t]) \in Nat /\ LeastWorst <= WorstCase(Rate, case[t])
  BY <1>1, WorstCaseFacts
<1>5. billed + bill \in Nat /\ billed + bill <= MaxRun + MaxBill - LeastWorst
  BY <1>2, <1>4, ConstantsAssumption, LimitsAssumption DEF TypeOK
<1> QED
  BY <1>1, <1>2, <1>3, <1>5

\* The provider raised: the worst case is charged and the controller closes.
LEMMA CallFailsKeeps ==
  ASSUME IInv, NEW t \in Threads, NEW rate \in {InRate, WorstInRate}, NEW u \in Usages,
         CallFails(t, rate, Cost(InRate, u))
  PROVE  IInv'
<1> DEFINE bill == Cost(InRate, u)
<1>1. bill \in 0..MaxBill /\ pc[t] = "calling"
  BY ConstantsAssumption DEF CallFails
<1> HIDE DEF bill
<1>2. /\ billed' = billed + bill /\ Fail(t, WorstCase(rate, case[t]))
      /\ UNCHANGED <<fixture, report, provenance, session, todo, case>>
  BY DEF CallFails, bill
<1>3. /\ Running /\ case[t] \in Cases /\ \A v \in Threads : pc[v] = "calling" => v = t
      /\ billed + bill \in Nat /\ billed + bill <= MaxRun + MaxBill - LeastWorst
  BY <1>1, CallBounded
<1>4. WorstCase(rate, case[t]) \in Nat
  BY <1>3, WorstCaseFacts
<1> QED
  BY <1>1, <1>2, <1>3, <1>4, FailKeeps

\* A charged success: one more result and one more line, or neither.
LEMMA SucceedKeeps ==
  ASSUME IInv, NEW t \in Threads, pc[t] = "calling", NEW charged \in 0..MaxBill,
         Succeed(t, charged), billed' = billed + charged,
         UNCHANGED <<fixture, report, provenance, session, todo, case>>
  PROVE  IInv'
<1> USE DEF IInv
<1>1. /\ Running /\ case[t] \in Cases /\ \A u \in Threads : pc[u] = "calling" => u = t
      /\ AllSucceeded(Current) /\ billed = total
      /\ billed' \in Nat /\ billed' <= MaxRun + MaxBill - LeastWorst
  BY CallBounded
<1>2. /\ pc' = [pc EXCEPT ![t] = "idle"] /\ closed' = closed /\ total' = total + charged
  BY DEF Succeed, Returns, Raises
<1>3. pc'[t] = "idle" /\ \A u \in Threads : u # t => pc'[u] = pc[u]
  BY <1>2 DEF TypeOK
<1>4. ~LockHeld' /\ Running' /\ Len(ledgers) > 0
  BY <1>1, <1>3 DEF LockHeld, Running, PoolAccounted
<1>5. IsFiniteSet(results) /\ Cardinality(results) \in Nat /\ Cardinality(results) <= Len(Current)
  <2>1. IsFiniteSet(results)
    BY FS_Subset, ConstantsAssumption DEF TypeOK
  <2> QED
    BY <1>1, <2>1, FS_CardinalityType DEF CallsSerialised
<1>6. /\ ledgers' \in Seq(Seq(LedgerLines))
      /\ Len(ledgers') = Len(ledgers) /\ DOMAIN ledgers' = DOMAIN ledgers
      /\ \A k \in DOMAIN ledgers : k # Len(ledgers) => ledgers'[k] = ledgers[k]
      /\ AllSucceeded(Current')
      /\ faults' \in Nat
      /\ results' \subseteq Cases /\ broken' \in BOOLEAN
      /\ Cardinality(results') <= Len(Current')
      /\ ~broken' => ~broken /\ case[t] \in results' /\ results \subseteq results'
  <2>1. CASE AppendLine(Line("succeeded", charged)) /\ UNCHANGED faults /\ Returns(t)
    <3>1. /\ ledgers \in Seq(Seq(LedgerLines))
          /\ Line("succeeded", charged) \in LedgerLines
          /\ Line("succeeded", charged).outcome = "succeeded"
          /\ AppendLine(Line("succeeded", charged))
      BY <2>1, ConstantsAssumption DEF Line, LedgerLines, TypeOK
    <3>2. /\ ledgers' \in Seq(Seq(LedgerLines))
          /\ Len(ledgers') = Len(ledgers)
          /\ \A k \in DOMAIN ledgers : k # Len(ledgers) => ledgers'[k] = ledgers[k]
          /\ Len(Current') = Len(Current) + 1
          /\ \A i \in DOMAIN Current : Current'[i] = Current[i]
          /\ Current'[Len(Current) + 1] = Line("succeeded", charged)
          /\ DOMAIN Current' = DOMAIN Current \cup {Len(Current) + 1}
      BY <1>4, <3>1, LedgerAppend
    <3>3. DOMAIN ledgers' = DOMAIN ledgers /\ Len(Current) \in Nat
      BY <1>4, <3>1, <3>2 DEF Current
    <3>4. AllSucceeded(Current')
      BY <1>1, <3>1, <3>2 DEF AllSucceeded
    <3>5. results' = results \cup {case[t]} /\ broken' = broken
      BY <2>1 DEF Returns
    <3>6. Cardinality(results') <= Cardinality(results) + 1 /\ Cardinality(results') \in Nat
      <4>1. CASE case[t] \in results
        <5>1. results' = results
          BY <3>5, <4>1
        <5> QED
          BY <1>5, <5>1
      <4>2. CASE case[t] \notin results
        <5>1. Cardinality(results \cup {case[t]}) = Cardinality(results) + 1
          BY <1>5, <4>2, FS_AddElement
        <5> QED
          BY <1>5, <3>5, <5>1
      <4> QED
        BY <4>1, <4>2
    <3>7. Cardinality(results') <= Len(Current')
      BY <1>5, <3>2, <3>3, <3>6
    <3>8. results' \subseteq Cases /\ broken' \in BOOLEAN /\ faults' \in Nat
      BY <1>1, <2>1, <3>5 DEF TypeOK
    <3> QED
      BY <3>2, <3>3, <3>4, <3>5, <3>7, <3>8
  <2>2. CASE Fault /\ Raises(t) /\ UNCHANGED ledgers
    <3>1. Current' = Current /\ results' = results /\ broken' = TRUE /\ faults' \in Nat
      BY <2>2 DEF Current, Raises, Fault, TypeOK
    <3> QED
      BY <1>1, <1>5, <2>2, <3>1 DEF TypeOK
  <2> QED
    BY <2>1, <2>2 DEF Succeed
<1>7. TypeOK'
  <2>1. total' \in Nat
    BY <1>2, ConstantsAssumption DEF TypeOK
  <2> QED
    BY <1>1, <1>2, <1>6, <2>1 DEF TypeOK
<1>8. PoolAccounted'
  <2>1. /\ \A u \in Threads : pc[u] # "idle" => case[u] \in Cases
        /\ session.selected \subseteq Cases
        /\ session.controller \in {"informed", "c1"}
        /\ \A c \in DOMAIN session.resumed :
              c \in DOMAIN report.made /\ session.resumed[c] = report.made[c]
        /\ report # NoReport => report.fixture = fixture
        /\ \A c \in DOMAIN report.made : report.made[c].ledger < Len(ledgers)
        /\ ~broken => \A c \in session.selected :
              \/ c \in todo \cup results
              \/ c \in DOMAIN session.resumed
              \/ \E u \in Threads : pc[u] # "idle" /\ case[u] = c
    BY <1>1 DEF PoolAccounted
  <2>2. /\ fixture' = fixture /\ report' = report /\ session' = session
        /\ todo' = todo /\ case' = case
    OBVIOUS
  <2>3. \A u \in Threads : pc'[u] # "idle" => case'[u] \in Cases
    BY <1>3, <2>1, <2>2
  <2>4. ASSUME ~broken', NEW c \in session.selected
        PROVE  \/ c \in todo \cup results'
               \/ c \in DOMAIN session.resumed
               \/ \E u \in Threads : pc'[u] # "idle" /\ case[u] = c
    <3>1. CASE c \in todo \cup results \/ c \in DOMAIN session.resumed
      BY <1>6, <2>4, <3>1
    <3>2. CASE \E u \in Threads : pc[u] # "idle" /\ case[u] = c
      BY <1>3, <1>6, <2>4, <3>2
    <3> QED
      BY <1>6, <2>1, <2>4, <3>1, <3>2
  <2>5. Len(ledgers') > 0 /\ Len(ledgers') = Len(ledgers)
    BY <1>4, <1>6
  <2> QED
    BY <1>4, <2>1, <2>2, <2>3, <2>4, <2>5 DEF PoolAccounted
<1>9. CallsSerialised'
  BY <1>3, <1>4, <1>6 DEF CallsSerialised, LockHeld
<1>10. SpendTracked' /\ SpendBounded'
  BY <1>1, <1>2, <1>4 DEF SpendTracked, SpendBounded, LockHeld
<1>11. ReportLedgers'
  BY <1>6 DEF ReportLedgers
<1>12. ReportAccounted'
  BY <1>1, <1>6, ReportStays DEF PoolAccounted, ReportLedgers
<1>13. FailureEndsLedger'
  <2>1. ASSUME NEW k \in DOMAIN ledgers', NEW i \in DOMAIN ledgers'[k],
               ledgers'[k][i].outcome = "failed"
        PROVE  i = Len(ledgers'[k])
    <3>1. CASE k = Len(ledgers)
      BY <1>6, <2>1, <3>1 DEF Current, AllSucceeded
    <3>2. CASE k # Len(ledgers)
      BY <1>6, <2>1, <3>2 DEF FailureEndsLedger
    <3> QED
      BY <3>1, <3>2
  <2> QED
    BY <2>1 DEF FailureEndsLedger
<1> QED
  BY <1>7, <1>8, <1>9, <1>10, <1>11, <1>12, <1>13

\* The provider answered: charged, and refused or returned.
LEMMA AnswerKeeps ==
  ASSUME IInv, NEW t \in Threads, NEW u \in Usages, NEW d \in BOOLEAN, NEW o \in BOOLEAN,
         Answer(t, u, d, o)
  PROVE  IInv'
<1> DEFINE charged == Cost(InRate, u)
<1>1. charged \in 0..MaxBill /\ charged \in Nat /\ pc[t] = "calling"
  BY ConstantsAssumption DEF Answer
<1>2. /\ billed' = billed + charged
      /\ Fail(t, charged) \/ Succeed(t, charged)
      /\ UNCHANGED <<fixture, report, provenance, session, todo, case>>
  BY DEF Answer
<1> HIDE DEF charged
<1>3. /\ Running /\ \A v \in Threads : pc[v] = "calling" => v = t
      /\ billed' \in Nat /\ billed' <= MaxRun + MaxBill - LeastWorst
  BY <1>1, <1>2, CallBounded
<1>4. CASE Fail(t, charged)
  BY <1>1, <1>2, <1>3, <1>4, FailKeeps
<1>5. CASE Succeed(t, charged)
  BY <1>1, <1>2, <1>5, SucceedKeeps
<1> QED
  BY <1>2, <1>4, <1>5

\* A case refused before its call raises and leaves the controller open.
LEMMA RefuseCaseKeeps ==
  ASSUME IInv, NEW t \in Threads, RefuseCase(t)
  PROVE  IInv'
  BY RaisesKeeps DEF RefuseCase, control, Fault, IInv, TypeOK

\* The report of a session in which nothing raised takes its new results from the
\* session's ledger, one line each, and the rest from the report before it.
LEMMA FinishRunKeeps ==
  ASSUME IInv, FinishRun
  PROVE  IInv'
<1> USE DEF IInv
<1>1. /\ Running /\ todo = {} /\ \A t \in Threads : pc[t] = "idle"
      /\ UNCHANGED <<fixture, ledgers, provenance, todo, results, broken, pc, case, closed, total,
                     billed, faults>>
      /\ ~Running'
  BY DEF FinishRun, End, pool, control, Running
<1>2. ~LockHeld' /\ Len(ledgers) > 0 /\ Len(ledgers) \in DOMAIN ledgers /\ Len(ledgers) \in Nat
  BY <1>1 DEF LockHeld, PoolAccounted, TypeOK
<1>3. TypeOK' /\ PoolAccounted'
  BY <1>1 DEF TypeOK, PoolAccounted
<1>4. CallsSerialised' /\ SpendTracked' /\ SpendBounded' /\ FailureEndsLedger'
  BY <1>1 DEF CallsSerialised, SpendTracked, SpendBounded, FailureEndsLedger
<1>5. CASE broken
  <2>1. report' = report
    BY <1>5 DEF FinishRun
  <2>2. ReportLedgers' /\ ReportAccounted'
    BY <1>1, <2>1 DEF ReportLedgers, ReportAccounted
  <2> QED
    BY <1>3, <1>4, <2>2
<1>6. CASE ~broken
  <2> DEFINE now == Len(ledgers)
             made == [c \in session.selected |->
                        IF c \in results THEN [ledger |-> now, fixture |-> fixture]
                                         ELSE session.resumed[c]]
  <2>1. report'.made = made /\ report'.fixture = fixture
    BY <1>6 DEF FinishRun
  <2>2. \A c \in session.selected \ results :
           /\ c \in DOMAIN report.made
           /\ session.resumed[c] = report.made[c]
           /\ report # NoReport
    <3>1. \A c \in session.selected \ results : c \in DOMAIN session.resumed
      BY <1>1, <1>6 DEF PoolAccounted
    <3>2. DOMAIN NoReport.made = {}
      BY DEF NoReport
    <3> QED
      BY <1>1, <3>1, <3>2 DEF PoolAccounted
  <2>3. \A c \in session.selected :
           \/ c \in results /\ made[c].ledger = now /\ made[c].fixture = fixture
           \/ /\ c \in DOMAIN report.made /\ made[c] = report.made[c]
              /\ made[c].ledger \in DOMAIN ledgers
              /\ made[c].ledger < now /\ made[c].fixture = fixture
    BY <1>1, <2>2 DEF PoolAccounted, ReportLedgers, ReportAccounted
  <2>4. DOMAIN made = session.selected /\ session.selected \subseteq Cases
    BY <1>1 DEF PoolAccounted
  <2> HIDE DEF made, now
  <2>5. ReportLedgers'
    BY <1>1, <1>2, <2>1, <2>3, <2>4 DEF ReportLedgers, now
  <2>6. ASSUME NEW c \in session.selected
        PROVE  /\ made[c].fixture = fixture
               /\ \A i \in DOMAIN ledgers[made[c].ledger] :
                     ledgers[made[c].ledger][i].outcome = "succeeded"
               /\ Cardinality({d \in session.selected : made[d].ledger = made[c].ledger})
                     <= Len(ledgers[made[c].ledger])
    <3> DEFINE k == made[c].ledger
               ofNow == {d \in session.selected : made[d].ledger = k}
    <3>1. made[c].fixture = fixture
      BY <2>3
    <3>2. CASE k = now
      <4>1. AllSucceeded(ledgers[k]) /\ Cardinality(results) <= Len(ledgers[k])
        BY <1>1, <1>6, <3>2 DEF CallsSerialised, Current, now
      <4>2. ofNow \subseteq results /\ IsFiniteSet(results)
        <5>1. IsFiniteSet(results)
          BY FS_Subset, ConstantsAssumption DEF TypeOK
        <5>2. \A d \in session.selected : made[d].ledger = now => d \in results
          BY <1>2, <2>3 DEF now, ReportLedgers
        <5> QED
          BY <3>2, <5>1, <5>2
      <4>3. /\ Cardinality(ofNow) \in Nat /\ Cardinality(results) \in Nat
            /\ Cardinality(ofNow) <= Cardinality(results)
        BY <4>2, FS_Subset, FS_CardinalityType
      <4>4. Len(ledgers[k]) \in Nat
        BY <1>2, <3>2 DEF TypeOK, now
      <4>5. Cardinality(ofNow) <= Len(ledgers[k])
        BY <4>1, <4>3, <4>4
      <4> QED
        BY <3>1, <4>1, <4>5 DEF AllSucceeded
    <3>3. CASE k # now
      <4> DEFINE before == {d \in DOMAIN report.made : report.made[d].ledger = k}
      <4>1. c \in DOMAIN report.made /\ report.made[c].ledger = k /\ k \in DOMAIN ledgers
        BY <2>3, <3>3
      <4>2. /\ \A i \in DOMAIN ledgers[k] : ledgers[k][i].outcome = "succeeded"
            /\ Cardinality(before) <= Len(ledgers[k])
        BY <4>1 DEF ReportAccounted
      <4>3. ofNow \subseteq before
        BY <2>3, <3>3
      <4>4. IsFiniteSet(before)
        BY FS_Subset, ConstantsAssumption DEF ReportLedgers
      <4>5. /\ Cardinality(ofNow) \in Nat /\ Cardinality(before) \in Nat
            /\ Cardinality(ofNow) <= Cardinality(before)
        BY <4>3, <4>4, FS_Subset, FS_CardinalityType
      <4>6. Len(ledgers[k]) \in Nat
        BY <4>1 DEF TypeOK
      <4>7. Cardinality(ofNow) <= Len(ledgers[k])
        BY <4>2, <4>5, <4>6
      <4> QED
        BY <3>1, <4>2, <4>7
    <3> QED
      BY <3>2, <3>3
  <2>7. ReportAccounted'
    BY <1>1, <2>1, <2>4, <2>6 DEF ReportAccounted
  <2> QED
    BY <1>3, <1>4, <2>5, <2>7
<1> QED
  BY <1>5, <1>6

\* A killed process may leave one unrecorded call behind, and that was admitted.
LEMMA CrashKeeps ==
  ASSUME IInv, Crash
  PROVE  IInv'
<1> USE DEF IInv
<1>1. /\ ~Running' /\ todo' = {} /\ pc' = [t \in Threads |-> "idle"] /\ faults' \in Nat
      /\ UNCHANGED <<fixture, report, ledgers, provenance, results, broken, case, closed, total>>
  BY DEF Crash, End, Running, Fault, TypeOK
<1>2. PICK u \in Usages : billed' = billed + IF LockHeld THEN Cost(InRate, u) ELSE 0
  BY DEF Crash
<1> DEFINE bill == Cost(InRate, u)
<1>3. bill \in 0..MaxBill
  BY ConstantsAssumption
<1> HIDE DEF bill
<1>4. billed' \in Nat /\ billed' <= MaxRun + MaxBill - LeastWorst
  <2>1. CASE LockHeld
    BY <1>2, <1>3, <2>1, CallBounded DEF LockHeld, bill
  <2>2. CASE ~LockHeld
    BY <1>2, <2>2 DEF TypeOK, SpendBounded
  <2> QED
    BY <2>1, <2>2
<1>5. TypeOK'
  BY <1>1, <1>4 DEF TypeOK
<1>6. PoolAccounted' /\ CallsSerialised' /\ SpendTracked' /\ SpendBounded'
  BY <1>1, <1>4 DEF PoolAccounted, CallsSerialised, SpendTracked, SpendBounded
<1>7. ReportLedgers' /\ ReportAccounted' /\ FailureEndsLedger'
  BY <1>1 DEF ReportLedgers, ReportAccounted, FailureEndsLedger
<1> QED
  BY <1>5, <1>6, <1>7

\* Between sessions, a new fixture or a recorded provenance touches nothing the
\* invariant speaks of.
LEMMA RestingKeeps ==
  ASSUME IInv, ~Running, fixture' \in Fixtures,
         UNCHANGED <<report, ledgers, session, pool, control, faults>>
  PROVE  IInv'
<1>1. UNCHANGED <<todo, results, broken, pc, case, closed, total, billed>> /\ ~Running'
  BY DEF pool, control, Running
<1>2. TypeOK'
  BY <1>1 DEF IInv, TypeOK
<1>3. PoolAccounted' /\ CallsSerialised'
  BY <1>1 DEF IInv, PoolAccounted, CallsSerialised
<1>4. SpendTracked' /\ SpendBounded'
  <2>1. \A t \in Threads : pc'[t] # "calling"
    BY <1>1 DEF IInv, PoolAccounted
  <2> QED
    BY <1>1, <2>1 DEF IInv, SpendTracked, SpendBounded
<1>5. ReportLedgers' /\ FailureEndsLedger'
  BY <1>1 DEF IInv, ReportLedgers, FailureEndsLedger
<1>6. ReportAccounted'
  BY <1>1 DEF IInv, ReportAccounted
<1> QED
  BY <1>2, <1>3, <1>4, <1>5, <1>6 DEF IInv

\* Every step preserves the invariant: one case per action.
LEMMA NextKeeps == IInv /\ [Next]_vars => IInv'
<1> SUFFICES ASSUME IInv, [Next]_vars PROVE IInv'
  OBVIOUS
<1>1. ASSUME NEW s \in SUBSET Cases, NEW n \in Threads, NEW m \in {"informed", "c1"},
             NEW a \in BOOLEAN, NEW limit \in {0, Cardinality(Cases) * ExpectedCost},
             StartRun(s, n, m, limit, a)
      PROVE  IInv'
  BY <1>1, StartRunKeeps
<1>2. ASSUME NEW t \in Threads, TakeCase(t) \/ RefuseCase(t) PROVE IInv'
  BY <1>2, TakeCaseKeeps, RefuseCaseKeeps
<1>3. ASSUME NEW t \in Threads, Run(t) \/ C1Complete(t) PROVE IInv'
  BY <1>3, EnterKeeps DEF Run, C1Complete, Rate
<1>4. ASSUME NEW t \in Threads, RunOne(t) \/ C1CompleteOne(t) PROVE IInv'
  <2>1. \/ \E u \in Usages, rate \in {InRate, WorstInRate} : CallFails(t, rate, Cost(InRate, u))
        \/ \E u \in Usages, d, o \in BOOLEAN : Answer(t, u, d, o)
    BY <1>4 DEF RunOne, C1CompleteOne
  <2> QED
    BY <2>1, CallFailsKeeps, AnswerKeeps
<1>5. CASE FinishRun \/ Crash
  BY <1>5, FinishRunKeeps, CrashKeeps
<1>6. CASE EditFixture
  BY <1>6, RestingKeeps DEF EditFixture
<1>7. ASSUME NEW named \in SUBSET DOMAIN ledgers, RecordProvenance(named) PROVE IInv'
  BY <1>7, RestingKeeps DEF RecordProvenance, IInv, TypeOK
<1>8. CASE UNCHANGED vars
  <2>1. /\ UNCHANGED <<fixture, report, ledgers, session, todo, results, broken, pc, case, closed,
                       total, billed, faults>>
    BY <1>8 DEF vars, pool, control
  <2>2. Running' = Running /\ LockHeld' = LockHeld /\ Current' = Current /\ Rate' = Rate
    BY <2>1 DEF Running, LockHeld, Current, Rate
  <2>3. TypeOK' /\ PoolAccounted' /\ CallsSerialised'
    BY <2>1, <2>2 DEF IInv, TypeOK, PoolAccounted, CallsSerialised
  <2>4. SpendTracked' /\ SpendBounded'
    BY <2>1, <2>2 DEF IInv, SpendTracked, SpendBounded
  <2>5. ReportLedgers' /\ ReportAccounted' /\ FailureEndsLedger'
    BY <2>1 DEF IInv, ReportLedgers, ReportAccounted, FailureEndsLedger
  <2> QED
    BY <2>3, <2>4, <2>5 DEF IInv
<1> QED
  BY <1>1, <1>2, <1>3, <1>4, <1>5, <1>6, <1>7, <1>8 DEF Next

\* IInv holds in every reachable state, for every value of the constants.
THEOREM Invariance == Spec => []IInv
  BY InitHolds, NextKeeps, PTL DEF Spec

\* Overlapping threads, lost lines and a killed process included, the provider
\* never bills more than one call's excess over the run limit.
THEOREM SpendLimit == Spec => []SpendBounded
<1>1. IInv => SpendBounded
  BY DEF IInv
<1> QED
  BY <1>1, Invariance, PTL

\* Every result of a report was paid for, recorded and made under the report's
\* own fixture, over any number of resumed sessions.
THEOREM ReportsPaidFor == Spec => []ReportAccounted
<1>1. IInv => ReportAccounted
  BY DEF IInv
<1> QED
  BY <1>1, Invariance, PTL

\* No call is made after a failed one.
THEOREM FailureIsFinal == Spec => []FailureEndsLedger
<1>1. IInv => FailureEndsLedger
  BY DEF IInv
<1> QED
  BY <1>1, Invariance, PTL

=============================================================================
