--------------------------- MODULE EvaluationRuns ---------------------------
(***************************************************************************)
(* Paid evaluation runs: the runner that executes selected cases on a      *)
(* thread pool (evaluation_runner.py, scripts/run_evaluation.py), the      *)
(* spend control every provider call goes through                          *)
(* (evaluation_spend_control.py for the informed models,                   *)
(* c1_evaluation_model.py for the C1 baseline, which has its own copy),    *)
(* and the provenance recorded from the report and the call ledgers.       *)
(*                                                                         *)
(* One output path.  A session is one invocation of run_evaluation.py; it  *)
(* has its own controller and its own ledger.  Cases are numbers, in       *)
(* fixture order.  Money is in micro-USD.                                  *)
(***************************************************************************)
EXTENDS Integers, FiniteSets, Sequences, FiniteSetsExt

CONSTANTS Cases,          \* case ids
          Threads,        \* pool threads, 1..n
          Fixtures,       \* contents of the fixture file
          Characters,     \* length of each case's prompt
          CharactersPerToken, Tolerance,   \* calibration, in hundredths
          InRate, WorstInRate, OutRate,    \* per-million token rates
          Million,        \* tokens a rate is for
          OutputCap,      \* the cap on output tokens that is sent
          Usages,         \* <<input, output>> tokens a provider may report
          MaxBill,        \* the dearest call of Usages
          LeastWorst,     \* no case's worst case is below it
          MaxCall, MaxRun,                 \* SpendLimits
          ExpectedCost,   \* maximum_expected_cost of a case
          MaxSessions, MaxFaults           \* bounds

CeilDiv(a, b) == -((-a) \div b)

\* cost_microusd
Cost(rate, usage) == CeilDiv(usage[1] * rate + usage[2] * OutRate, Million)

ASSUME ConstantsAssumption ==
    /\ Cases \subseteq Nat /\ IsFiniteSet(Cases)
    /\ Threads \subseteq Nat \ {0}
    /\ Usages \subseteq Nat \X Nat
    /\ MaxBill \in Nat
    /\ \A u \in Usages : Cost(InRate, u) \in 0..MaxBill
    /\ Characters \in [Cases -> Nat]
    /\ \A c \in Cases : CeilDiv(Characters[c] * 100, CharactersPerToken) \in Nat
    /\ LeastWorst \in 0..MaxRun
    /\ \A c \in Cases, rate \in {InRate, WorstInRate} :
          LET estimate == CeilDiv(Characters[c] * 100, CharactersPerToken)
              worst    == Cost(rate, <<estimate, OutputCap>>)
          IN worst \in Nat /\ LeastWorst <= worst

\* SpendLimits, Calibration and the checks of SpendControlledCalls.__init__.
ASSUME LimitsAssumption ==
    /\ MaxCall \in Nat \ {0} /\ MaxRun \in Nat \ {0}
    /\ MaxCall <= MaxRun
    /\ CharactersPerToken \in Nat \ {0} /\ Tolerance \in Nat
    /\ OutputCap \in Nat \ {0}
    /\ InRate \in Nat /\ OutRate \in Nat /\ WorstInRate >= InRate
    /\ Million \in Nat \ {0}

\* estimate_input_tokens
EstimateInputTokens(c) == CeilDiv(Characters[c] * 100, CharactersPerToken)

ExceedsTolerance(c, actual) ==
    actual * 100 > EstimateInputTokens(c) * (100 + Tolerance)

\* The worst case a call is admitted with: its estimate at the controller's
\* rate and the whole output cap.
WorstCase(rate, c) == Cost(rate, <<EstimateInputTokens(c), OutputCap>>)

VARIABLES
    fixture,    \* content of the fixture file
    report,     \* the run report at the output path, or NoReport
    ledgers,    \* the call ledgers, one per session: sequences of lines
    provenance, \* the ledgers named by the recorded provenance, or {}
    session,    \* the running session: selection, concurrency, controller
    todo,       \* cases submitted to the pool and not started
    results,    \* cases of this session with a validated observation
    broken,     \* some case of this session raised
    pc, case,   \* what each thread does, and for which case
    closed,     \* _closed_reason is set
    total,      \* _running_total_microusd
    billed,     \* history: what the provider billed in this session
    faults

control == <<closed, total, billed>>
pool == <<todo, results, broken, pc, case>>
vars == <<fixture, report, ledgers, provenance, session, pool, control, faults>>

NoReport == [selected |-> {}, made |-> << >>]
NoSession == [selected |-> {}, concurrency |-> 0, controller |-> "none", resumed |-> << >>]

Init ==
    /\ fixture \in Fixtures
    /\ report = NoReport
    /\ ledgers = << >>
    /\ provenance = {}
    /\ session = NoSession
    /\ todo = {} /\ results = {} /\ broken = FALSE
    /\ pc = [t \in Threads |-> "idle"]
    /\ case = [t \in Threads |-> 0]
    /\ closed = FALSE /\ total = 0 /\ billed = 0
    /\ faults = 0

Running == session # NoSession

Fault == faults < MaxFaults /\ faults' = faults + 1

-----------------------------------------------------------------------------
(* Starting a session.                                                     *)

Resumable_AnyFixture(r) == TRUE

\* _resumed_results: the report to resume from belongs to this fixture.
Resumable(r) == r # NoReport => r.fixture = fixture

\* main and run_evaluation_cases, up to the pool: the executor, and with it the
\* controller and a new ledger, is made before the selection is checked, so a
\* refused run leaves an empty ledger.  An existing report is resumed from.
StartRun(selected, concurrency, controller, maxExpectedCost, artifactsMatch) ==
    /\ ~Running
    /\ Len(ledgers) < MaxSessions
    /\ ledgers' = Append(ledgers, << >>)
    /\ LET resumed == selected \cap DOMAIN report.made
           pending == selected \ resumed
           accepted == /\ selected # {}
                       /\ artifactsMatch
                       /\ Resumable(report)
                       /\ Cardinality(pending) * ExpectedCost <= maxExpectedCost
       IN IF accepted
          THEN /\ session' = [selected |-> selected, concurrency |-> concurrency,
                              controller |-> controller,
                              resumed |-> [c \in resumed |-> report.made[c]]]
               /\ todo' = pending
          ELSE UNCHANGED <<session, todo>>
    /\ results' = {} /\ broken' = FALSE
    /\ closed' = FALSE /\ total' = 0 /\ billed' = 0
    /\ UNCHANGED <<fixture, report, provenance, pc, case, faults>>

\* _execute_pending_cases: a pool thread takes the next submitted case.
TakeCase(t) ==
    /\ Running
    /\ t <= session.concurrency
    /\ pc[t] = "idle"
    /\ \E c \in todo :
          /\ \A d \in todo : c <= d
          /\ case' = [case EXCEPT ![t] = c]
          /\ todo' = todo \ {c}
    /\ pc' = [pc EXCEPT ![t] = "execute"]
    /\ UNCHANGED <<fixture, report, ledgers, provenance, session, results, broken, control,
                   faults>>

-----------------------------------------------------------------------------
(* The controlled call.                                                    *)

Line(outcome, charged) == [outcome |-> outcome, charged |-> charged]

AppendLine(line) == ledgers' = [ledgers EXCEPT ![Len(ledgers)] = Append(@, line)]

\* _write_ledger, which may raise instead.
WriteLedger(outcome, charged) ==
    \/ AppendLine(Line(outcome, charged)) /\ UNCHANGED faults
    \/ Fault /\ UNCHANGED ledgers

Raises(t) ==
    /\ broken' = TRUE
    /\ pc' = [pc EXCEPT ![t] = "idle"]
    /\ UNCHANGED results

Fail_StaysOpen(t, charged) ==
    /\ closed' = closed
    /\ total' = total + charged
    /\ WriteLedger("failed", charged)
    /\ Raises(t)

\* _fail: close, charge, write the line, raise.
Fail(t, charged) ==
    /\ closed' = TRUE
    /\ total' = total + charged
    /\ WriteLedger("failed", charged)
    /\ Raises(t)

\* _call_lock is held from the admission of a call to its line.
LockHeld == \E t \in Threads : pc[t] = "calling"

\* _run_one: neither limit is exceeded by the worst case.
Admitted(worst) == worst <= MaxCall /\ total + worst <= MaxRun

\* run and the head of _run_one.  An overlapping call closes the controller and
\* raises without a line; so does, without closing, a call on a closed one.
Enter(t, rate) ==
    /\ Running
    /\ pc[t] = "execute"
    /\ IF LockHeld
       THEN closed' = TRUE /\ Raises(t) /\ UNCHANGED <<total, ledgers, faults>>
       ELSE IF closed
       THEN Raises(t) /\ UNCHANGED <<closed, total, ledgers, faults>>
       ELSE IF ~Admitted(WorstCase(rate, case[t]))
       THEN Fail(t, 0)
       ELSE /\ pc' = [pc EXCEPT ![t] = "calling"]
            /\ UNCHANGED <<closed, total, ledgers, broken, results, faults>>
    /\ UNCHANGED <<fixture, report, provenance, session, todo, case, billed>>

\* The informed models: worst case at the cache-write rate.
Run(t) == session.controller = "informed" /\ Enter(t, WorstInRate)

\* C1B0Model.complete and the head of _complete_one.
C1Complete(t) == session.controller = "c1" /\ Enter(t, InRate)

\* The provider call raised: it reported no usage but may have been billed.
CallFails(t, rate, bill) ==
    /\ pc[t] = "calling"
    /\ billed' = billed + bill
    /\ Fail(t, WorstCase(rate, case[t]))
    /\ UNCHANGED <<fixture, report, provenance, session, todo, case>>

Returns(t) ==
    /\ results' = results \cup {case[t]}
    /\ pc' = [pc EXCEPT ![t] = "idle"]
    /\ UNCHANGED broken

Succeed_ChargedAfterWrite(t, charged) ==
    /\ UNCHANGED closed
    /\ \/ /\ AppendLine(Line("succeeded", charged)) /\ UNCHANGED faults
          /\ total' = total + charged
          /\ Returns(t)
       \/ Fault /\ Raises(t) /\ UNCHANGED <<ledgers, total>>

\* The tail of _run_one: charge, then write the line.  A line that cannot be
\* written raises without closing the controller.
Succeed(t, charged) ==
    /\ total' = total + charged
    /\ UNCHANGED closed
    /\ \/ /\ AppendLine(Line("succeeded", charged)) /\ UNCHANGED faults
          /\ Returns(t)
       \/ Fault /\ Raises(t) /\ UNCHANGED ledgers

\* The provider answered with a usage.  The answer is refused for its usage
\* details, its cost, its token count or its content, in this order; all close.
Answer(t, usage, detailsValid, outputValid) ==
    /\ pc[t] = "calling"
    /\ LET charged == Cost(InRate, usage)
           refused == \/ ~detailsValid
                      \/ total + charged > MaxRun
                      \/ ExceedsTolerance(case[t], usage[1])
                      \/ ~outputValid
       IN /\ billed' = billed + charged
          /\ IF refused THEN Fail(t, charged) ELSE Succeed(t, charged)
    /\ UNCHANGED <<fixture, report, provenance, session, todo, case>>

\* _run_one after the admission.
RunOne(t) ==
    /\ session.controller = "informed"
    /\ \/ \E u \in Usages : CallFails(t, WorstInRate, Cost(InRate, u))
       \/ \E u \in Usages, d, o \in BOOLEAN : Answer(t, u, d, o)

\* C1B0Model._complete_one after the admission: it has no usage details.
C1CompleteOne(t) ==
    /\ session.controller = "c1"
    /\ \/ \E u \in Usages : CallFails(t, InRate, Cost(InRate, u))
       \/ \E u \in Usages, o \in BOOLEAN : Answer(t, u, TRUE, o)

\* execute raises before the call: a prompt past the short-context threshold or
\* a changed artifact.  The controller stays open for the cases that follow.
RefuseCase(t) ==
    /\ Running
    /\ pc[t] = "execute"
    /\ Fault
    /\ Raises(t)
    /\ UNCHANGED <<fixture, report, ledgers, provenance, session, todo, case, control>>

-----------------------------------------------------------------------------
(* Report and provenance.                                                  *)

End == session' = NoSession

\* The pool has drained: a report is written only if no case raised.
FinishRun ==
    /\ Running
    /\ todo = {}
    /\ \A t \in Threads : pc[t] = "idle"
    /\ report' = IF broken THEN report
                 ELSE [selected    |-> session.selected,
                       fixture     |-> fixture,
                       concurrency |-> session.concurrency,
                       made        |-> [c \in session.selected |->
                                          IF c \in results
                                          THEN [ledger |-> Len(ledgers), fixture |-> fixture]
                                          ELSE session.resumed[c]]]
    /\ End
    /\ UNCHANGED <<fixture, ledgers, provenance, pool, control, faults>>

\* The process is killed; a call under way may have been billed.
Crash ==
    /\ Running
    /\ Fault
    /\ \E u \in Usages : billed' = billed + IF LockHeld THEN Cost(InRate, u) ELSE 0
    /\ pc' = [t \in Threads |-> "idle"]
    /\ todo' = {}
    /\ End
    /\ UNCHANGED <<fixture, report, ledgers, provenance, results, broken, case, closed, total>>

\* The owner regenerates the corpus between runs.
EditFixture ==
    /\ ~Running
    /\ fixture' \in Fixtures \ {fixture}
    /\ UNCHANGED <<report, ledgers, provenance, session, pool, control, faults>>

Lines(named) == FoldSet(LAMBDA k, n : n + Len(ledgers[k]), 0, named)

\* The loop over the ledgers of build_informed_run_provenance and
\* build_c1_run_provenance: every line is a success and the lines are as many
\* as the selected cases.
LedgersAccepted(named) ==
    /\ named # {}
    /\ \A k \in named : \A i \in DOMAIN ledgers[k] : ledgers[k][i].outcome = "succeeded"
    /\ Lines(named) = Cardinality(report.selected)

\* build_..._run_provenance up to the ledgers, then write_..._run_provenance,
\* which creates its file exclusively.
RecordProvenance(named) ==
    /\ ~Running
    /\ report # NoReport
    /\ report.fixture = fixture
    /\ report.concurrency = 1
    /\ LedgersAccepted(named)
    /\ provenance = {}
    /\ provenance' = named
    /\ UNCHANGED <<fixture, report, ledgers, session, pool, control, faults>>

-----------------------------------------------------------------------------
Next ==
    \/ \E s \in SUBSET Cases, k \in Threads, m \in {"informed", "c1"}, a \in BOOLEAN,
          limit \in {0, Cardinality(Cases) * ExpectedCost} : StartRun(s, k, m, limit, a)
    \/ \E t \in Threads :
          \/ TakeCase(t)
          \/ RefuseCase(t)
          \/ Run(t)
          \/ C1Complete(t)
          \/ RunOne(t)
          \/ C1CompleteOne(t)
    \/ FinishRun
    \/ Crash
    \/ EditFixture
    \/ \E named \in SUBSET DOMAIN ledgers : RecordProvenance(named)

Spec == Init /\ [][Next]_vars

-----------------------------------------------------------------------------
(* Properties.                                                             *)

\* Whatever a session's calls really cost, threads overlap or lines are lost,
\* the provider bills past the run limit at most what one call can cost more
\* than the worst case it was admitted with (_run_one, _fail).
SpendBounded == billed <= MaxRun + MaxBill - LeastWorst

\* A report never contains a result that was not paid for and recorded under
\* its own fixture: each result was made in a session whose ledger has only
\* successes, one line for each case the report took from that session or from
\* an earlier selection of it (run_evaluation_cases, _resumed_results).
ReportAccounted ==
    \A c \in DOMAIN report.made :
        LET k == report.made[c].ledger IN
        /\ report.made[c].fixture = report.fixture
        /\ \A i \in DOMAIN ledgers[k] : ledgers[k][i].outcome = "succeeded"
        /\ Cardinality({d \in DOMAIN report.made : report.made[d].ledger = k})
              <= Len(ledgers[k])

\* Nothing is spent after a failure: a failed line is the last of its ledger,
\* also when another thread's overlapping call closed the controller first.
FailureEndsLedger ==
    \A k \in DOMAIN ledgers : \A i \in DOMAIN ledgers[k] :
        ledgers[k][i].outcome = "failed" => i = Len(ledgers[k])

-----------------------------------------------------------------------------
(* The inductive invariant.                                                *)

LedgerLines == [outcome : {"succeeded", "failed"}, charged : Nat]

\* Every variable holds a value the files and the process can hold.
TypeOK ==
    /\ fixture \in Fixtures
    /\ ledgers \in Seq(Seq(LedgerLines))
    /\ todo \subseteq Cases
    /\ results \subseteq Cases
    /\ broken \in BOOLEAN
    /\ pc \in [Threads -> {"idle", "execute", "calling"}]
    /\ case \in [Threads -> Nat]
    /\ closed \in BOOLEAN
    /\ total \in Nat
    /\ billed \in Nat
    /\ faults \in Nat

\* The session's rate and its ledger.
Rate == IF session.controller = "informed" THEN WorstInRate ELSE InRate
Current == ledgers[Len(ledgers)]

AllSucceeded(lines) == \A i \in DOMAIN lines : lines[i].outcome = "succeeded"

\* A case belongs to the pool, to a thread, to the results or to the report the
\* session resumes from, as long as no case has raised; that report stays as it
\* is, of the session's fixture, and names earlier ledgers only.
PoolAccounted ==
    /\ \A t \in Threads : pc[t] # "idle" => case[t] \in Cases
    /\ ~Running => todo = {} /\ \A t \in Threads : pc[t] = "idle"
    /\ Running =>
          /\ Len(ledgers) > 0
          /\ session.selected \subseteq Cases
          /\ session.controller \in {"informed", "c1"}
          /\ \A c \in DOMAIN session.resumed :
                c \in DOMAIN report.made /\ session.resumed[c] = report.made[c]
          /\ report # NoReport => report.fixture = fixture
          /\ \A c \in DOMAIN report.made : report.made[c].ledger < Len(ledgers)
          /\ ~broken => \A c \in session.selected :
                \/ c \in todo \cup results
                \/ c \in DOMAIN session.resumed
                \/ \E t \in Threads : pc[t] # "idle" /\ case[t] = c

\* One call at a time.  Before the controller closes, during a call, and as long
\* as no case has raised the session's ledger has successes only, one for each
\* result.
CallsSerialised ==
    /\ \A t, u \in Threads : pc[t] = "calling" /\ pc[u] = "calling" => t = u
    /\ Running =>
          /\ ~closed \/ LockHeld \/ ~broken => AllSucceeded(Current)
          /\ Cardinality(results) <= Len(Current)

\* What the provider billed is what was charged, until a call fails; a call is
\* admitted with room for its worst case, and the total stands still during it.
SpendTracked ==
    /\ Running /\ (~closed \/ LockHeld) => billed = total
    /\ \A t \in Threads : pc[t] = "calling" => total + WorstCase(Rate, case[t]) <= MaxRun

ReportLedgers ==
    /\ DOMAIN report.made \subseteq Cases
    /\ \A c \in DOMAIN report.made : report.made[c].ledger \in DOMAIN ledgers

IInv ==
    /\ TypeOK
    /\ PoolAccounted
    /\ CallsSerialised
    /\ SpendTracked
    /\ ReportLedgers
    /\ SpendBounded
    /\ ReportAccounted
    /\ FailureEndsLedger

=============================================================================
