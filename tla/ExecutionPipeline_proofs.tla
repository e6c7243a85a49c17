---------------------- MODULE ExecutionPipeline_proofs ----------------------
(***************************************************************************)
(* The safety of approved execution for every set of plans, workers and    *)
(* requests, every approval lifetime and every number of failures.         *)
(*                                                                         *)
(* IInv is inductive: one lemma per action below shows that the action     *)
(* preserves each of its conjuncts.  The listed properties then follow     *)
(* from IInv alone, the action property from IInv and one step, and the    *)
(* refinement of OneShotExecution from IInv and one step.                  *)
(***************************************************************************)
EXTENDS ExecutionPipeline, TLAPS

USE ConstantsAssumption DEF apiVars, approvalVars, jobVars, resultVars, workerVars, dbVars,
    JobStates, Terminal, Outcomes, Stamps, Steps, BeforeSend, AfterSend

\* The initial state: no approvals, no jobs, every worker idle.
LEMMA InitHolds == Init => IInv
<1> SUFFICES ASSUME Init PROVE IInv
  OBVIOUS
<1>1. TypeOK
  BY DEF Init, TypeOK
<1>2. UniqueApprovals /\ UniqueJobs /\ References /\ Ownership
  BY DEF Init, UniqueApprovals, UniqueJobs, References, Ownership
<1>3. Consumption /\ Transmission
  BY DEF Init, Consumption, Transmission
<1>4. EvidenceNeverUnderstates /\ Timestamps
  BY DEF Init, EvidenceNeverUnderstates, Timestamps
<1> QED
  BY <1>1, <1>2, <1>3, <1>4 DEF IInv

\* A worker that is not idle holds a job that exists, with its approval and plan.
LEMMA HeldJobExists ==
  ASSUME NEW w \in Workers, IInv, pc[w] # "idle"
  PROVE  /\ held[w] \in JobIds
         /\ HeldApproval(w) \in ApprovalIds
         /\ HeldPlan(w) \in Plans
<1>1. held[w] \in JobIds
  BY DEF IInv, TypeOK, Ownership
<1>2. jobState[held[w]] # "absent"
  BY DEF IInv, TypeOK, Ownership
<1>3. approvalOf[held[w]] \in ApprovalIds
  BY <1>1, <1>2 DEF IInv, TypeOK, References
<1> QED
  BY <1>1, <1>3 DEF IInv, TypeOK, References, HeldApproval, HeldPlan


\* Time passes.
LEMMA TickKeeps ==
  ASSUME IInv, Tick
  PROVE  IInv'
<1> USE DEF IInv
<1>1. TypeOK'
  BY DEF Tick, TypeOK
<1>2. UniqueApprovals'
  BY DEF Tick, TypeOK, UniqueApprovals
<1>3. UniqueJobs'
  BY DEF Tick, TypeOK, UniqueJobs
<1>4. References'
  BY DEF Tick, TypeOK, References, Ownership
<1>5. Ownership'
  BY DEF Tick, TypeOK, Ownership, References
<1>6. Consumption'
  BY DEF Tick, TypeOK, Consumption, UniqueJobs, References, Ownership, Terminal
<1>7. Transmission'
  BY DEF Tick, TypeOK, Transmission, HeldPlan, HeldApproval, Ownership, References, Consumption, UniqueJobs, UniqueApprovals
<1>8. EvidenceNeverUnderstates'
  BY DEF Tick, TypeOK, EvidenceNeverUnderstates, Transmission, HeldPlan, HeldApproval, Ownership, References, Consumption, UniqueJobs, UniqueApprovals
<1>9. Timestamps'
  BY DEF Tick, TypeOK, Timestamps, Ownership, References, Consumption
<1> QED
  BY <1>1, <1>2, <1>3, <1>4, <1>5, <1>6, <1>7, <1>8, <1>9

\* A review stores nothing but what the owner has seen.
LEMMA ReviewPlanKeeps ==
  ASSUME NEW p \in Plans, IInv, ReviewPlan(p)
  PROVE  IInv'
<1> USE DEF IInv
<1>1. TypeOK'
  BY DEF ReviewPlan, TypeOK
<1>2. UniqueApprovals'
  BY DEF ReviewPlan, TypeOK, UniqueApprovals
<1>3. UniqueJobs'
  BY DEF ReviewPlan, TypeOK, UniqueJobs
<1>4. References'
  BY DEF ReviewPlan, TypeOK, References, Ownership
<1>5. Ownership'
  BY DEF ReviewPlan, TypeOK, Ownership, References
<1>6. Consumption'
  BY DEF ReviewPlan, TypeOK, Consumption, UniqueJobs, References, Ownership, Terminal
<1>7. Transmission'
  BY DEF ReviewPlan, TypeOK, Transmission, HeldPlan, HeldApproval, Ownership, References, Consumption, UniqueJobs, UniqueApprovals
<1>8. EvidenceNeverUnderstates'
  BY DEF ReviewPlan, TypeOK, EvidenceNeverUnderstates, Transmission, HeldPlan, HeldApproval, Ownership, References, Consumption, UniqueJobs, UniqueApprovals
<1>9. Timestamps'
  BY DEF ReviewPlan, TypeOK, Timestamps, Ownership, References, Consumption
<1> QED
  BY <1>1, <1>2, <1>3, <1>4, <1>5, <1>6, <1>7, <1>8, <1>9

\* A fresh approval is the only one of its plan, and of no job yet.
LEMMA ApproveKeeps ==
  ASSUME NEW p \in Plans, NEW expected \in Plans, NEW a \in ApprovalIds, IInv, Approve(p, expected, a)
  PROVE  IInv'
<1> USE DEF IInv
<1>1. TypeOK'
  BY DEF Approve, PlanHasApproval, TypeOK
<1>2. UniqueApprovals'
  BY DEF Approve, PlanHasApproval, TypeOK, UniqueApprovals
<1>3. UniqueJobs'
  BY DEF Approve, PlanHasApproval, TypeOK, UniqueJobs
<1>4. References'
  BY DEF Approve, PlanHasApproval, TypeOK, References, Ownership
<1>5. Ownership'
  BY DEF Approve, PlanHasApproval, TypeOK, Ownership, References
<1>6. Consumption'
  BY DEF Approve, PlanHasApproval, TypeOK, Consumption, UniqueJobs, References, Ownership, Terminal
<1>7. Transmission'
  BY DEF Approve, PlanHasApproval, TypeOK, Transmission, HeldPlan, HeldApproval, Ownership, References, Consumption, UniqueJobs, UniqueApprovals
<1>8. EvidenceNeverUnderstates'
  BY DEF Approve, PlanHasApproval, TypeOK, EvidenceNeverUnderstates, Transmission, HeldPlan, HeldApproval, Ownership, References, Consumption, UniqueJobs, UniqueApprovals
<1>9. Timestamps'
  BY DEF Approve, PlanHasApproval, TypeOK, Timestamps, Ownership, References, Consumption
<1> QED
  BY <1>1, <1>2, <1>3, <1>4, <1>5, <1>6, <1>7, <1>8, <1>9

\* Reading an approval changes only the request.
LEMMA ReadApprovalKeeps ==
  ASSUME NEW r \in Requests, NEW a \in ApprovalIds, IInv, ReadApproval(r, a)
  PROVE  IInv'
<1> USE DEF IInv
<1>1. TypeOK'
  BY DEF ReadApproval, TypeOK
<1>2. UniqueApprovals'
  BY DEF ReadApproval, TypeOK, UniqueApprovals
<1>3. UniqueJobs'
  BY DEF ReadApproval, TypeOK, UniqueJobs
<1>4. References'
  BY DEF ReadApproval, TypeOK, References, Ownership
<1>5. Ownership'
  BY DEF ReadApproval, TypeOK, Ownership, References
<1>6. Consumption'
  BY DEF ReadApproval, TypeOK, Consumption, UniqueJobs, References, Ownership, Terminal
<1>7. Transmission'
  BY DEF ReadApproval, TypeOK, Transmission, HeldPlan, HeldApproval, Ownership, References, Consumption, UniqueJobs, UniqueApprovals
<1>8. EvidenceNeverUnderstates'
  BY DEF ReadApproval, TypeOK, EvidenceNeverUnderstates, Transmission, HeldPlan, HeldApproval, Ownership, References, Consumption, UniqueJobs, UniqueApprovals
<1>9. Timestamps'
  BY DEF ReadApproval, TypeOK, Timestamps, Ownership, References, Consumption
<1> QED
  BY <1>1, <1>2, <1>3, <1>4, <1>5, <1>6, <1>7, <1>8, <1>9

\* A new job is the only one of its approval, which it cannot have consumed yet.
LEMMA EnqueueJobKeeps ==
  ASSUME NEW r \in Requests, NEW j \in JobIds, IInv, EnqueueJob(r, j)
  PROVE  IInv'
<1> USE DEF IInv
<1>1. TypeOK'
  BY DEF EnqueueJob, ApprovalHasJob, TypeOK
<1>2. UniqueApprovals'
  BY DEF EnqueueJob, ApprovalHasJob, TypeOK, UniqueApprovals
<1>3. UniqueJobs'
  BY DEF EnqueueJob, ApprovalHasJob, TypeOK, UniqueJobs
<1>4. References'
  BY DEF EnqueueJob, ApprovalHasJob, TypeOK, References, Ownership
<1>5. Ownership'
  BY DEF EnqueueJob, ApprovalHasJob, TypeOK, Ownership, References
<1>6. Consumption'
  BY DEF EnqueueJob, ApprovalHasJob, TypeOK, Consumption, UniqueJobs, References, Ownership, Terminal
<1>7. Transmission'
  BY DEF EnqueueJob, ApprovalHasJob, TypeOK, Transmission, HeldPlan, HeldApproval, Ownership, References, Consumption, UniqueJobs, UniqueApprovals
<1>8. EvidenceNeverUnderstates'
  <2>1. outcome[j] = "none"
    BY DEF EnqueueJob, References, Consumption
  <2> QED
    BY <2>1 DEF EnqueueJob, TypeOK, EvidenceNeverUnderstates
<1>9. Timestamps'
  BY DEF EnqueueJob, ApprovalHasJob, TypeOK, Timestamps, Ownership, References, Consumption
<1> QED
  BY <1>1, <1>2, <1>3, <1>4, <1>5, <1>6, <1>7, <1>8, <1>9

\* A refused or repeated enqueue stores nothing.
LEMMA EnqueueWithoutInsertKeeps ==
  ASSUME NEW r \in Requests, IInv, EnqueueWithoutInsert(r)
  PROVE  IInv'
<1> USE DEF IInv
<1>1. TypeOK'
  BY DEF EnqueueWithoutInsert, TypeOK
<1>2. UniqueApprovals'
  BY DEF EnqueueWithoutInsert, TypeOK, UniqueApprovals
<1>3. UniqueJobs'
  BY DEF EnqueueWithoutInsert, TypeOK, UniqueJobs
<1>4. References'
  BY DEF EnqueueWithoutInsert, TypeOK, References, Ownership
<1>5. Ownership'
  BY DEF EnqueueWithoutInsert, TypeOK, Ownership, References
<1>6. Consumption'
  BY DEF EnqueueWithoutInsert, TypeOK, Consumption, UniqueJobs, References, Ownership, Terminal
<1>7. Transmission'
  BY DEF EnqueueWithoutInsert, TypeOK, Transmission, HeldPlan, HeldApproval, Ownership, References, Consumption, UniqueJobs, UniqueApprovals
<1>8. EvidenceNeverUnderstates'
  BY DEF EnqueueWithoutInsert, TypeOK, EvidenceNeverUnderstates, Transmission, HeldPlan, HeldApproval, Ownership, References, Consumption, UniqueJobs, UniqueApprovals
<1>9. Timestamps'
  BY DEF EnqueueWithoutInsert, TypeOK, Timestamps, Ownership, References, Consumption
<1> QED
  BY <1>1, <1>2, <1>3, <1>4, <1>5, <1>6, <1>7, <1>8, <1>9

\* Cancellation touches a queued job that no worker holds.
LEMMA CancelKeeps ==
  ASSUME NEW j \in JobIds, IInv, Cancel(j)
  PROVE  IInv'
<1> USE DEF IInv
<1>1. TypeOK'
  BY DEF Cancel, Locked, TypeOK
<1>2. UniqueApprovals'
  BY DEF Cancel, Locked, TypeOK, UniqueApprovals
<1>3. UniqueJobs'
  BY DEF Cancel, Locked, TypeOK, UniqueJobs
<1>4. References'
  BY DEF Cancel, Locked, TypeOK, References, Ownership
<1>5. Ownership'
  BY DEF Cancel, Locked, TypeOK, Ownership, References
<1>6. Consumption'
  BY DEF Cancel, Locked, TypeOK, Consumption, UniqueJobs, References, Ownership, Terminal
<1>7. Transmission'
  BY DEF Cancel, Locked, TypeOK, Transmission, HeldPlan, HeldApproval, Ownership, References, Consumption, UniqueJobs, UniqueApprovals
<1>8. EvidenceNeverUnderstates'
  BY DEF Cancel, Locked, TypeOK, EvidenceNeverUnderstates, Transmission, HeldPlan, HeldApproval, Ownership, References, Consumption, UniqueJobs, UniqueApprovals
<1>9. Timestamps'
  BY DEF Cancel, Locked, TypeOK, Timestamps, Ownership, References, Consumption
<1> QED
  BY <1>1, <1>2, <1>3, <1>4, <1>5, <1>6, <1>7, <1>8, <1>9

\* Selecting locks a job nobody else holds.
LEMMA ClaimBeginKeeps ==
  ASSUME NEW w \in Workers, IInv, ClaimBegin(w)
  PROVE  IInv'
<1> USE DEF IInv
<1>1. TypeOK'
  BY DEF ClaimBegin, OldestQueued, Locked, Goto, TypeOK
<1>2. UniqueApprovals'
  BY DEF ClaimBegin, OldestQueued, Locked, Goto, TypeOK, UniqueApprovals
<1>3. UniqueJobs'
  BY DEF ClaimBegin, OldestQueued, Locked, Goto, TypeOK, UniqueJobs
<1>4. References'
  BY DEF ClaimBegin, OldestQueued, Locked, Goto, TypeOK, References, Ownership
<1>5. Ownership'
  BY DEF ClaimBegin, OldestQueued, Locked, Goto, TypeOK, Ownership, References
<1>6. Consumption'
  BY DEF ClaimBegin, OldestQueued, Locked, Goto, TypeOK, Consumption, UniqueJobs, References, Ownership, Terminal
<1>7. Transmission'
  BY DEF ClaimBegin, OldestQueued, Locked, Goto, TypeOK, Transmission, HeldPlan, HeldApproval, Ownership, References, Consumption, UniqueJobs, UniqueApprovals
<1>8. EvidenceNeverUnderstates'
  BY DEF ClaimBegin, OldestQueued, Locked, Goto, TypeOK, EvidenceNeverUnderstates, Transmission, HeldPlan, HeldApproval, Ownership, References, Consumption, UniqueJobs, UniqueApprovals
<1>9. Timestamps'
  BY DEF ClaimBegin, OldestQueued, Locked, Goto, TypeOK, Timestamps, Ownership, References, Consumption
<1> QED
  BY <1>1, <1>2, <1>3, <1>4, <1>5, <1>6, <1>7, <1>8, <1>9

\* The claim consumes the approval of its own job only.
LEMMA ClaimCommitKeeps ==
  ASSUME NEW w \in Workers, IInv, ClaimCommit(w)
  PROVE  IInv'
<1> USE DEF IInv
<1>0. held[w] \in JobIds /\ approvalOf[held[w]] \in ApprovalIds /\ HeldPlan(w) \in Plans
  BY HeldJobExists DEF ClaimCommit, HeldApproval
<1>1. TypeOK'
  BY <1>0 DEF ClaimCommit, Usable, StartJob, Goto, TypeOK
<1>2. UniqueApprovals'
  BY DEF ClaimCommit, Usable, StartJob, Goto, TypeOK, UniqueApprovals
<1>3. UniqueJobs'
  BY DEF ClaimCommit, Usable, StartJob, Goto, TypeOK, UniqueJobs
<1>4. References'
  BY DEF ClaimCommit, Usable, StartJob, Goto, TypeOK, References, Ownership
<1>5. Ownership'
  BY DEF ClaimCommit, Usable, StartJob, Goto, TypeOK, Ownership, References
<1>6. Consumption'
  BY <1>0 DEF ClaimCommit, Usable, StartJob, Goto, TypeOK, Consumption, UniqueJobs, References, Ownership, Terminal
<1>7. Transmission'
  BY <1>0 DEF ClaimCommit, Usable, StartJob, Goto, TypeOK, Transmission, HeldPlan, HeldApproval, Ownership, References, Consumption, UniqueJobs, UniqueApprovals
<1>8. EvidenceNeverUnderstates'
  BY <1>0 DEF ClaimCommit, Usable, StartJob, Goto, TypeOK, EvidenceNeverUnderstates, Transmission, HeldPlan, HeldApproval, Ownership, References, Consumption, UniqueJobs, UniqueApprovals
<1>9. Timestamps'
  BY <1>0 DEF ClaimCommit, Usable, StartJob, Goto, TypeOK, Timestamps, Ownership, References, Consumption
<1> QED
  BY <1>1, <1>2, <1>3, <1>4, <1>5, <1>6, <1>7, <1>8, <1>9

\* A preflight failure leaves the approval unspent.
LEMMA ClaimRefuseKeeps ==
  ASSUME NEW w \in Workers, IInv, ClaimRefuse(w)
  PROVE  IInv'
<1> USE DEF IInv
<1>0. held[w] \in JobIds /\ approvalOf[held[w]] \in ApprovalIds /\ HeldPlan(w) \in Plans
  BY HeldJobExists DEF ClaimRefuse, HeldApproval
<1>1. TypeOK'
  BY <1>0 DEF ClaimRefuse, FailJob, EndTurn, TypeOK
<1>2. UniqueApprovals'
  BY DEF ClaimRefuse, FailJob, EndTurn, TypeOK, UniqueApprovals
<1>3. UniqueJobs'
  BY DEF ClaimRefuse, FailJob, EndTurn, TypeOK, UniqueJobs
<1>4. References'
  BY DEF ClaimRefuse, FailJob, EndTurn, TypeOK, References, Ownership
<1>5. Ownership'
  BY DEF ClaimRefuse, FailJob, EndTurn, TypeOK, Ownership, References
<1>6. Consumption'
  BY <1>0 DEF ClaimRefuse, FailJob, EndTurn, TypeOK, Consumption, UniqueJobs, References, Ownership, Terminal
<1>7. Transmission'
  BY <1>0 DEF ClaimRefuse, FailJob, EndTurn, TypeOK, Transmission, HeldPlan, HeldApproval, Ownership, References, Consumption, UniqueJobs, UniqueApprovals
<1>8. EvidenceNeverUnderstates'
  BY <1>0 DEF ClaimRefuse, FailJob, EndTurn, TypeOK, EvidenceNeverUnderstates, Transmission, HeldPlan, HeldApproval, Ownership, References, Consumption, UniqueJobs, UniqueApprovals
<1>9. Timestamps'
  BY <1>0 DEF ClaimRefuse, FailJob, EndTurn, TypeOK, Timestamps, Ownership, References, Consumption
<1> QED
  BY <1>1, <1>2, <1>3, <1>4, <1>5, <1>6, <1>7, <1>8, <1>9

\* A lost acknowledgement is a claim without a worker.
LEMMA ClaimAckLostKeeps ==
  ASSUME NEW w \in Workers, IInv, ClaimAckLost(w)
  PROVE  IInv'
<1> USE DEF IInv
<1>0. held[w] \in JobIds /\ approvalOf[held[w]] \in ApprovalIds /\ HeldPlan(w) \in Plans
  BY HeldJobExists DEF ClaimAckLost, HeldApproval
<1>1. TypeOK'
  BY <1>0 DEF ClaimAckLost, Fault, Usable, StartJob, EndTurn, TypeOK
<1>2. UniqueApprovals'
  BY DEF ClaimAckLost, Fault, Usable, StartJob, EndTurn, TypeOK, UniqueApprovals
<1>3. UniqueJobs'
  BY DEF ClaimAckLost, Fault, Usable, StartJob, EndTurn, TypeOK, UniqueJobs
<1>4. References'
  BY DEF ClaimAckLost, Fault, Usable, StartJob, EndTurn, TypeOK, References, Ownership
<1>5. Ownership'
  BY DEF ClaimAckLost, Fault, Usable, StartJob, EndTurn, TypeOK, Ownership, References
<1>6. Consumption'
  BY <1>0 DEF ClaimAckLost, Fault, Usable, StartJob, EndTurn, TypeOK, Consumption, UniqueJobs, References, Ownership, Terminal
<1>7. Transmission'
  BY <1>0 DEF ClaimAckLost, Fault, Usable, StartJob, EndTurn, TypeOK, Transmission, HeldPlan, HeldApproval, Ownership, References, Consumption, UniqueJobs, UniqueApprovals
<1>8. EvidenceNeverUnderstates'
  BY <1>0 DEF ClaimAckLost, Fault, Usable, StartJob, EndTurn, TypeOK, EvidenceNeverUnderstates, Transmission, HeldPlan, HeldApproval, Ownership, References, Consumption, UniqueJobs, UniqueApprovals
<1>9. Timestamps'
  <2>1. /\ jobState' = [jobState EXCEPT ![held[w]] = "running"]
        /\ stamps' = [stamps EXCEPT ![held[w]] = @ \cup {"started"}]
        /\ outcome' = outcome
    BY DEF ClaimAckLost, StartJob, EndTurn, resultVars
  <2>2. jobState[held[w]] = "queued" /\ stamps[held[w]] = {}
    BY <1>0 DEF ClaimAckLost, Ownership, Timestamps
  <2>3. jobState'[held[w]] = "running" /\ stamps'[held[w]] = {"started"}
    BY <1>0, <2>1, <2>2 DEF TypeOK
  <2>4. \A j \in JobIds : j # held[w] => jobState'[j] = jobState[j] /\ stamps'[j] = stamps[j]
    BY <2>1 DEF TypeOK
  <2> QED
    BY <2>1, <2>3, <2>4 DEF Timestamps
<1> QED
  BY <1>1, <1>2, <1>3, <1>4, <1>5, <1>6, <1>7, <1>8, <1>9

\* The send is the first of its plan: no other worker executes it.
LEMMA SendKeeps ==
  ASSUME NEW w \in Workers, IInv, Send(w)
  PROVE  IInv'
<1> USE DEF IInv
<1>0. held[w] \in JobIds /\ approvalOf[held[w]] \in ApprovalIds /\ HeldPlan(w) \in Plans
  BY HeldJobExists DEF Send, HeldApproval
<1>1. TypeOK'
  BY <1>0 DEF Send, Goto, executorUnchanged, TypeOK
<1>2. UniqueApprovals'
  BY DEF Send, Goto, executorUnchanged, TypeOK, UniqueApprovals
<1>3. UniqueJobs'
  BY DEF Send, Goto, executorUnchanged, TypeOK, UniqueJobs
<1>4. References'
  BY DEF Send, Goto, executorUnchanged, TypeOK, References, Ownership
<1>5. Ownership'
  BY DEF Send, Goto, executorUnchanged, TypeOK, Ownership, References
<1>6. Consumption'
  BY <1>0 DEF Send, Goto, executorUnchanged, TypeOK, Consumption, UniqueJobs, References, Ownership, Terminal
<1>7. Transmission'
  BY <1>0 DEF Send, Goto, executorUnchanged, TypeOK, Transmission, HeldPlan, HeldApproval, Ownership, References, Consumption, UniqueJobs, UniqueApprovals
<1>8. EvidenceNeverUnderstates'
  BY <1>0 DEF Send, Goto, executorUnchanged, TypeOK, EvidenceNeverUnderstates, Transmission, HeldPlan, HeldApproval, Ownership, References, Consumption, UniqueJobs, UniqueApprovals
<1>9. Timestamps'
  BY <1>0 DEF Send, Goto, executorUnchanged, TypeOK, Timestamps, Ownership, References, Consumption
<1> QED
  BY <1>1, <1>2, <1>3, <1>4, <1>5, <1>6, <1>7, <1>8, <1>9

\* The executor returns: the worker's locals change, the database does not.
LEMMA ConcludeKeeps ==
  ASSUME NEW w \in Workers, NEW result \in Outcomes, NEW sends \in {0, 1}, IInv,
         pc[w] \in BeforeSend \cup AfterSend,
         sends = 0 => wire[HeldPlan(w)] = 0,
         result = "succeeded" => wire[HeldPlan(w)] = 1,
         Conclude(w, result, sends),
         UNCHANGED <<executorUnchanged, wire>>,
         faults' \in Nat
  PROVE  IInv'
<1> USE DEF IInv, Conclude, Goto, executorUnchanged
<1>1. TypeOK'
  BY DEF TypeOK
<1>2. UniqueApprovals' /\ UniqueJobs' /\ References'
  BY DEF UniqueApprovals, UniqueJobs, References
<1>3. Ownership'
  BY DEF TypeOK, Ownership
<1>4. Consumption' /\ EvidenceNeverUnderstates' /\ Timestamps'
  BY DEF Consumption, EvidenceNeverUnderstates, Timestamps
<1>5. Transmission'
  <2>1. \A v \in Workers : HeldPlan(v)' = HeldPlan(v)
    BY DEF HeldPlan, HeldApproval
  <2>2. \A v \in Workers : v # w => pc'[v] = pc[v] /\ verdict'[v] = verdict[v] /\ sent'[v] = sent[v]
    BY DEF TypeOK
  <2>3. pc'[w] = "recording" /\ verdict'[w] = result /\ sent'[w] = sends
    BY DEF TypeOK
  <2> QED
    BY <2>1, <2>2, <2>3 DEF Transmission
<1> QED
  BY <1>1, <1>2, <1>3, <1>4, <1>5

\* The executor moves on to its next step before the send.
LEMMA AdvanceKeeps ==
  ASSUME NEW w \in Workers, NEW to \in BeforeSend, IInv,
         pc[w] \in BeforeSend,
         Goto(w, to),
         UNCHANGED <<executorUnchanged, verdict, sent, wire, faults>>
  PROVE  IInv'
<1> USE DEF IInv, Goto, executorUnchanged
<1>1. TypeOK'
  BY DEF TypeOK
<1>2. UniqueApprovals' /\ UniqueJobs' /\ References'
  BY DEF UniqueApprovals, UniqueJobs, References
<1>3. Ownership'
  BY DEF TypeOK, Ownership
<1>4. Consumption' /\ EvidenceNeverUnderstates' /\ Timestamps'
  BY DEF Consumption, EvidenceNeverUnderstates, Timestamps
<1>5. Transmission'
  <2>1. \A v \in Workers : HeldPlan(v)' = HeldPlan(v)
    BY DEF HeldPlan, HeldApproval
  <2>2. \A v \in Workers : v # w => pc'[v] = pc[v]
    BY DEF TypeOK
  <2>3. pc'[w] = to
    BY DEF TypeOK
  <2> QED
    BY <2>1, <2>2, <2>3 DEF Transmission
<1> QED
  BY <1>1, <1>2, <1>3, <1>4, <1>5

\* A turn that ends without a commit frees its job and forgets its locals.
LEMMA AbandonKeeps ==
  ASSUME NEW w \in Workers, IInv, EndTurn(w),
         UNCHANGED <<clock, apiVars, dbVars, wire>>,
         faults' \in Nat
  PROVE  IInv'
<1> USE DEF IInv, EndTurn
<1>1. TypeOK'
  BY DEF TypeOK
<1>2. UniqueApprovals' /\ UniqueJobs' /\ References'
  BY DEF UniqueApprovals, UniqueJobs, References
<1>3. Ownership'
  BY DEF TypeOK, Ownership
<1>4. Consumption' /\ EvidenceNeverUnderstates' /\ Timestamps'
  BY DEF Consumption, EvidenceNeverUnderstates, Timestamps
<1>5. Transmission'
  BY DEF TypeOK, Transmission, HeldPlan, HeldApproval
<1> QED
  BY <1>1, <1>2, <1>3, <1>4, <1>5

\* A claim or a record that fails, is refused or crashes leaves everything durable as it was.
LEMMA FailureKeeps ==
  ASSUME NEW w \in Workers, IInv,
         ClaimRollback(w) \/ RecordUnavailable(w) \/ RecordRejected(w) \/ Crash(w)
  PROVE  IInv'
<1>1. faults' \in Nat
  BY DEF IInv, TypeOK, ClaimRollback, RecordUnavailable, RecordRejected, Crash, Fault
<1> QED
  BY <1>1, AbandonKeeps DEF ClaimRollback, RecordUnavailable, RecordRejected, Crash

\* The executor's steps up to the send: each advances, or concludes with nothing sent.
LEMMA BeforeSendKeeps ==
  ASSUME NEW w \in Workers, IInv,
         \/ Validate(w)
         \/ Probe(w, "probing", "resolving")
         \/ Resolve(w)
         \/ Probe(w, "reprobing", "sending")
  PROVE  IInv'
<1>1. pc[w] \in BeforeSend /\ wire[HeldPlan(w)] = 0
  BY DEF IInv, Transmission, Validate, Probe, Resolve
<1>2. UNCHANGED <<executorUnchanged, wire, faults>> /\ faults' \in Nat
  BY DEF IInv, TypeOK, Validate, Probe, Resolve
<1>3. \/ Conclude(w, "failed", 0)
      \/ Conclude(w, "cancelled", 0)
      \/ \E to \in BeforeSend : Goto(w, to) /\ UNCHANGED <<verdict, sent>>
  BY DEF Validate, Probe, Resolve
<1>4. CASE Conclude(w, "failed", 0) \/ Conclude(w, "cancelled", 0)
  BY <1>1, <1>2, <1>4, ConcludeKeeps
<1>5. CASE \E to \in BeforeSend : Goto(w, to) /\ UNCHANGED <<verdict, sent>>
  BY <1>1, <1>2, <1>5, AdvanceKeeps
<1> QED
  BY <1>3, <1>4, <1>5

\* A refused send, a failed probe and the last probe report what has left.
LEMMA ConcludingKeeps ==
  ASSUME NEW w \in Workers, IInv,
         SendRefused(w) \/ ProbeUnavailable(w) \/ Confirm(w)
  PROVE  IInv'
<1>1. CASE SendRefused(w)
  <2>1. faults' \in Nat /\ pc[w] \in BeforeSend
    BY <1>1 DEF IInv, TypeOK, SendRefused
  <2> QED
    BY <1>1, <2>1, ConcludeKeeps DEF SendRefused
<1>2. CASE ProbeUnavailable(w)
  <2> DEFINE n == IF pc[w] = "confirming" THEN 1 ELSE 0
  <2>1. faults' \in Nat /\ pc[w] \in BeforeSend \cup AfterSend
    BY <1>2 DEF IInv, TypeOK, ProbeUnavailable, Fault
  <2>2. n \in {0, 1} /\ (n = 0 => wire[HeldPlan(w)] = 0)
    BY <1>2 DEF IInv, Transmission, ProbeUnavailable
  <2>3. Conclude(w, "cancelled", n) /\ UNCHANGED <<executorUnchanged, wire>>
    BY <1>2 DEF ProbeUnavailable
  <2> HIDE DEF n
  <2> QED
    BY <2>1, <2>2, <2>3, ConcludeKeeps
<1>3. CASE Confirm(w)
  <2> DEFINE result == IF CancelRequested(held[w]) THEN "cancelled" ELSE verdict[w]
  <2>1. faults' \in Nat /\ pc[w] \in AfterSend
    BY <1>3 DEF IInv, TypeOK, Confirm
  <2>2. result \in Outcomes /\ wire[HeldPlan(w)] = 1
    BY <1>3 DEF IInv, TypeOK, Transmission, Confirm
  <2>3. Conclude(w, result, 1) /\ UNCHANGED <<executorUnchanged, wire>>
    BY <1>3 DEF Confirm
  <2> HIDE DEF result
  <2> QED
    BY <2>1, <2>2, <2>3, ConcludeKeeps
<1> QED
  BY <1>1, <1>2, <1>3

\* The answer: a failure is counted as one send, an evaluated response waits for
\* the last probe.
LEMMA ReceiveKeeps ==
  ASSUME NEW w \in Workers, IInv, Receive(w)
  PROVE  IInv'
<1>1. pc[w] \in AfterSend /\ wire[HeldPlan(w)] = 1 /\ faults' \in Nat
  BY DEF IInv, TypeOK, Transmission, Receive
<1>2. UNCHANGED <<executorUnchanged, wire>>
  BY DEF Receive
<1>3. CASE Conclude(w, "failed", 1)
  BY <1>1, <1>2, <1>3, ConcludeKeeps
<1>4. ASSUME NEW assertions \in {"succeeded", "failed"},
             verdict' = [verdict EXCEPT ![w] = assertions],
             Goto(w, "confirming"),
             UNCHANGED sent
      PROVE  IInv'
  <2> USE DEF IInv, Goto, executorUnchanged
  <2>1. TypeOK'
    BY <1>1, <1>2, <1>4 DEF TypeOK
  <2>2. UniqueApprovals' /\ UniqueJobs' /\ References'
    BY <1>2 DEF UniqueApprovals, UniqueJobs, References
  <2>3. Ownership'
    BY <1>1, <1>2, <1>4 DEF TypeOK, Ownership
  <2>4. Consumption' /\ EvidenceNeverUnderstates' /\ Timestamps'
    BY <1>2 DEF Consumption, EvidenceNeverUnderstates, Timestamps
  <2>5. Transmission'
    BY <1>1, <1>2, <1>4 DEF TypeOK, Transmission, HeldPlan, HeldApproval
  <2> QED
    BY <2>1, <2>2, <2>3, <2>4, <2>5
<1> QED
  BY <1>3, <1>4 DEF Receive

\* The result states the worker's count and completes its own job.
LEMMA RecordKeeps ==
  ASSUME NEW w \in Workers, IInv, Record(w)
  PROVE  IInv'
<1> DEFINE j == held[w]
<1>0. j \in JobIds /\ approvalOf[j] \in ApprovalIds /\ HeldPlan(w) \in Plans
  BY HeldJobExists DEF Record, HeldApproval
<1>1. jobState[j] = "running" /\ outcome[j] = "none"
  BY <1>0 DEF IInv, TypeOK, Ownership, Consumption, Record
<1>2. verdict[w] \in Outcomes /\ sent[w] \in {0, 1}
  BY DEF IInv, TypeOK, Transmission, Record
<1>3. CompleteJob(j, verdict[w], sent[w]) /\ UNCHANGED <<approvalOf, createdAt>>
  BY <1>1 DEF Record
<1>4. EndTurn(w) /\ UNCHANGED <<clock, apiVars, approvalVars, wire, faults>>
  BY DEF Record
<1>5. CompletedStamps(j, verdict[w]) \in SUBSET Stamps
  BY <1>0 DEF CompletedStamps, IInv, TypeOK
<1>6. TypeOK'
  BY <1>0, <1>2, <1>3, <1>4, <1>5 DEF IInv, TypeOK, CompleteJob, EndTurn
<1>7. UniqueApprovals' /\ UniqueJobs'
  BY <1>3, <1>4 DEF IInv, UniqueApprovals, UniqueJobs
<1>8. References'
  BY <1>0, <1>1, <1>2, <1>3, <1>4 DEF IInv, TypeOK, References, CompleteJob
<1>9. Ownership'
  BY <1>0, <1>3, <1>4 DEF IInv, TypeOK, Ownership, CompleteJob, EndTurn
<1>10. Consumption'
  <2>1. \A k \in JobIds : k # j => jobState'[k] = jobState[k] /\ outcome'[k] = outcome[k]
    BY <1>0, <1>3 DEF IInv, TypeOK, CompleteJob
  <2>2. jobState'[j] = verdict[w] /\ outcome'[j] = verdict[w]
    BY <1>0, <1>3 DEF IInv, TypeOK, CompleteJob
  <2>3. consumedAt[approvalOf[j]] # None
    BY <1>0, <1>1 DEF IInv, Consumption
  <2> QED
    BY <1>0, <1>2, <1>3, <1>4, <2>1, <2>2, <2>3 DEF IInv, Consumption
<1>11. Transmission'
  BY <1>0, <1>3, <1>4 DEF IInv, TypeOK, Transmission, HeldPlan, HeldApproval, EndTurn
<1>12. EvidenceNeverUnderstates'
  BY <1>0, <1>2, <1>3, <1>4
  DEF IInv, TypeOK, EvidenceNeverUnderstates, Transmission, HeldPlan, HeldApproval, CompleteJob, Record
<1>13. Timestamps'
  BY <1>0, <1>1, <1>2, <1>3 DEF IInv, TypeOK, Timestamps, CompleteJob, CompletedStamps
<1> QED
  BY <1>6, <1>7, <1>8, <1>9, <1>10, <1>11, <1>12, <1>13 DEF IInv


\* Every step of the system, and stuttering, preserves the invariant.
LEMMA NextKeeps == IInv /\ [Next]_vars => IInv'
<1> SUFFICES ASSUME IInv, [Next]_vars PROVE IInv'
  OBVIOUS
<1>1. CASE Tick
  BY <1>1, TickKeeps
<1>2. CASE ApiStep
  BY <1>2, ReviewPlanKeeps, ApproveKeeps, ReadApprovalKeeps, EnqueueJobKeeps,
     EnqueueWithoutInsertKeeps, CancelKeeps DEF ApiStep
<1>3. ASSUME NEW w \in Workers, WorkerStep(w) PROVE IInv'
  BY <1>3, ClaimBeginKeeps, ClaimCommitKeeps, ClaimRefuseKeeps, BeforeSendKeeps, SendKeeps,
     ConcludingKeeps, ReceiveKeeps, RecordKeeps, FailureKeeps DEF WorkerStep
<1>4. ASSUME NEW w \in Workers, Failure(w) PROVE IInv'
  BY <1>4, FailureKeeps, ClaimAckLostKeeps, ConcludingKeeps DEF Failure
<1>5. CASE UNCHANGED vars
  <2>1. TypeOK'
    BY <1>5 DEF vars, IInv, TypeOK
  <2>2. UniqueApprovals' /\ UniqueJobs' /\ References'
    BY <1>5 DEF vars, IInv, UniqueApprovals, UniqueJobs, References
  <2>3. Ownership' /\ Consumption'
    BY <1>5 DEF vars, IInv, Ownership, Consumption, HeldPlan, HeldApproval
  <2>4. Transmission' /\ EvidenceNeverUnderstates'
    BY <1>5 DEF vars, IInv, Transmission, EvidenceNeverUnderstates, HeldPlan, HeldApproval
  <2>5. Timestamps'
    BY <1>5 DEF vars, IInv, Timestamps
  <2> QED
    BY <2>1, <2>2, <2>3, <2>4, <2>5 DEF IInv
<1> QED
  BY <1>1, <1>2, <1>3, <1>4, <1>5 DEF Next

\* The inductive invariant holds in every reachable state.
THEOREM Invariance == Spec => []IInv
BY InitHolds, NextKeeps, PTL DEF Spec

\* Type correctness: every variable always holds a value of its table column or
\* local variable.
THEOREM TypeCorrectness == Spec => []TypeOK
<1>1. IInv => TypeOK
  BY DEF IInv
<1> QED
  BY <1>1, Invariance, PTL

\* At most one HTTP request ever leaves for a plan.
THEOREM AtMostOneSend == Spec => []OneSendPerPlan
<1>1. IInv => OneSendPerPlan
  BY DEF IInv, Transmission, OneSendPerPlan
<1> QED
  BY <1>1, Invariance, PTL

\* A request leaves only for a reviewed plan, under an approval consumed in time
\* by a job of that plan.
THEOREM SendAuthorisation == Spec => []SendsAuthorised
<1>1. IInv => SendsAuthorised
  <2> SUFFICES ASSUME IInv, NEW p \in Plans, wire[p] > 0
               PROVE  /\ p \in reviewed
                      /\ \E j \in JobIds :
                            /\ JobOf(j, p)
                            /\ jobState[j] \notin {"absent", "queued"}
                            /\ consumedAt[approvalOf[j]] # None
                            /\ consumedAt[approvalOf[j]] < expiresAt[approvalOf[j]]
    BY DEF SendsAuthorised
  <2>1. PICK a \in ApprovalIds : planOf[a] = p /\ consumedAt[a] # None
    BY DEF IInv, Transmission
  <2>2. PICK j \in JobIds : approvalOf[j] = a
    BY <2>1 DEF IInv, Consumption
  <2>3. p \in reviewed
    BY <2>1 DEF IInv, References
  <2>4. jobState[j] \notin {"absent", "queued"}
    BY <2>1, <2>2 DEF IInv, TypeOK, References, Consumption
  <2> QED
    BY <2>1, <2>2, <2>3, <2>4 DEF IInv, Consumption, JobOf
<1> QED
  BY <1>1, Invariance, PTL

\* A job cancelled while queued spends no approval and sends nothing.
THEOREM WithdrawalSafety == Spec => []WithdrawnNeverRuns
<1>1. IInv => WithdrawnNeverRuns
  <2> SUFFICES ASSUME IInv, NEW j \in JobIds, jobState[j] = "cancelled", "started" \notin stamps[j]
               PROVE  consumedAt[approvalOf[j]] = None /\ wire[planOf[approvalOf[j]]] = 0
    BY DEF WithdrawnNeverRuns
  <2>1. approvalOf[j] \in ApprovalIds /\ planOf[approvalOf[j]] \in Plans
    BY DEF IInv, TypeOK, References
  <2>2. outcome[j] = "none"
    BY DEF IInv, Timestamps
  <2>3. consumedAt[approvalOf[j]] = None
    BY <2>2 DEF IInv, Consumption
  <2>4. wire[planOf[approvalOf[j]]] # 1
    BY <2>1, <2>3 DEF IInv, Transmission, UniqueApprovals
  <2> QED
    BY <2>1, <2>3, <2>4 DEF IInv, Transmission
<1> QED
  BY <1>1, Invariance, PTL

\* Recorded evidence never understates the requests that left.
THEOREM EvidenceSafety == Spec => []EvidenceNeverUnderstates
<1>1. IInv => EvidenceNeverUnderstates
  BY DEF IInv
<1> QED
  BY <1>1, Invariance, PTL

\* Spent approvals are exactly those of running jobs and of jobs with evidence.
THEOREM ApprovalAccounting == Spec => []SpentApprovalsAccounted
<1>1. IInv => SpentApprovalsAccounted
  BY DEF IInv, TypeOK, References, Consumption, SpentApprovalsAccounted
<1> QED
  BY <1>1, Invariance, PTL

\* No row ever violates the lifecycle CHECK of the jobs table.
THEOREM LifecycleSafety == Spec => []LifecycleCheck
<1>1. IInv => LifecycleCheck
  BY DEF IInv, TypeOK, Timestamps, LifecycleCheck
<1> QED
  BY <1>1, Invariance, PTL

\* A terminal job, its evidence and a consumed approval never change again.
THEOREM FinalDecisions == Spec => DecisionsFinal
<1> DEFINE Final ==
      /\ \A j \in JobIds : jobState[j] \in Terminal =>
            /\ jobState'[j] = jobState[j]
            /\ stamps'[j] = stamps[j]
            /\ outcome'[j] = outcome[j]
            /\ sendCount'[j] = sendCount[j]
      /\ \A a \in ApprovalIds : consumedAt[a] # None => consumedAt'[a] = consumedAt[a]
<1>1. ASSUME IInv, UNCHANGED dbVars PROVE Final
  BY <1>1
<1>2. ASSUME IInv, NEW p \in Plans, NEW q \in Plans, NEW a \in ApprovalIds, Approve(p, q, a)
      PROVE  Final
  BY <1>2 DEF Approve
<1>3. ASSUME IInv, NEW r \in Requests, NEW j \in JobIds, EnqueueJob(r, j) PROVE Final
  BY <1>3 DEF EnqueueJob, IInv, TypeOK, References
<1>4. ASSUME IInv, NEW j \in JobIds, Cancel(j) PROVE Final
  BY <1>4 DEF Cancel, IInv, TypeOK
<1>5. ASSUME IInv, NEW w \in Workers, ClaimCommit(w) \/ ClaimAckLost(w) \/ ClaimRefuse(w)
      PROVE  Final
  <2>1. held[w] \in JobIds /\ approvalOf[held[w]] \in ApprovalIds /\ jobState[held[w]] = "queued"
    BY <1>5, HeldJobExists DEF ClaimCommit, ClaimAckLost, ClaimRefuse, HeldApproval, IInv, Ownership
  <2> QED
    BY <1>5, <2>1 DEF ClaimCommit, ClaimAckLost, ClaimRefuse, StartJob, FailJob, Usable, IInv, TypeOK
<1>6. ASSUME IInv, NEW w \in Workers, Record(w) PROVE Final
  <2>1. held[w] \in JobIds /\ jobState[held[w]] = "running"
    BY <1>6, HeldJobExists DEF Record, IInv, Ownership
  <2> QED
    BY <1>6, <2>1 DEF Record, CompleteJob, IInv, TypeOK
<1>7. IInv /\ [Next]_vars => [Final]_vars
  <2> SUFFICES ASSUME IInv, Next PROVE Final
    OBVIOUS
  <2>1. CASE UNCHANGED dbVars
    BY <1>1, <2>1
  <2>2. CASE ApiStep /\ ~UNCHANGED dbVars
    BY <1>2, <1>3, <1>4, <2>2 DEF ApiStep, ReviewPlan, ReadApproval, EnqueueWithoutInsert
  <2>3. ASSUME NEW w \in Workers, WorkerStep(w), ~UNCHANGED dbVars PROVE Final
    BY <1>5, <1>6, <2>3 DEF WorkerStep, ClaimBegin, Validate, Probe, Resolve, Send, SendRefused,
       Receive, Confirm, RecordRejected, executorUnchanged
  <2>4. ASSUME NEW w \in Workers, Failure(w), ~UNCHANGED dbVars PROVE Final
    BY <1>5, <2>4 DEF Failure, ClaimRollback, ProbeUnavailable, RecordUnavailable, Crash,
       executorUnchanged
  <2> QED
    BY <2>1, <2>2, <2>3, <2>4 DEF Next, Tick
<1> QED
  BY <1>7, Invariance, PTL DEF Spec, DecisionsFinal

-----------------------------------------------------------------------------
(* ExecutionPipeline implements OneShotExecution.                          *)

\* What the refinement mapping says of a plan with, and without, an approval or a
\* job; uniqueness makes the mapped values well defined.
MappingFacts ==
    \A p \in Plans :
        /\ \A a \in ApprovalIds : planOf[a] = p =>
              AuthorityOf(p) = IF consumedAt[a] # None THEN "spent" ELSE "granted"
        /\ (\A a \in ApprovalIds : planOf[a] # p) => AuthorityOf(p) = "none"
        /\ \A j \in JobIds : JobOf(j, p) =>
              AnswerOf(p) = IF jobState[j] \in Terminal THEN jobState[j] ELSE "open"
        /\ (\A j \in JobIds : ~JobOf(j, p)) => AnswerOf(p) = "open"

\* The mapped values are those of the plan's only approval and only job.
LEMMA MappingHolds == IInv => MappingFacts
<1> SUFFICES ASSUME IInv, NEW p \in Plans
    PROVE  /\ \A a \in ApprovalIds : planOf[a] = p =>
                 AuthorityOf(p) = IF consumedAt[a] # None THEN "spent" ELSE "granted"
           /\ (\A a \in ApprovalIds : planOf[a] # p) => AuthorityOf(p) = "none"
           /\ \A j \in JobIds : JobOf(j, p) =>
                 AnswerOf(p) = IF jobState[j] \in Terminal THEN jobState[j] ELSE "open"
           /\ (\A j \in JobIds : ~JobOf(j, p)) => AnswerOf(p) = "open"
  BY DEF MappingFacts
<1>1. \A a \in ApprovalIds : planOf[a] = p =>
         AuthorityOf(p) = IF consumedAt[a] # None THEN "spent" ELSE "granted"
  BY DEF IInv, UniqueApprovals, AuthorityOf, PlanHasApproval
<1>2. (\A a \in ApprovalIds : planOf[a] # p) => AuthorityOf(p) = "none"
  BY DEF AuthorityOf, PlanHasApproval
<1>3. ASSUME NEW j \in JobIds, JobOf(j, p)
      PROVE  AnswerOf(p) = IF jobState[j] \in Terminal THEN jobState[j] ELSE "open"
  <2>1. \A k \in JobIds : JobOf(k, p) => k = j
    BY <1>3 DEF IInv, TypeOK, UniqueApprovals, UniqueJobs, JobOf
  <2>2. {jobState[k] : k \in {i \in JobIds : JobOf(i, p)}} = {jobState[j]}
    BY <1>3, <2>1
  <2>3. CASE jobState[j] \in Terminal
    <3>1. AnswersOf(p) = {jobState[j]}
      BY <2>2, <2>3 DEF AnswersOf
    <3> QED
      BY <2>3, <3>1 DEF AnswerOf
  <2>4. CASE jobState[j] \notin Terminal
    BY <2>2, <2>4 DEF AnswersOf, AnswerOf
  <2> QED
    BY <2>3, <2>4
<1>4. (\A j \in JobIds : ~JobOf(j, p)) => AnswerOf(p) = "open"
  BY DEF AnswersOf, AnswerOf
<1> QED
  BY <1>1, <1>2, <1>3, <1>4

\* The same facts about the state after a step.
LEMMA MappingHoldsNext == IInv' => MappingFacts'
BY MappingHolds, PTL

\* A step that leaves approvals, job states and the wire alone is invisible.
LEMMA InvisibleStep ==
  ASSUME UNCHANGED <<planOf, consumedAt, approvalOf, jobState, wire>>
  PROVE  UNCHANGED Abstract!vars
<1>1. \A p \in Plans : AuthorityOf(p)' = AuthorityOf(p)
  BY DEF AuthorityOf, PlanHasApproval
<1>2. \A p \in Plans : AnswerOf(p)' = AnswerOf(p)
  BY DEF AnswerOf, AnswersOf, JobOf
<1> QED
  BY <1>1, <1>2 DEF Abstract!vars

\* A job reaching a terminal state settles its plan.
LEMMA SettlingStep ==
  ASSUME IInv, IInv', NEW j \in JobIds, NEW v \in Terminal,
         approvalOf[j] # None,
         jobState[j] \notin Terminal,
         jobState' = [jobState EXCEPT ![j] = v],
         v = "succeeded" => wire[planOf[approvalOf[j]]] = 1,
         UNCHANGED <<planOf, consumedAt, approvalOf, wire>>
  PROVE  Abstract!Next
<1> DEFINE p == planOf[approvalOf[j]]
<1>1. p \in Plans /\ JobOf(j, p) /\ approvalOf[j] \in ApprovalIds
  BY DEF IInv, TypeOK, References, JobOf
<1>2. \A q \in Plans : AuthorityOf(q)' = AuthorityOf(q)
  BY DEF AuthorityOf, PlanHasApproval
<1>3. AuthorityOf(p) # "none"
  BY <1>1, MappingHolds DEF MappingFacts
<1>4. AnswerOf(p) = "open"
  BY <1>1, MappingHolds DEF MappingFacts
<1>5. AnswerOf(p)' = v
  <2>1. jobState'[j] = v /\ JobOf(j, p)'
    BY <1>1 DEF IInv, TypeOK, JobOf
  <2>2. MappingFacts'
    BY MappingHoldsNext
  <2> QED
    BY <1>1, <2>1, <2>2 DEF MappingFacts
<1>6. ASSUME NEW q \in Plans, q # p PROVE AnswerOf(q)' = AnswerOf(q)
  <2>1. \A k \in JobIds : JobOf(k, q)' <=> JobOf(k, q)
    BY DEF JobOf
  <2>2. \A k \in JobIds : JobOf(k, q) => jobState'[k] = jobState[k]
    BY <1>6 DEF IInv, TypeOK, JobOf
  <2>3. AnswersOf(q)' = AnswersOf(q)
    BY <2>1, <2>2 DEF AnswersOf
  <2> QED
    BY <2>3 DEF AnswerOf
<1>7. Abstract!Settle(p, v)
  BY <1>1, <1>2, <1>3, <1>4, <1>5, <1>6 DEF Abstract!Settle
<1> QED
  BY <1>1, <1>7 DEF Abstract!Next, Abstract!Answer

\* An approval grants the plan its authority.
LEMMA GrantingStep ==
  ASSUME IInv, IInv', NEW p \in Plans, NEW e \in Plans, NEW a \in ApprovalIds, Approve(p, e, a)
  PROVE  Abstract!Next
<1>1. AuthorityOf(p) = "none"
  BY MappingHolds DEF MappingFacts, Approve, PlanHasApproval
<1>2. planOf'[a] = p /\ consumedAt'[a] = None
  BY DEF IInv, TypeOK, Consumption, Approve
<1>3. AuthorityOf(p)' = "granted"
  BY <1>2, MappingHoldsNext DEF MappingFacts
<1>4. \A b \in ApprovalIds : b # a => planOf'[b] = planOf[b]
  BY DEF IInv, TypeOK, Approve
<1>5. ASSUME NEW q \in Plans, q # p PROVE AuthorityOf(q)' = AuthorityOf(q)
  <2>1. \A b \in ApprovalIds : planOf'[b] = q <=> planOf[b] = q
    BY <1>2, <1>4, <1>5 DEF Approve
  <2> QED
    BY <2>1 DEF AuthorityOf, PlanHasApproval, Approve
<1>6. ASSUME NEW q \in Plans PROVE AnswerOf(q)' = AnswerOf(q)
  <2>1. \A k \in JobIds : approvalOf[k] # a
    BY DEF IInv, References, Approve
  <2>2. \A k \in JobIds : approvalOf[k] # None => planOf'[approvalOf[k]] = planOf[approvalOf[k]]
    BY <1>4, <2>1 DEF IInv, TypeOK
  <2>3. \A k \in JobIds : JobOf(k, q)' <=> JobOf(k, q)
    BY <2>2 DEF JobOf, Approve
  <2>4. AnswersOf(q)' = AnswersOf(q)
    BY <2>3 DEF AnswersOf, Approve
  <2> QED
    BY <2>4 DEF AnswerOf
<1>7. Abstract!Grant(p)
  BY <1>1, <1>3, <1>5, <1>6 DEF Abstract!Grant, Approve
<1> QED
  BY <1>7 DEF Abstract!Next

\* A new queued job does not answer its plan.
LEMMA EnqueueingStep ==
  ASSUME IInv, IInv', NEW r \in Requests, NEW j \in JobIds, EnqueueJob(r, j)
  PROVE  UNCHANGED Abstract!vars
<1>1. \A q \in Plans : AuthorityOf(q)' = AuthorityOf(q)
  BY DEF AuthorityOf, PlanHasApproval, EnqueueJob
<1>2. pending[r] \in ApprovalIds /\ planOf[pending[r]] \in Plans
  BY DEF IInv, TypeOK, References, EnqueueJob
<1>3. approvalOf'[j] = pending[r] /\ jobState'[j] = "queued"
  BY DEF IInv, TypeOK, EnqueueJob
<1>4. \A k \in JobIds : k # j => approvalOf'[k] = approvalOf[k] /\ jobState'[k] = jobState[k]
  BY DEF IInv, TypeOK, EnqueueJob
<1>5. ASSUME NEW q \in Plans PROVE AnswersOf(q)' = AnswersOf(q)
  <2>1. \A k \in JobIds : k # j => (JobOf(k, q)' <=> JobOf(k, q))
    BY <1>4 DEF JobOf, EnqueueJob
  <2>2. ~JobOf(j, q)
    BY DEF JobOf, EnqueueJob
  <2> QED
    BY <1>3, <1>4, <2>1, <2>2 DEF AnswersOf
<1>6. ASSUME NEW q \in Plans PROVE AnswerOf(q)' = AnswerOf(q)
  <2>1. AnswersOf(q)' = AnswersOf(q)
    BY <1>5
  <2> QED
    BY <2>1 DEF AnswerOf
<1> QED
  BY <1>1, <1>6 DEF Abstract!vars, EnqueueJob

\* A claim spends the authority of the plan it will execute.
LEMMA SpendingStep ==
  ASSUME IInv, IInv', NEW w \in Workers, ClaimCommit(w) \/ ClaimAckLost(w)
  PROVE  Abstract!Next
<1>0. PICK j \in JobIds, a \in ApprovalIds, p \in Plans :
         j = held[w] /\ a = approvalOf[j] /\ p = planOf[a]
  BY HeldJobExists DEF ClaimCommit, ClaimAckLost, HeldApproval, HeldPlan
<1>1. jobState[j] = "queued"
  BY <1>0 DEF ClaimCommit, ClaimAckLost, IInv, Ownership
<1>2. /\ consumedAt[a] = None
      /\ consumedAt' = [consumedAt EXCEPT ![a] = sampledAt[w]]
      /\ jobState' = [jobState EXCEPT ![j] = "running"]
      /\ UNCHANGED <<planOf, approvalOf, wire>>
  BY <1>0 DEF ClaimCommit, ClaimAckLost, Usable, StartJob
<1>3. consumedAt'[a] # None /\ \A b \in ApprovalIds : b # a => consumedAt'[b] = consumedAt[b]
  BY <1>0, <1>1, <1>2 DEF IInv, TypeOK
<1>4. AuthorityOf(p) = "granted"
  BY <1>0, <1>1, <1>2, MappingHolds DEF MappingFacts
<1>5. AuthorityOf(p)' = "spent"
  <2>1. planOf'[a] = p
    BY <1>0, <1>2
  <2>2. MappingFacts'
    BY MappingHoldsNext
  <2> QED
    BY <1>0, <1>1, <1>3, <2>1, <2>2 DEF MappingFacts
<1>6. ASSUME NEW q \in Plans, q # p PROVE AuthorityOf(q)' = AuthorityOf(q)
  BY <1>0, <1>1, <1>2, <1>3, <1>6 DEF AuthorityOf, PlanHasApproval
<1>7. AnswerOf(p) = "open"
  BY <1>0, <1>1, MappingHolds DEF MappingFacts, JobOf
<1>8. ASSUME NEW q \in Plans PROVE AnswerOf(q)' = AnswerOf(q)
  <2>1. \A k \in JobIds : JobOf(k, q)' <=> JobOf(k, q)
    BY <1>2 DEF JobOf
  <2>2. \A k \in JobIds : k # j => jobState'[k] = jobState[k]
    BY <1>0, <1>1, <1>2 DEF IInv, TypeOK
  <2>3. jobState'[j] \notin Terminal /\ jobState[j] \notin Terminal
    BY <1>0, <1>1, <1>2 DEF IInv, TypeOK
  <2>4. AnswersOf(q)' = AnswersOf(q)
    BY <2>1, <2>2, <2>3 DEF AnswersOf
  <2> QED
    BY <2>4 DEF AnswerOf
<1>9. Abstract!Spend(p)
  <2> QED
    BY <1>0, <1>1, <1>2, <1>4, <1>5, <1>6, <1>7, <1>8 DEF Abstract!Spend
<1> QED
  BY <1>0, <1>1, <1>9 DEF Abstract!Next

\* The send is the plan's one request.
LEMMA RequestingStep ==
  ASSUME IInv, NEW w \in Workers, Send(w)
  PROVE  Abstract!Next
<1> DEFINE p == HeldPlan(w)
<1>1. held[w] \in JobIds /\ HeldApproval(w) \in ApprovalIds /\ p \in Plans
  BY HeldJobExists DEF Send
<1>2. jobState[held[w]] = "running" /\ wire[p] = 0
  BY DEF IInv, Ownership, Transmission, Send
<1>3. consumedAt[HeldApproval(w)] # None
  BY <1>1, <1>2 DEF IInv, Consumption, HeldApproval
<1>4. AuthorityOf(p) = "spent"
  BY <1>1, <1>3, MappingHolds DEF MappingFacts, HeldPlan
<1>5. AnswerOf(p) = "open"
  BY <1>1, <1>2, MappingHolds DEF MappingFacts, JobOf, HeldPlan, HeldApproval
<1>6. \A q \in Plans : AuthorityOf(q)' = AuthorityOf(q) /\ AnswerOf(q)' = AnswerOf(q)
  BY DEF AuthorityOf, PlanHasApproval, AnswerOf, AnswersOf, JobOf, Send, executorUnchanged
<1>7. wire' = [wire EXCEPT ![p] = 1]
  BY <1>1, <1>2 DEF Send, IInv, TypeOK
<1>8. Abstract!Request(p)
  BY <1>1, <1>2, <1>4, <1>5, <1>6, <1>7 DEF Abstract!Request
<1> QED
  BY <1>1, <1>8 DEF Abstract!Next

\* Every step of the pipeline is a step of the one-shot specification or stutters.
LEMMA StepRefines == IInv /\ IInv' /\ [Next]_vars => [Abstract!Next]_(Abstract!vars)
<1> SUFFICES ASSUME IInv, IInv', [Next]_vars PROVE Abstract!Next \/ UNCHANGED Abstract!vars
  OBVIOUS
<1> DEFINE Invisible == UNCHANGED <<planOf, consumedAt, approvalOf, jobState, wire>>
<1>1. CASE Invisible
  BY <1>1, InvisibleStep
<1>2. ASSUME NEW j \in JobIds, Cancel(j) PROVE Abstract!Next
  <2>1. approvalOf[j] # None
    BY <1>2 DEF Cancel, IInv, References
  <2> QED
    BY <1>2, <2>1, SettlingStep DEF Cancel
<1>3. ASSUME NEW w \in Workers, ClaimRefuse(w) PROVE Abstract!Next
  <2>1. held[w] \in JobIds /\ approvalOf[held[w]] # None /\ jobState[held[w]] = "queued"
    BY <1>3, HeldJobExists DEF ClaimRefuse, HeldApproval, IInv, Ownership
  <2> QED
    BY <1>3, <2>1, SettlingStep DEF ClaimRefuse, FailJob
<1>4. ASSUME NEW w \in Workers, Record(w) PROVE Abstract!Next
  <2>1. held[w] \in JobIds /\ approvalOf[held[w]] # None /\ jobState[held[w]] = "running"
    BY <1>4, HeldJobExists, ConstantsAssumption DEF Record, HeldApproval, IInv, Ownership
  <2>3. verdict[w] \in Terminal
    BY <1>4 DEF Record, IInv, TypeOK, Transmission, Outcomes, Terminal
  <2>4. verdict[w] = "succeeded" => wire[planOf[approvalOf[held[w]]]] = 1
    BY <1>4 DEF Record, IInv, Transmission, HeldPlan, HeldApproval
  <2>2. outcome[held[w]] = "none"
    BY <2>1 DEF IInv, TypeOK, Consumption
  <2> QED
    BY <1>4, <2>1, <2>2, <2>3, <2>4, SettlingStep DEF Record, CompleteJob
<1>5. CASE ApiStep /\ ~Invisible
  BY <1>2, <1>5, GrantingStep, EnqueueingStep
  DEF ApiStep, ReviewPlan, ReadApproval, EnqueueWithoutInsert
<1>6. ASSUME NEW w \in Workers, WorkerStep(w), ~Invisible PROVE Abstract!Next
  BY <1>3, <1>4, <1>6, SpendingStep, RequestingStep
  DEF WorkerStep, ClaimBegin, Validate, Probe, Resolve, SendRefused, Receive, Confirm,
      RecordRejected, executorUnchanged
<1>7. ASSUME NEW w \in Workers, Failure(w), ~Invisible PROVE Abstract!Next
  BY <1>7, SpendingStep
  DEF Failure, ClaimRollback, ProbeUnavailable, RecordUnavailable, Crash, executorUnchanged
<1> QED
  BY <1>1, <1>5, <1>6, <1>7 DEF Next, vars, Tick

\* The pipeline implements the one-shot promise of OneShotExecution.
THEOREM Refinement == Spec => ImplementsOneShot
<1>1. Init => Abstract!Init
  BY DEF Init, Abstract!Init, AuthorityOf, PlanHasApproval, AnswerOf, AnswersOf, JobOf
<1> QED
  BY <1>1, StepRefines, Invariance, PTL DEF Spec, ImplementsOneShot, Abstract!Spec

=============================================================================
