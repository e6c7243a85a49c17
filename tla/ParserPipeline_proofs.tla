----------------------- MODULE ParserPipeline_proofs -----------------------
(***************************************************************************)
(* The safety of parsing for every finite set of intakes, every set of     *)
(* functions and wake-ups, every lease and every number of failures.       *)
(*                                                                         *)
(* The properties are not inductive.  What IInv adds is who may write a    *)
(* row: a function past its claim holds its job's token (TokenOwnership),  *)
(* so it is the only one to finish the job and to log about it             *)
(* (OneLinePerClaim), and the job it publishes is still claimed, because   *)
(* the row is locked against the reaper.                                   *)
(***************************************************************************)
EXTENDS ParserPipeline, FiniteSetTheorems, TLAPS

USE ConstantsAssumption DEF jobVars, evidenceVars, queueVars, turnVars, faultVars, JobStates,
    Terminal, Codes, Working, Steps, Lines

\* The initial state: no jobs, no wake-ups, every function idle.
LEMMA InitHolds == Init => IInv
<1> SUFFICES ASSUME Init PROVE IInv
  OBVIOUS
<1>1. TypeOK
  BY DEF Init, TypeOK
<1>2. TokenOwnership /\ WakeupOwnership /\ OneLinePerClaim
  BY DEF Init, TokenOwnership, WakeupOwnership, OneLinePerClaim
<1>3. EvidenceIffAccepted /\ LoggedOutcomesTrue
  BY DEF Init, EvidenceIffAccepted, LoggedOutcomesTrue
<1>4. LifecycleCheck /\ OtherTypesWait
  BY DEF Init, LifecycleCheck, OtherTypesWait
<1> QED
  BY <1>1, <1>2, <1>3, <1>4 DEF IInv

\* The end of a turn keeps the types of the queue and of the functions' locals.
LEMMA AcknowledgeTypes ==
  ASSUME TypeOK, NEW w \in Workers, Acknowledge(w)
  PROVE  /\ notifying' \subseteq Docs
         /\ throttle' \in 0..Resend
         /\ message' \in [Messages -> {"none", "ready", "taken"}]
         /\ hidden' \in [Messages -> 0..Visibility]
         /\ pc' \in [Workers -> Steps]
         /\ held' \in [Workers -> Docs \cup {None}]
         /\ current' \in [Workers -> Messages \cup {None}]
         /\ deadline' \in [Workers -> Nat]
         /\ life' \in [Workers -> 0..Timeout]
<1>0. 0 \in 0..Visibility /\ 0 \in Nat /\ 0 \in 0..Timeout
  OBVIOUS
<1>1. message' \in [Messages -> {"none", "ready", "taken"}]
  BY DEF TypeOK, Acknowledge
<1>2. hidden' \in [Messages -> 0..Visibility]
  BY <1>0 DEF TypeOK, Acknowledge
<1>3. pc' \in [Workers -> Steps] /\ held' \in [Workers -> Docs \cup {None}]
  BY DEF TypeOK, Acknowledge, Leave
<1>4. current' \in [Workers -> Messages \cup {None}]
  BY DEF TypeOK, Acknowledge, Leave
<1>5. deadline' \in [Workers -> Nat] /\ life' \in [Workers -> 0..Timeout]
  BY <1>0 DEF TypeOK, Acknowledge, Leave
<1> QED
  BY <1>1, <1>2, <1>3, <1>4, <1>5 DEF TypeOK, Acknowledge

\* A step that touches neither the rows nor the functions' positions keeps what
\* the invariant says of them.
LEMMA RowsUntouchedKeeps ==
  ASSUME IInv, TypeOK',
         UNCHANGED <<jobState, token, code, sections, indexJobs, logged, pc, held, current>>
  PROVE  IInv'
  BY DEF IInv, TypeOK, TokenOwnership, WakeupOwnership, OneLinePerClaim, EvidenceIffAccepted,
     LoggedOutcomesTrue, LifecycleCheck, OtherTypesWait

\* A turn that ends without a write leaves every row and every other function
\* as they were.
LEMMA LeaveKeeps ==
  ASSUME IInv, TypeOK', NEW w \in Workers, Leave(w),
         UNCHANGED <<jobState, token, code, sections, indexJobs, logged>>
  PROVE  IInv'
<1> USE DEF IInv
<1>1. /\ pc'[w] = "idle"
      /\ current'[w] = None
      /\ \A v \in Workers :
            v # w => pc'[v] = pc[v] /\ held'[v] = held[v] /\ current'[v] = current[v]
  BY DEF Leave, TypeOK
<1>2. TokenOwnership'
  BY <1>1 DEF TokenOwnership
<1>3. WakeupOwnership'
  BY <1>1 DEF WakeupOwnership
<1>4. OneLinePerClaim'
  BY <1>1 DEF OneLinePerClaim
<1>5. EvidenceIffAccepted' /\ LoggedOutcomesTrue' /\ LifecycleCheck' /\ OtherTypesWait'
  BY DEF EvidenceIffAccepted, LoggedOutcomesTrue, LifecycleCheck, OtherTypesWait
<1> QED
  BY <1>2, <1>3, <1>4, <1>5

\* A working function that goes on to a step after the claim, other than
\* publishing, keeps its job; nothing stored changes.
LEMMA GoOnKeeps ==
  ASSUME IInv, NEW w \in Workers, pc[w] \in Working, NEW step \in Working \ {"publishing"},
         step \in {"rejecting", "failing"} \/ jobState[held[w]] # "accepted",
         Goto(w, step),
         UNCHANGED <<jobVars, evidenceVars, logged, queueVars, held, current, deadline, life>>,
         outages' \in Nat, crashes' \in Nat
  PROVE  IInv'
<1> USE DEF IInv
<1>1. TypeOK'
  BY DEF Goto, TypeOK
<1>2. pc'[w] = step /\ \A v \in Workers : v # w => pc'[v] = pc[v]
  BY DEF Goto, TypeOK
<1>3. TokenOwnership'
  BY <1>2 DEF TokenOwnership
<1>4. WakeupOwnership'
  BY <1>2 DEF WakeupOwnership
<1>5. OneLinePerClaim'
  BY <1>2 DEF OneLinePerClaim
<1>6. EvidenceIffAccepted' /\ LoggedOutcomesTrue' /\ LifecycleCheck' /\ OtherTypesWait'
  BY DEF EvidenceIffAccepted, LoggedOutcomesTrue, LifecycleCheck, OtherTypesWait
<1> QED
  BY <1>1, <1>3, <1>4, <1>5, <1>6

\* Time passes: only the counters and the visibility of wake-ups change.
LEMMA TickKeeps ==
  ASSUME IInv, Tick
  PROVE  IInv'
<1>1. TypeOK'
  <2> USE DEF IInv
  <2>1. \A n \in Nat : Down(n) \in Nat /\ Down(n) <= n
    BY DEF Down
  <2>2. \A k \in Nat : \A n \in 0..k : Down(n) \in 0..k
    BY <2>1
  <2>3. /\ lease' \in [Docs -> Nat]
        /\ throttle' \in 0..Resend
        /\ hidden' \in [Messages -> 0..Visibility]
    BY <2>2 DEF Tick, TypeOK
  <2>4. /\ deadline' \in [Workers -> Nat]
        /\ life' \in [Workers -> 0..Timeout]
    BY <2>2 DEF Tick, TypeOK
  <2>5. message' \in [Messages -> {"none", "ready", "taken"}]
    BY DEF Tick, TypeOK
  <2> QED
    BY <2>3, <2>4, <2>5 DEF Tick, TypeOK
<1> QED
  BY <1>1, RowsUntouchedKeeps DEF Tick

\* A new job is queued behind the finitely many before it; a repeated upload changes no
\* row.
LEMMA UploadKeeps ==
  ASSUME NEW d \in Docs, IInv, Upload(d)
  PROVE  IInv'
<1> USE DEF IInv
<1>1. TypeOK'
  <2> DEFINE stored == {e \in Docs : jobState[e] # "absent"}
  <2>1. Cardinality(stored) \in Nat
    <3>1. IsFiniteSet(stored)
      BY FS_Subset
    <3> QED
      BY <3>1, FS_CardinalityType
  <2> QED
    BY <2>1 DEF Upload, TypeOK
<1>2. TokenOwnership'
  BY DEF Upload, TypeOK, TokenOwnership, LifecycleCheck
<1>3. WakeupOwnership'
  BY DEF Upload, TypeOK, WakeupOwnership
<1>4. OneLinePerClaim'
  BY DEF Upload, TypeOK, OneLinePerClaim, TokenOwnership, LifecycleCheck
<1>5. EvidenceIffAccepted'
  BY DEF Upload, TypeOK, EvidenceIffAccepted, TokenOwnership
<1>6. LoggedOutcomesTrue'
  BY DEF Upload, TypeOK, LoggedOutcomesTrue, OneLinePerClaim, TokenOwnership
<1>7. LifecycleCheck'
  BY DEF Upload, TypeOK, LifecycleCheck, TokenOwnership
<1>8. OtherTypesWait'
  BY DEF Upload, TypeOK, OtherTypesWait, TokenOwnership, LifecycleCheck
<1> QED
  BY <1>1, <1>2, <1>3, <1>4, <1>5, <1>6, <1>7, <1>8

\* The wake-up of an upload.
LEMMA NotifyUploadKeeps ==
  ASSUME NEW d \in Docs, NEW m \in Messages, IInv, NotifyUpload(d, m)
  PROVE  IInv'
<1>1. TypeOK'
  BY DEF IInv, NotifyUpload, SendWakeup, TypeOK
<1> QED
  BY <1>1, RowsUntouchedKeeps DEF NotifyUpload

\* The wake-up of an upload is never sent.
LEMMA NotifyLostKeeps ==
  ASSUME NEW d \in Docs, IInv, NotifyLost(d)
  PROVE  IInv'
<1>1. TypeOK'
  BY DEF IInv, NotifyLost, Outage, TypeOK
<1> QED
  BY <1>1, RowsUntouchedKeeps DEF NotifyLost

\* The wake-up of a status read.
LEMMA StatusReadKeeps ==
  ASSUME NEW m \in Messages, IInv, StatusRead(m)
  PROVE  IInv'
<1>1. TypeOK'
  BY DEF IInv, StatusRead, SendWakeup, TypeOK
<1> QED
  BY <1>1, RowsUntouchedKeeps DEF StatusRead

\* A wake-up disappears from the queue.
LEMMA WakeupLostKeeps ==
  ASSUME NEW m \in Messages, IInv, WakeupLost(m)
  PROVE  IInv'
<1>1. TypeOK'
  BY DEF IInv, WakeupLost, Outage, TypeOK
<1> QED
  BY <1>1, RowsUntouchedKeeps DEF WakeupLost

\* A function starts on a wake-up, holding no job.
LEMMA ReceiveKeeps ==
  ASSUME NEW w \in Workers, NEW m \in Messages, IInv, Receive(w, m)
  PROVE  IInv'
<1> USE DEF IInv
<1>1. TypeOK'
  BY DEF Receive, Goto, TypeOK
<1>2. TokenOwnership'
  BY DEF Receive, Goto, TypeOK, TokenOwnership, LifecycleCheck
<1>3. WakeupOwnership'
  BY DEF Receive, Goto, TypeOK, WakeupOwnership
<1>4. OneLinePerClaim'
  BY DEF Receive, Goto, TypeOK, OneLinePerClaim, TokenOwnership, LifecycleCheck
<1>5. EvidenceIffAccepted'
  BY DEF Receive, Goto, TypeOK, EvidenceIffAccepted, TokenOwnership
<1>6. LoggedOutcomesTrue'
  BY DEF Receive, Goto, TypeOK, LoggedOutcomesTrue, OneLinePerClaim, TokenOwnership
<1>7. LifecycleCheck'
  BY DEF Receive, Goto, TypeOK, LifecycleCheck, TokenOwnership
<1>8. OtherTypesWait'
  BY DEF Receive, Goto, TypeOK, OtherTypesWait, TokenOwnership, LifecycleCheck
<1> QED
  BY <1>1, <1>2, <1>3, <1>4, <1>5, <1>6, <1>7, <1>8

\* Only expired claims are failed.  The job of a publishing function is locked, so the reap
\* leaves the row it relies on alone.
LEMMA ReapKeeps ==
  ASSUME NEW w \in Workers, IInv, Reap(w)
  PROVE  IInv'
<1> USE DEF IInv
<1>1. TypeOK'
  BY DEF Reap, Goto, Expired, Locked, TypeOK
<1>2. TokenOwnership'
  BY DEF Reap, Goto, Expired, Locked, TypeOK, TokenOwnership, LifecycleCheck
<1>3. WakeupOwnership'
  BY DEF Reap, Goto, Expired, Locked, TypeOK, WakeupOwnership
<1>4. OneLinePerClaim'
  BY DEF Reap, Goto, Expired, Locked, TypeOK, OneLinePerClaim, TokenOwnership,
     LifecycleCheck
<1>5. EvidenceIffAccepted'
  BY DEF Reap, Goto, Expired, Locked, TypeOK, EvidenceIffAccepted, TokenOwnership
<1>6. LoggedOutcomesTrue'
  BY DEF Reap, Goto, Expired, Locked, TypeOK, LoggedOutcomesTrue, OneLinePerClaim,
     TokenOwnership
<1>7. LifecycleCheck'
  BY DEF Reap, Goto, Expired, Locked, TypeOK, LifecycleCheck, TokenOwnership
<1>8. OtherTypesWait'
  BY DEF Reap, Goto, Expired, Locked, TypeOK, OtherTypesWait, TokenOwnership, LifecycleCheck
<1> QED
  BY <1>1, <1>2, <1>3, <1>4, <1>5, <1>6, <1>7, <1>8

\* The candidate is of a parsed type; an idle turn ends.
LEMMA SelectKeeps ==
  ASSUME NEW w \in Workers, IInv, Select(w)
  PROVE  IInv'
<1> USE DEF IInv
<1>1. TypeOK'
  <2>1. CASE Candidates = {}
    BY <2>1, AcknowledgeTypes DEF Select, TypeOK
  <2>2. CASE Candidates # {}
    <3>1. PICK d \in Candidates : held' = [held EXCEPT ![w] = d]
      BY <2>2 DEF Select
    <3>2. d \in Docs /\ Lease[w] \in Nat
      BY ConstantsAssumption DEF Candidates
    <3>3. /\ held' \in [Workers -> Docs \cup {None}]
          /\ deadline' \in [Workers -> Nat]
          /\ pc' \in [Workers -> Steps]
      BY <2>2, <3>1, <3>2 DEF Select, Goto, TypeOK, Steps
    <3> QED
      BY <2>2, <3>3 DEF Select, TypeOK
  <2> QED
    BY <2>1, <2>2
<1>2. TokenOwnership'
  <2>1. UNCHANGED <<jobState, token>>
    BY DEF Select
  <2>2. CASE Leave(w)
    BY <2>1, <2>2 DEF Leave, TypeOK, TokenOwnership
  <2>3. ASSUME NEW d \in Candidates, held' = [held EXCEPT ![w] = d], Goto(w, "claiming")
        PROVE  TokenOwnership'
    BY <2>1, <2>3 DEF Goto, Candidates, TypeOK, TokenOwnership
  <2> QED
    BY <2>2, <2>3 DEF Select, Acknowledge
<1>3. WakeupOwnership'
  BY DEF Select, Goto, Acknowledge, Leave, Candidates, TypeOK, WakeupOwnership
<1>4. OneLinePerClaim'
  BY DEF Select, Goto, Acknowledge, Leave, Candidates, TypeOK, OneLinePerClaim,
     TokenOwnership, LifecycleCheck
<1>5. EvidenceIffAccepted'
  BY DEF Select, Goto, Acknowledge, Leave, Candidates, TypeOK, EvidenceIffAccepted,
     TokenOwnership
<1>6. LoggedOutcomesTrue'
  BY DEF Select, Goto, Acknowledge, Leave, Candidates, TypeOK, LoggedOutcomesTrue,
     OneLinePerClaim, TokenOwnership
<1>7. LifecycleCheck'
  BY DEF Select, Goto, Acknowledge, Leave, Candidates, TypeOK, LifecycleCheck,
     TokenOwnership
<1>8. OtherTypesWait'
  BY DEF Select, Goto, Acknowledge, Leave, Candidates, TypeOK, OtherTypesWait,
     TokenOwnership, LifecycleCheck
<1> QED
  BY <1>1, <1>2, <1>3, <1>4, <1>5, <1>6, <1>7, <1>8

\* The job was queued, so nobody held its token and nothing was logged about it.
LEMMA ClaimKeeps ==
  ASSUME NEW w \in Workers, IInv, Claim(w)
  PROVE  IInv'
<1> USE DEF IInv
<1>1. TypeOK'
  <2>1. CASE jobState[held[w]] = "queued"
    <3>1. held[w] \in Docs /\ deadline[w] \in Nat /\ 0 \in Nat
      BY DEF Claim, TypeOK, TokenOwnership
    <3>2. /\ jobState' \in [Docs -> JobStates]
          /\ token' \in [Docs -> Workers \cup {None}]
          /\ lease' \in [Docs -> Nat]
      BY <2>1, <3>1 DEF Claim, StoreClaim, TypeOK
    <3>3. pc' \in [Workers -> Steps] /\ deadline' \in [Workers -> Nat]
      BY <2>1, <3>1 DEF Claim, Goto, TypeOK
    <3> QED
      BY <2>1, <3>2, <3>3 DEF Claim, StoreClaim, TypeOK
  <2>2. CASE jobState[held[w]] # "queued"
    BY <2>2, AcknowledgeTypes DEF Claim, TypeOK
  <2> QED
    BY <2>1, <2>2
<1>2. TokenOwnership'
  <2>1. CASE jobState[held[w]] = "queued"
    <3>1. held[w] \in Docs /\ token[held[w]] = None
      BY <2>1 DEF Claim, TypeOK, TokenOwnership, LifecycleCheck
    <3> QED
      BY <2>1, <3>1 DEF Claim, StoreClaim, Goto, TypeOK, TokenOwnership
  <2>2. CASE jobState[held[w]] # "queued"
    BY <2>2 DEF Claim, Acknowledge, Leave, TypeOK, TokenOwnership
  <2> QED
    BY <2>1, <2>2
<1>3. WakeupOwnership'
  BY DEF Claim, StoreClaim, Goto, Acknowledge, Leave, TypeOK, WakeupOwnership
<1>4. OneLinePerClaim'
  BY DEF Claim, StoreClaim, Goto, Acknowledge, Leave, TypeOK, OneLinePerClaim,
     TokenOwnership, LifecycleCheck
<1>5. EvidenceIffAccepted'
  BY DEF Claim, StoreClaim, Goto, Acknowledge, Leave, TypeOK, EvidenceIffAccepted,
     TokenOwnership
<1>6. LoggedOutcomesTrue'
  BY DEF Claim, StoreClaim, Goto, Acknowledge, Leave, TypeOK, LoggedOutcomesTrue,
     OneLinePerClaim, TokenOwnership
<1>7. LifecycleCheck'
  BY DEF Claim, StoreClaim, Goto, Acknowledge, Leave, TypeOK, LifecycleCheck, TokenOwnership
<1>8. OtherTypesWait'
  BY DEF Claim, StoreClaim, Goto, Acknowledge, Leave, TypeOK, OtherTypesWait,
     TokenOwnership, LifecycleCheck
<1> QED
  BY <1>1, <1>2, <1>3, <1>4, <1>5, <1>6, <1>7, <1>8

\* The three claim checks: on, or out with nothing published.  Publishing begins with a
\* claimed job.
LEMMA CheckClaimKeeps ==
  ASSUME NEW w \in Workers, NEW from \in Working, NEW next \in SUBSET Working, CheckClaim(w, from,
         next), IInv
  PROVE  IInv'
<1> USE DEF IInv
<1>1. TypeOK'
  <2>1. CASE Active(w)
    BY <2>1 DEF CheckClaim, Goto, TypeOK
  <2>2. CASE ~Active(w)
    BY <2>2, AcknowledgeTypes DEF CheckClaim, NotPublished, Log, TypeOK
  <2> QED
    BY <2>1, <2>2
<1>2. TokenOwnership'
  BY DEF CheckClaim, Active, Goto, NotPublished, Log, Acknowledge, Leave, TypeOK,
     TokenOwnership, LifecycleCheck
<1>3. WakeupOwnership'
  BY DEF CheckClaim, Active, Goto, NotPublished, Log, Acknowledge, Leave, TypeOK,
     WakeupOwnership
<1>4. OneLinePerClaim'
  BY DEF CheckClaim, Active, Goto, NotPublished, Log, Acknowledge, Leave, TypeOK,
     OneLinePerClaim, TokenOwnership, LifecycleCheck
<1>5. EvidenceIffAccepted'
  BY DEF CheckClaim, Active, Goto, NotPublished, Log, Acknowledge, Leave, TypeOK,
     EvidenceIffAccepted, TokenOwnership
<1>6. LoggedOutcomesTrue'
  BY DEF CheckClaim, Active, Goto, NotPublished, Log, Acknowledge, Leave, TypeOK,
     LoggedOutcomesTrue, OneLinePerClaim, TokenOwnership
<1>7. LifecycleCheck'
  BY DEF CheckClaim, Active, Goto, NotPublished, Log, Acknowledge, Leave, TypeOK,
     LifecycleCheck, TokenOwnership
<1>8. OtherTypesWait'
  BY DEF CheckClaim, Active, Goto, NotPublished, Log, Acknowledge, Leave, TypeOK,
     OtherTypesWait, TokenOwnership, LifecycleCheck
<1> QED
  BY <1>1, <1>2, <1>3, <1>4, <1>5, <1>6, <1>7, <1>8

\* The storage read changes nothing stored.
LEMMA FetchSourceKeeps ==
  ASSUME NEW w \in Workers, IInv, FetchSource(w)
  PROVE  IInv'
  BY GoOnKeeps DEF FetchSource, IInv, TypeOK, TokenOwnership

\* The job was claimed and so had no evidence: now it has it once.
LEMMA CommitPromotionKeeps ==
  ASSUME NEW w \in Workers, IInv, CommitPromotion(w)
  PROVE  IInv'
<1> USE DEF IInv
<1>1. TypeOK'
  <2>1. Acknowledge(w) /\ held[w] \in Docs
    BY DEF CommitPromotion, NotPublished, TypeOK, TokenOwnership
  <2>2. /\ jobState' \in [Docs -> JobStates]
        /\ sections' \in [Docs -> Nat]
        /\ indexJobs' \in [Docs -> Nat]
    BY <2>1 DEF CommitPromotion, Publish, TypeOK
  <2>3. logged' \in [Docs -> Lines \cup {"none"}]
    BY DEF CommitPromotion, NotPublished, Log, TypeOK
  <2> QED
    BY <2>1, <2>2, <2>3, AcknowledgeTypes DEF CommitPromotion, Publish, TypeOK
<1>2. TokenOwnership'
  <2>1. held[w] \in Docs /\ token[held[w]] = w /\ jobState[held[w]] = "claimed"
    BY DEF CommitPromotion, TypeOK, TokenOwnership
  <2>2. \A v \in Workers : v # w => pc'[v] = pc[v] /\ held'[v] = held[v]
    BY DEF CommitPromotion, NotPublished, Acknowledge, Leave, TypeOK
  <2>3. pc'[w] = "idle" /\ token' = token
    BY DEF CommitPromotion, Publish, NotPublished, Acknowledge, Leave, TypeOK
  <2>4. \A d \in Docs : d # held[w] => jobState'[d] = jobState[d]
    BY DEF CommitPromotion, Publish, NotPublished, TypeOK
  <2> QED
    BY <2>1, <2>2, <2>3, <2>4 DEF TypeOK, TokenOwnership
<1>3. WakeupOwnership'
  BY DEF CommitPromotion, Publish, NotPublished, Log, Acknowledge, Leave, TypeOK,
     WakeupOwnership
<1>4. OneLinePerClaim'
  <2>1. held[w] \in Docs /\ token[held[w]] = w /\ w # None
    BY DEF CommitPromotion, TypeOK, TokenOwnership
  <2>2. /\ pc'[w] = "idle" /\ token' = token
        /\ \A v \in Workers : v # w => pc'[v] = pc[v] /\ held'[v] = held[v]
    BY DEF CommitPromotion, Publish, NotPublished, Acknowledge, Leave, TypeOK
  <2>3. \A d \in Docs : d # held[w] => logged'[d] = logged[d]
    BY DEF CommitPromotion, NotPublished, Log, TypeOK
  <2>4. \A v \in Workers : v # w /\ pc[v] \in Working => held[v] \in Docs /\ held[v] # held[w]
    BY <2>1 DEF TokenOwnership
  <2> QED
    BY <2>1, <2>2, <2>3, <2>4 DEF OneLinePerClaim
<1>5. EvidenceIffAccepted'
  BY DEF CommitPromotion, Publish, NotPublished, Log, Acknowledge, Leave, TypeOK,
     EvidenceIffAccepted, TokenOwnership
<1>6. LoggedOutcomesTrue'
  BY DEF CommitPromotion, Publish, NotPublished, Log, Acknowledge, Leave, TypeOK,
     LoggedOutcomesTrue, OneLinePerClaim, TokenOwnership
<1>7. LifecycleCheck'
  BY DEF CommitPromotion, Publish, NotPublished, Log, Acknowledge, Leave, TypeOK,
     LifecycleCheck, TokenOwnership
<1>8. OtherTypesWait'
  BY DEF CommitPromotion, Publish, NotPublished, Log, Acknowledge, Leave, TypeOK,
     OtherTypesWait, TokenOwnership, LifecycleCheck
<1> QED
  BY <1>1, <1>2, <1>3, <1>4, <1>5, <1>6, <1>7, <1>8

\* _terminalize and _finish end a claimed job, which has no evidence and no code yet.
LEMMA FinishKeeps ==
  ASSUME NEW w \in Workers, NEW from \in {"rejecting", "failing"}, NEW state \in {"rejected",
         "failed"}, NEW failure \in Codes, state = "rejected" <=> failure =
         "PARSER_DOCUMENT_REJECTED", IInv, Finish(w, from, state, failure)
  PROVE  IInv'
<1> USE DEF IInv
<1>1. TypeOK'
  <2>1. Acknowledge(w) /\ held[w] \in Docs
    BY DEF Finish, TypeOK, TokenOwnership
  <2>2. jobState' \in [Docs -> JobStates] /\ code' \in [Docs -> Codes \cup {None}]
    BY DEF Finish, TypeOK
  <2>3. logged' \in [Docs -> Lines \cup {"none"}]
    BY DEF Finish, Log, TypeOK
  <2> QED
    BY <2>1, <2>2, <2>3, AcknowledgeTypes DEF Finish, TypeOK
<1>2. TokenOwnership'
  BY DEF Finish, Active, Log, Acknowledge, Leave, TypeOK, TokenOwnership, LifecycleCheck
<1>3. WakeupOwnership'
  BY DEF Finish, Active, Log, Acknowledge, Leave, TypeOK, WakeupOwnership
<1>4. OneLinePerClaim'
  BY DEF Finish, Active, Log, Acknowledge, Leave, TypeOK, OneLinePerClaim, TokenOwnership,
     LifecycleCheck
<1>5. EvidenceIffAccepted'
  BY DEF Finish, Active, Log, Acknowledge, Leave, TypeOK, EvidenceIffAccepted,
     TokenOwnership
<1>6. LoggedOutcomesTrue'
  BY DEF Finish, Active, Log, Acknowledge, Leave, TypeOK, LoggedOutcomesTrue,
     OneLinePerClaim, TokenOwnership
<1>7. LifecycleCheck'
  BY DEF Finish, Active, Log, Acknowledge, Leave, TypeOK, LifecycleCheck, TokenOwnership
<1>8. OtherTypesWait'
  BY DEF Finish, Active, Log, Acknowledge, Leave, TypeOK, OtherTypesWait, TokenOwnership,
     LifecycleCheck
<1> QED
  BY <1>1, <1>2, <1>3, <1>4, <1>5, <1>6, <1>7, <1>8

\* A turn given up before its claim.
LEMMA PreClaimUnavailableKeeps ==
  ASSUME NEW w \in Workers, IInv, PreClaimUnavailable(w)
  PROVE  IInv'
<1>1. TypeOK'
  BY DEF IInv, PreClaimUnavailable, Outage, Leave, TypeOK
<1> QED
  BY <1>1, LeaveKeeps DEF PreClaimUnavailable

\* The claim is stored and its function gone.
LEMMA ClaimAckLostKeeps ==
  ASSUME NEW w \in Workers, IInv, ClaimAckLost(w)
  PROVE  IInv'
<1> USE DEF IInv
<1>1. TypeOK'
  BY DEF ClaimAckLost, Outage, StoreClaim, Leave, TypeOK, TokenOwnership
<1>2. TokenOwnership'
  BY DEF ClaimAckLost, Outage, StoreClaim, Leave, TypeOK, TokenOwnership, LifecycleCheck
<1>3. WakeupOwnership'
  BY DEF ClaimAckLost, Outage, StoreClaim, Leave, TypeOK, WakeupOwnership
<1>4. OneLinePerClaim'
  BY DEF ClaimAckLost, Outage, StoreClaim, Leave, TypeOK, OneLinePerClaim, TokenOwnership,
     LifecycleCheck
<1>5. EvidenceIffAccepted'
  BY DEF ClaimAckLost, Outage, StoreClaim, Leave, TypeOK, EvidenceIffAccepted,
     TokenOwnership
<1>6. LoggedOutcomesTrue'
  BY DEF ClaimAckLost, Outage, StoreClaim, Leave, TypeOK, LoggedOutcomesTrue,
     OneLinePerClaim, TokenOwnership
<1>7. LifecycleCheck'
  BY DEF ClaimAckLost, Outage, StoreClaim, Leave, TypeOK, LifecycleCheck, TokenOwnership
<1>8. OtherTypesWait'
  BY DEF ClaimAckLost, Outage, StoreClaim, Leave, TypeOK, OtherTypesWait, TokenOwnership,
     LifecycleCheck
<1> QED
  BY <1>1, <1>2, <1>3, <1>4, <1>5, <1>6, <1>7, <1>8

\* The acceptance is stored and its function believes it failed.
LEMMA PromotionAckLostKeeps ==
  ASSUME NEW w \in Workers, IInv, PromotionAckLost(w)
  PROVE  IInv'
<1> USE DEF IInv
<1>1. TypeOK'
  BY DEF PromotionAckLost, Outage, Publish, Goto, TypeOK, TokenOwnership
<1>2. TokenOwnership'
  BY DEF PromotionAckLost, Outage, Publish, Goto, TypeOK, TokenOwnership, LifecycleCheck
<1>3. WakeupOwnership'
  BY DEF PromotionAckLost, Outage, Publish, Goto, TypeOK, WakeupOwnership
<1>4. OneLinePerClaim'
  BY DEF PromotionAckLost, Outage, Publish, Goto, TypeOK, OneLinePerClaim, TokenOwnership,
     LifecycleCheck
<1>5. EvidenceIffAccepted'
  BY DEF PromotionAckLost, Outage, Publish, Goto, TypeOK, EvidenceIffAccepted,
     TokenOwnership
<1>6. LoggedOutcomesTrue'
  BY DEF PromotionAckLost, Outage, Publish, Goto, TypeOK, LoggedOutcomesTrue,
     OneLinePerClaim, TokenOwnership
<1>7. LifecycleCheck'
  BY DEF PromotionAckLost, Outage, Publish, Goto, TypeOK, LifecycleCheck, TokenOwnership
<1>8. OtherTypesWait'
  BY DEF PromotionAckLost, Outage, Publish, Goto, TypeOK, OtherTypesWait, TokenOwnership,
     LifecycleCheck
<1> QED
  BY <1>1, <1>2, <1>3, <1>4, <1>5, <1>6, <1>7, <1>8

\* The transaction rolls back: nothing stored changes.
LEMMA SourceUnavailableKeeps ==
  ASSUME NEW w \in Workers, IInv, SourceUnavailable(w)
  PROVE  IInv'
  BY GoOnKeeps DEF SourceUnavailable, Outage, IInv, TypeOK

\* Nothing is stored, and the line says so.
LEMMA FinishUnavailableKeeps ==
  ASSUME NEW w \in Workers, IInv, FinishUnavailable(w)
  PROVE  IInv'
<1> USE DEF IInv
<1>1. TypeOK'
  <2>1. Acknowledge(w)
    BY DEF FinishUnavailable
  <2>2. logged' \in [Docs -> Lines \cup {"none"}]
    BY DEF FinishUnavailable, Log, TypeOK
  <2>3. outages' \in Nat
    BY DEF FinishUnavailable, Outage, TypeOK
  <2> QED
    BY <2>1, <2>2, <2>3, AcknowledgeTypes DEF FinishUnavailable, Outage, TypeOK
<1>2. TokenOwnership'
  BY DEF FinishUnavailable, Outage, Log, Acknowledge, Leave, TypeOK, TokenOwnership,
     LifecycleCheck
<1>3. WakeupOwnership'
  BY DEF FinishUnavailable, Outage, Log, Acknowledge, Leave, TypeOK, WakeupOwnership
<1>4. OneLinePerClaim'
  BY DEF FinishUnavailable, Outage, Log, Acknowledge, Leave, TypeOK, OneLinePerClaim,
     TokenOwnership, LifecycleCheck
<1>5. EvidenceIffAccepted'
  BY DEF FinishUnavailable, Outage, Log, Acknowledge, Leave, TypeOK, EvidenceIffAccepted,
     TokenOwnership
<1>6. LoggedOutcomesTrue'
  BY DEF FinishUnavailable, Outage, Log, Acknowledge, Leave, TypeOK, LoggedOutcomesTrue,
     OneLinePerClaim, TokenOwnership
<1>7. LifecycleCheck'
  BY DEF FinishUnavailable, Outage, Log, Acknowledge, Leave, TypeOK, LifecycleCheck,
     TokenOwnership
<1>8. OtherTypesWait'
  BY DEF FinishUnavailable, Outage, Log, Acknowledge, Leave, TypeOK, OtherTypesWait,
     TokenOwnership, LifecycleCheck
<1> QED
  BY <1>1, <1>2, <1>3, <1>4, <1>5, <1>6, <1>7, <1>8

\* A killed function leaves the rows as they are.
LEMMA CrashKeeps ==
  ASSUME NEW w \in Workers, IInv, Crash(w)
  PROVE  IInv'
<1>1. TypeOK'
  BY DEF IInv, Crash, Leave, TypeOK
<1> QED
  BY <1>1, LeaveKeeps DEF Crash

\* Every step preserves the invariant: one case per action.
LEMMA NextKeeps == IInv /\ [Next]_vars => IInv'
<1> SUFFICES ASSUME IInv, [Next]_vars PROVE IInv'
  OBVIOUS
<1>1. CASE Tick
  BY <1>1, TickKeeps
<1>2. CASE ApiStep
  BY <1>2, UploadKeeps, NotifyUploadKeeps, NotifyLostKeeps, StatusReadKeeps, WakeupLostKeeps
  DEF ApiStep
<1>3. ASSUME NEW w \in Workers, WorkerStep(w) PROVE IInv'
  <2>1. CASE ReadSource(w)
    BY <2>1, CheckClaimKeeps DEF ReadSource
  <2>2. CASE VerifyAndParse(w)
    BY <2>2, CheckClaimKeeps DEF VerifyAndParse
  <2>3. CASE BeginPromotion(w)
    BY <2>3, CheckClaimKeeps DEF BeginPromotion
  <2>4. CASE Finish(w, "rejecting", "rejected", "PARSER_DOCUMENT_REJECTED")
    BY <2>4, FinishKeeps
  <2>5. CASE Finish(w, "failing", "failed", "PARSER_WORKER_FAILED")
    BY <2>5, FinishKeeps
  <2> QED
    BY <1>3, <2>1, <2>2, <2>3, <2>4, <2>5, ReceiveKeeps, ReapKeeps, SelectKeeps, ClaimKeeps,
       FetchSourceKeeps, CommitPromotionKeeps
    DEF WorkerStep
<1>4. ASSUME NEW w \in Workers, Failure(w) PROVE IInv'
  BY <1>4, PreClaimUnavailableKeeps, ClaimAckLostKeeps, PromotionAckLostKeeps,
     SourceUnavailableKeeps, FinishUnavailableKeeps, CrashKeeps
  DEF Failure
<1>5. CASE UNCHANGED vars
  BY <1>5 DEF vars, IInv, TypeOK, TokenOwnership, WakeupOwnership, OneLinePerClaim,
     EvidenceIffAccepted, LoggedOutcomesTrue, LifecycleCheck, OtherTypesWait
<1> QED
  BY <1>1, <1>2, <1>3, <1>4, <1>5 DEF Next

\* IInv holds in every reachable state, for every value of the constants.
THEOREM Invariance == Spec => []IInv
  BY InitHolds, NextKeeps, PTL DEF Spec

\* The types of the tables, of the queue and of the functions' locals.
THEOREM TypeCorrectness == Spec => []TypeOK
<1>1. IInv => TypeOK
  BY DEF IInv
<1> QED
  BY <1>1, Invariance, PTL

\* promote is all or nothing and happens once, whichever of promote, fail, reject
\* and reap wins and whatever acknowledgement is lost.
THEOREM EvidenceOnce == Spec => []EvidenceIffAccepted
<1>1. IInv => EvidenceIffAccepted
  BY DEF IInv
<1> QED
  BY <1>1, Invariance, PTL

\* claim_next's conditional UPDATE alone keeps two functions off one job: a token
\* names the one function that works under it.
THEOREM ClaimExclusion == Spec => []ExclusiveClaims
<1>1. IInv => ExclusiveClaims
  BY DEF IInv, TokenOwnership, ExclusiveClaims
<1> QED
  BY <1>1, Invariance, PTL

\* The outcome a worker logs is the outcome stored.
THEOREM LogTruth == Spec => []LoggedOutcomesTrue
<1>1. IInv => LoggedOutcomesTrue
  BY DEF IInv
<1> QED
  BY <1>1, Invariance, PTL

\* No statement of the worker, the reaper or the API can violate the CHECK
\* constraints of parser_jobs.
THEOREM RowChecks == Spec => []LifecycleCheck
<1>1. IInv => LifecycleCheck
  BY DEF IInv
<1> QED
  BY <1>1, Invariance, PTL

\* A claim is never handed on, and a finished job never changes again.
THEOREM OnlyForward == Spec => ForwardOnly
<1> DEFINE Forward ==
      \A d \in Docs :
          /\ jobState'[d] = "queued" => jobState[d] \in {"absent", "queued"}
          /\ token[d] # None => token'[d] = token[d]
          /\ jobState[d] \in Terminal =>
                /\ jobState'[d] = jobState[d]
                /\ code'[d] = code[d]
                /\ sections'[d] = sections[d]
<1>1. ASSUME IInv, UNCHANGED <<jobState, token, code, sections>> PROVE Forward
  BY <1>1
<1>2. ASSUME IInv, NEW d \in Docs, Upload(d) PROVE Forward
  BY <1>2 DEF Upload, IInv, TypeOK
<1>3. ASSUME IInv, NEW w \in Workers, Reap(w) PROVE Forward
  BY <1>3 DEF Reap, Expired, IInv, TypeOK
<1>4. ASSUME IInv, NEW w \in Workers, Claim(w) \/ ClaimAckLost(w) PROVE Forward
  <2>1. /\ held[w] \in Docs
        /\ \/ UNCHANGED <<jobState, token>>
           \/ /\ jobState[held[w]] = "queued"
              /\ token[held[w]] = None
              /\ jobState' = [jobState EXCEPT ![held[w]] = "claimed"]
              /\ token' = [token EXCEPT ![held[w]] = w]
    BY <1>4 DEF Claim, ClaimAckLost, StoreClaim, IInv, TypeOK, TokenOwnership, LifecycleCheck
  <2> QED
    BY <1>4, <2>1 DEF Claim, ClaimAckLost, StoreClaim, IInv, TypeOK
<1>5. ASSUME IInv, NEW w \in Workers, CommitPromotion(w) \/ PromotionAckLost(w) PROVE Forward
  <2>1. held[w] \in Docs /\ jobState[held[w]] = "claimed"
    BY <1>5 DEF CommitPromotion, PromotionAckLost, IInv, TokenOwnership
  <2> QED
    BY <1>5, <2>1 DEF CommitPromotion, PromotionAckLost, Publish, IInv, TypeOK
<1>6. ASSUME IInv, NEW w \in Workers, NEW from \in Steps, NEW state \in Terminal,
             NEW failure \in Codes, Finish(w, from, state, failure)
      PROVE  Forward
  BY <1>6 DEF Finish, Active, IInv, TypeOK
<1>7. ASSUME IInv, NEW w \in Workers, WorkerStep(w) PROVE Forward
  BY <1>1, <1>3, <1>4, <1>5, <1>6, <1>7
  DEF WorkerStep, Receive, Select, ReadSource, FetchSource, VerifyAndParse, BeginPromotion,
      CheckClaim
<1>8. ASSUME IInv, NEW w \in Workers, Failure(w) PROVE Forward
  BY <1>1, <1>4, <1>5, <1>8
  DEF Failure, PreClaimUnavailable, SourceUnavailable, FinishUnavailable, Crash
<1>9. IInv /\ [Next]_vars => [Forward]_vars
  BY <1>1, <1>2, <1>7, <1>8
  DEF Next, vars, Tick, ApiStep, NotifyUpload, NotifyLost, StatusRead, WakeupLost
<1> QED
  BY <1>9, Invariance, PTL DEF Spec, ForwardOnly

-----------------------------------------------------------------------------
(* Parser jobs are leased jobs.                                            *)

\* A step that changes neither the rows' states nor their leases is invisible.
LEMMA InvisibleStep ==
  ASSUME UNCHANGED <<jobState, token, lease, code>>
  PROVE  UNCHANGED Claims!vars
BY DEF Claims!vars, StageOf, OutcomeOf

\* An upload queues its job or finds it.
LEMMA EnqueueingStep ==
  ASSUME IInv, NEW d \in Docs, Upload(d)
  PROVE  Claims!Next \/ UNCHANGED Claims!vars
<1>1. CASE jobState[d] # "absent"
  BY <1>1, InvisibleStep DEF Upload
<1>2. CASE jobState[d] = "absent"
  <2>1. /\ jobState \in [Docs -> JobStates]
        /\ jobState' = [jobState EXCEPT ![d] = "queued"]
        /\ UNCHANGED <<token, lease, code>>
    BY <1>2 DEF Upload, IInv, TypeOK
  <2>2. \A e \in Docs : jobState'[e] = IF e = d THEN "queued" ELSE jobState[e]
    BY <2>1
  <2>3. [e \in Docs |-> StageOf(e)'] = [[e \in Docs |-> StageOf(e)] EXCEPT ![d] = "queued"]
    BY <2>2 DEF StageOf
  <2>4. [e \in Docs |-> OutcomeOf(e)'] = [e \in Docs |-> OutcomeOf(e)]
    BY <1>2, <2>1, <2>2 DEF OutcomeOf
  <2>5. {e \in Docs : jobState'[e] = "claimed" /\ lease'[e] > 0}
          = {e \in Docs : jobState[e] = "claimed" /\ lease[e] > 0}
    BY <1>2, <2>1, <2>2
  <2>6. StageOf(d) = "absent"
    BY <1>2 DEF StageOf
  <2>7. Claims!Enqueue(d)
    BY <2>1, <2>3, <2>4, <2>5, <2>6 DEF Claims!Enqueue
  <2> QED
    BY <2>7 DEF Claims!Next
<1> QED
  BY <1>1, <1>2

\* Time ends leases and nothing else.
LEMMA LapsingStep ==
  ASSUME IInv, Tick
  PROVE  Claims!Next
<1> DEFINE S == {d \in Docs : lease[d] <= 1}
<1>1. lease \in [Docs -> Nat] /\ lease' = [d \in Docs |-> Down(lease[d])]
      /\ UNCHANGED <<jobState, token, code>>
  BY DEF Tick, IInv, TypeOK
<1>2. \A d \in Docs : lease'[d] > 0 <=> (lease[d] > 0 /\ d \notin S)
  BY <1>1 DEF Down
<1>3. {d \in Docs : jobState'[d] = "claimed" /\ lease'[d] > 0}
        = {d \in Docs : jobState[d] = "claimed" /\ lease[d] > 0} \ S
  BY <1>1, <1>2
<1>4. [d \in Docs |-> StageOf(d)'] = [d \in Docs |-> StageOf(d)]
  BY <1>1 DEF StageOf
<1>5. [d \in Docs |-> OutcomeOf(d)'] = [d \in Docs |-> OutcomeOf(d)]
  BY <1>1 DEF OutcomeOf
<1>6. S \in SUBSET Docs
  OBVIOUS
<1>7. PICK T \in SUBSET Docs : T = S
  BY <1>6
<1> HIDE DEF S
<1>8. Claims!Lapse(T)
  BY <1>1, <1>3, <1>4, <1>5, <1>7 DEF Claims!Lapse
<1> QED
  BY <1>7, <1>8 DEF Claims!Next

\* The reaper ends every claim whose lease is over.
LEMMA SweepingStep ==
  ASSUME IInv, NEW w \in Workers, Reap(w)
  PROVE  Claims!Next
<1> DEFINE leased == {d \in Docs : jobState[d] = "claimed" /\ lease[d] > 0}
           over == {d \in Docs : StageOf(d) = "claimed" /\ d \notin leased}
<1>1. /\ jobState' = [d \in Docs |-> IF d \in Expired THEN "failed" ELSE jobState[d]]
      /\ code' = [d \in Docs |-> IF d \in Expired THEN "PARSER_CLAIM_EXPIRED" ELSE code[d]]
      /\ UNCHANGED <<token, lease>>
      /\ lease \in [Docs -> Nat]
  BY DEF Reap, IInv, TypeOK
<1>2. \A d \in Docs : d \in over <=> d \in Expired
  BY <1>1 DEF Expired, StageOf
<1>3. [d \in Docs |-> StageOf(d)'] = [d \in Docs |-> IF d \in over THEN "ended" ELSE StageOf(d)]
  BY <1>1, <1>2 DEF StageOf
<1>4. [d \in Docs |-> OutcomeOf(d)']
        = [d \in Docs |-> IF d \in over THEN <<"failed", "PARSER_CLAIM_EXPIRED">> ELSE OutcomeOf(d)]
  BY <1>1, <1>2 DEF OutcomeOf
<1>5. {d \in Docs : jobState'[d] = "claimed" /\ lease'[d] > 0} = leased
  BY <1>1 DEF Expired
<1>6. Claims!Sweep
  BY <1>1, <1>3, <1>4, <1>5 DEF Claims!Sweep
<1> QED
  BY <1>6 DEF Claims!Next

\* The conditional UPDATE of claim_next, acknowledged or not.
LEMMA ClaimingStep ==
  ASSUME IInv, NEW w \in Workers, held[w] \in Docs, jobState[held[w]] = "queued",
         StoreClaim(w, held[w])
  PROVE  Claims!Next
<1> DEFINE d == held[w]
           leased == {e \in Docs : jobState[e] = "claimed" /\ lease[e] > 0}
<1>1. /\ jobState \in [Docs -> JobStates] /\ token \in [Docs -> Workers \cup {None}]
      /\ lease \in [Docs -> Nat]
      /\ jobState' = [jobState EXCEPT ![d] = "claimed"]
      /\ token' = [token EXCEPT ![d] = w]
      /\ lease' = [lease EXCEPT ![d] = deadline[w]]
      /\ code' = code
  BY DEF StoreClaim, IInv, TypeOK
<1>2. d \in Docs /\ jobState[d] = "queued"
  OBVIOUS
<1> HIDE DEF d
<1>3. \A e \in Docs : jobState'[e] = IF e = d THEN "claimed" ELSE jobState[e]
  BY <1>1, <1>2
<1>4. \A e \in Docs : e # d => lease'[e] = lease[e]
  BY <1>1, <1>2
<1>5. [e \in Docs |-> StageOf(e)'] = [[e \in Docs |-> StageOf(e)] EXCEPT ![d] = "claimed"]
  BY <1>3 DEF StageOf
<1>6. [e \in Docs |-> OutcomeOf(e)'] = [e \in Docs |-> OutcomeOf(e)]
  BY <1>1, <1>2, <1>3 DEF OutcomeOf
<1>7. {e \in Docs : jobState'[e] = "claimed" /\ lease'[e] > 0} \in {leased, leased \cup {d}}
  <2>1. CASE lease'[d] > 0
    <3>1. {e \in Docs : jobState'[e] = "claimed" /\ lease'[e] > 0} = leased \cup {d}
      BY <1>2, <1>3, <1>4, <2>1
    <3> QED
      BY <3>1
  <2>2. CASE ~(lease'[d] > 0)
    <3>1. {e \in Docs : jobState'[e] = "claimed" /\ lease'[e] > 0} = leased
      BY <1>2, <1>3, <1>4, <2>2
    <3> QED
      BY <3>1
  <2> QED
    BY <2>1, <2>2
<1>8. StageOf(d) = "queued"
  BY <1>2 DEF StageOf
<1>9. Claims!Claim(d, w)
  BY <1>1, <1>2, <1>5, <1>6, <1>7, <1>8 DEF Claims!Claim
<1> QED
  BY <1>2, <1>9 DEF Claims!Next

\* A function decides its job while its lease runs.
LEMMA DecidingStep ==
  ASSUME IInv, NEW d \in Docs, jobState[d] = "claimed", lease[d] > 0,
         NEW s \in Terminal, NEW f,
         <<s, f>> \in Verdicts,
         jobState' = [jobState EXCEPT ![d] = s], code' = [code EXCEPT ![d] = f],
         UNCHANGED <<token, lease>>
  PROVE  Claims!Next
<1> DEFINE leased == {e \in Docs : jobState[e] = "claimed" /\ lease[e] > 0}
<1>1. jobState \in [Docs -> JobStates] /\ code \in [Docs -> Codes \cup {None}]
  BY DEF IInv, TypeOK
<1>2. \A e \in Docs : /\ jobState'[e] = IF e = d THEN s ELSE jobState[e]
                      /\ code'[e] = IF e = d THEN f ELSE code[e]
  BY <1>1
<1>3. [e \in Docs |-> StageOf(e)'] = [[e \in Docs |-> StageOf(e)] EXCEPT ![d] = "ended"]
  BY <1>2 DEF StageOf
<1>4. [e \in Docs |-> OutcomeOf(e)'] = [[e \in Docs |-> OutcomeOf(e)] EXCEPT ![d] = <<s, f>>]
  <2>1. OutcomeOf(d)' = <<s, f>>
    BY <1>2 DEF OutcomeOf
  <2>2. \A e \in Docs : e # d => OutcomeOf(e)' = OutcomeOf(e)
    BY <1>2 DEF OutcomeOf
  <2> QED
    BY <2>1, <2>2
<1>5. {e \in Docs : jobState'[e] = "claimed" /\ lease'[e] > 0} = leased \ {d}
  BY <1>2
<1>6. d \in leased
  OBVIOUS
<1>7. Claims!Decide(d, <<s, f>>)
  BY <1>3, <1>4, <1>5, <1>6 DEF Claims!Decide
<1> QED
  BY <1>7 DEF Claims!Next

\* Every step of parsing is a step of the leased jobs or invisible.
LEMMA StepRefines == IInv /\ [Next]_vars => [Claims!Next]_(Claims!vars)
<1> SUFFICES ASSUME IInv, [Next]_vars PROVE Claims!Next \/ UNCHANGED Claims!vars
  OBVIOUS
<1>1. ASSUME NEW w \in Workers, Claim(w) \/ ClaimAckLost(w)
      PROVE  Claims!Next \/ UNCHANGED Claims!vars
  <2>1. held[w] \in Docs
    BY <1>1 DEF Claim, ClaimAckLost, IInv, TokenOwnership
  <2>2. CASE jobState[held[w]] = "queued"
    BY <1>1, <2>1, <2>2, ClaimingStep DEF Claim, ClaimAckLost
  <2>3. CASE jobState[held[w]] # "queued"
    BY <1>1, <2>3, InvisibleStep DEF Claim, ClaimAckLost
  <2> QED
    BY <2>2, <2>3
<1>2. ASSUME NEW w \in Workers, CommitPromotion(w) \/ PromotionAckLost(w)
      PROVE  Claims!Next \/ UNCHANGED Claims!vars
  <2>1. held[w] \in Docs /\ jobState[held[w]] = "claimed"
    BY <1>2 DEF CommitPromotion, PromotionAckLost, IInv, TokenOwnership
  <2>2. CASE lease[held[w]] > 0
    <3>1. Publish(held[w])
      BY <1>2, <2>2 DEF CommitPromotion, PromotionAckLost
    <3>2. code[held[w]] = None /\ code \in [Docs -> Codes \cup {None}]
      BY <2>1 DEF IInv, TypeOK, LifecycleCheck
    <3>3. code' = [code EXCEPT ![held[w]] = None]
      BY <2>1, <3>1, <3>2 DEF Publish
    <3>4. /\ jobState' = [jobState EXCEPT ![held[w]] = "accepted"]
          /\ UNCHANGED <<token, lease>>
      BY <3>1 DEF Publish
    <3>5. PICK d \in Docs, s \in Terminal, f \in {None} :
             d = held[w] /\ s = "accepted" /\ f = None
      BY <2>1
    <3>6. <<s, f>> \in Verdicts
      BY <3>5 DEF Verdicts
    <3>7. /\ jobState' = [jobState EXCEPT ![d] = s]
          /\ code' = [code EXCEPT ![d] = f]
          /\ jobState[d] = "claimed" /\ lease[d] > 0
          /\ UNCHANGED <<token, lease>>
      BY <2>1, <2>2, <3>3, <3>4, <3>5
    <3> QED
      BY <3>6, <3>7, DecidingStep
  <2>3. CASE ~(lease[held[w]] > 0)
    BY <1>2, <2>3, InvisibleStep DEF CommitPromotion, PromotionAckLost
  <2> QED
    BY <2>2, <2>3
<1>3. ASSUME NEW w \in Workers, NEW from \in {"rejecting", "failing"}, NEW s \in Terminal, NEW f,
             <<s, f>> \in Verdicts,
             Finish(w, from, s, f)
      PROVE  Claims!Next \/ UNCHANGED Claims!vars
  <2>1. held[w] \in Docs
    BY <1>3 DEF Finish, IInv, TokenOwnership
  <2>2. CASE Active(w)
    BY <1>3, <2>1, <2>2, DecidingStep DEF Finish, Active
  <2>3. CASE ~Active(w)
    BY <1>3, <2>3, InvisibleStep DEF Finish
  <2> QED
    BY <2>2, <2>3
<1>4. CASE ApiStep
  BY <1>4, EnqueueingStep, InvisibleStep
  DEF ApiStep, NotifyUpload, NotifyLost, StatusRead, WakeupLost
<1>5. ASSUME NEW w \in Workers, WorkerStep(w)
      PROVE  Claims!Next \/ UNCHANGED Claims!vars
  <2>1. /\ <<"rejected", "PARSER_DOCUMENT_REJECTED">> \in Verdicts
        /\ <<"failed", "PARSER_WORKER_FAILED">> \in Verdicts
    BY DEF Verdicts
  <2>2. CASE \/ Finish(w, "rejecting", "rejected", "PARSER_DOCUMENT_REJECTED")
             \/ Finish(w, "failing", "failed", "PARSER_WORKER_FAILED")
    BY <1>3, <2>1, <2>2
  <2> QED
    BY <1>1, <1>2, <1>5, <2>2, SweepingStep, InvisibleStep
    DEF WorkerStep, Receive, Select, ReadSource, FetchSource, VerifyAndParse, BeginPromotion,
        CheckClaim
<1>6. ASSUME NEW w \in Workers, Failure(w)
      PROVE  Claims!Next \/ UNCHANGED Claims!vars
  BY <1>1, <1>2, <1>6, InvisibleStep
  DEF Failure, PreClaimUnavailable, SourceUnavailable, FinishUnavailable, Crash
<1>7. CASE UNCHANGED vars
  BY <1>7, InvisibleStep DEF vars
<1> QED
  BY <1>4, <1>5, <1>6, <1>7, LapsingStep DEF Next

\* The parser queue keeps the promise of leased claims, for every lease, every
\* number of functions and every failure (parser_job_claims.py, promote).
THEOREM Refinement == Spec => ImplementsLeasedJobs
<1>1. Init => Claims!Init
  BY DEF Init, Claims!Init, StageOf, OutcomeOf
<1> QED
  BY <1>1, StepRefines, Invariance, PTL DEF Spec, ImplementsLeasedJobs, Claims!Spec

=============================================================================
