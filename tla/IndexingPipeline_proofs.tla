---------------------- MODULE IndexingPipeline_proofs ----------------------
(***************************************************************************)
(* The safety of indexing for every finite set of versions, every content, *)
(* every set of functions, every lease and every number of faults.         *)
(*                                                                         *)
(* None of index's transactions looks at the job, so what they build has   *)
(* to be carried from step to step: Progress(w) says what the step that    *)
(* worker w has reached may rely on.  It speaks only of rows that are      *)
(* never removed, so no other worker can take it away.                     *)
(***************************************************************************)
EXTENDS IndexingPipeline, FiniteSetTheorems, TLAPS

USE ConstantsAssumption DEF jobVars, indexVars, loopVars, turnVars, JobStates, Terminal,
    Indexing, Working, Steps

\* The chunks of a version are its ordinals, and each has the hash of its text.
LEMMA ChunkFacts ==
  ASSUME NEW v \in Versions
  PROVE  /\ \A i \in DOMAIN HashesOf[v] :
               /\ <<v, i>> \in ChunksOf(v)
               /\ HashOf(<<v, i>>) = HashesOf[v][i]
               /\ HashesOf[v][i] \in Hashes
         /\ \A c \in ChunksOf(v) : \E i \in DOMAIN HashesOf[v] : c = <<v, i>>
         /\ DOMAIN HashesOf[v] = 1..Len(HashesOf[v])
         /\ Len(HashesOf[v]) \in Nat
<1>1. HashesOf[v] \in Seq(Hashes)
  OBVIOUS
<1>2. DOMAIN HashesOf[v] = 1..Len(HashesOf[v]) /\ Len(HashesOf[v]) \in Nat
  BY <1>1
<1>3. \A i \in DOMAIN HashesOf[v] : HashesOf[v][i] \in Hashes
  BY <1>1
<1>4. \A i \in DOMAIN HashesOf[v] : <<v, i>> \in ChunksOf(v)
  BY DEF ChunksOf
<1>5. \A c \in ChunksOf(v) : \E i \in DOMAIN HashesOf[v] : c = <<v, i>>
  BY DEF ChunksOf
<1>6. \A i \in DOMAIN HashesOf[v] : HashOf(<<v, i>>) = HashesOf[v][i]
  BY DEF HashOf
<1> QED
  BY <1>2, <1>3, <1>4, <1>5, <1>6

\* The initial state: no jobs, an empty index, every function idle.
LEMMA InitHolds == Init => IInv
<1> SUFFICES ASSUME Init PROVE IInv
  OBVIOUS
<1>1. TypeOK
  BY DEF Init, TypeOK
<1>2. Ownership /\ AcceptedIsComplete /\ AttachmentsBacked
  BY DEF Init, Ownership, AcceptedIsComplete, AttachmentsBacked
<1>3. IndexProgress
  BY DEF Init, IndexProgress, Progress
<1>4. CostProgress
  <2>1. ASSUME NEW h \in Hashes
        PROVE  {v \in Versions : /\ Settled(v)
                                 /\ \E i \in DOMAIN HashesOf[v] : HashesOf[v][i] = h} = {}
    BY DEF Init, Settled
  <2> QED
    <3> SUFFICES ASSUME NEW h \in Hashes
                 PROVE  embedded[h] <= Cardinality({v \in Versions :
                            /\ Settled(v)
                            /\ \E i \in DOMAIN HashesOf[v] : HashesOf[v][i] = h})
      BY DEF CostProgress
    <3>1. embedded[h] = 0 /\ Cardinality({}) = 0
      BY FS_EmptySet DEF Init
    <3>2. 0 <= Cardinality({})
      BY <3>1
    <3> QED
      BY <2>1, <3>1, <3>2
<1> QED
  BY <1>1, <1>2, <1>3, <1>4 DEF IInv

\* Nothing is ever removed from the index, so a worker whose locals a step leaves
\* alone may rely on what it could rely on before.
LEMMA OthersProgress ==
  ASSUME IInv, NEW u \in Workers, chunks \subseteq chunks', cached \subseteq cached',
         attached \subseteq attached', pc'[u] = pc[u], held'[u] = held[u], at'[u] = at[u],
         misses'[u] = misses[u], absent'[u] = absent[u]
  PROVE  Progress(u)'
<1>1. Progress(u)
  BY DEF IInv, IndexProgress
<1>2. Covered(u) \subseteq Covered(u)'
  BY DEF Covered
<1> QED
  BY <1>1, <1>2 DEF Progress

\* A step that sends nothing keeps the bound on the cost, if no settled job
\* becomes unsettled.
LEMMA CostKeeps ==
  ASSUME IInv, embedded' = embedded, \A v \in Versions : Settled(v) => Settled(v)'
  PROVE  CostProgress'
<1> SUFFICES ASSUME NEW h \in Hashes
             PROVE  embedded[h] <= Cardinality({v \in Versions :
                        /\ Settled(v)'
                        /\ \E i \in DOMAIN HashesOf[v] : HashesOf[v][i] = h})
  BY DEF CostProgress
<1> DEFINE Paid == {v \in Versions : /\ Settled(v)
                                     /\ \E i \in DOMAIN HashesOf[v] : HashesOf[v][i] = h}
<1> DEFINE PaidNext == {v \in Versions : /\ Settled(v)'
                                         /\ \E i \in DOMAIN HashesOf[v] : HashesOf[v][i] = h}
<1>1. Paid \subseteq PaidNext
  OBVIOUS
<1>2. IsFiniteSet(PaidNext)
  BY FS_Subset
<1>3. IsFiniteSet(Paid) /\ Cardinality(Paid) <= Cardinality(PaidNext)
  BY <1>1, <1>2, FS_Subset
<1>4. embedded[h] <= Cardinality(Paid) /\ embedded[h] \in Nat
  BY DEF IInv, CostProgress, TypeOK
<1>5. Cardinality(Paid) \in Nat /\ Cardinality(PaidNext) \in Nat
  BY <1>2, <1>3, FS_CardinalityType
<1> HIDE DEF Paid, PaidNext
<1>6. embedded[h] <= Cardinality(PaidNext)
  BY <1>3, <1>4, <1>5
<1> QED
  BY <1>6 DEF PaidNext

\* The end of a turn clears the worker's locals and no other's.
LEMMA LeaveFacts ==
  ASSUME TypeOK, NEW w \in Workers, Leave(w)
  PROVE  /\ pc' \in [Workers -> Steps]
         /\ held' \in [Workers -> Versions \cup {None}]
         /\ deadline' \in [Workers -> 0..Lease]
         /\ at' \in [Workers -> Nat \ {0}]
         /\ misses' \in [Workers -> SUBSET Hashes]
         /\ absent' \in [Workers -> Hashes \cup {None}]
         /\ pc'[w] = "idle" /\ at'[w] = 1 /\ misses'[w] = {}
         /\ \A u \in Workers : u # w =>
               /\ pc'[u] = pc[u] /\ held'[u] = held[u] /\ at'[u] = at[u]
               /\ misses'[u] = misses[u] /\ absent'[u] = absent[u]
<1>1. pc' \in [Workers -> Steps] /\ held' \in [Workers -> Versions \cup {None}]
  BY DEF TypeOK, Leave
<1>2. deadline' \in [Workers -> 0..Lease] /\ at' \in [Workers -> Nat \ {0}]
  BY DEF TypeOK, Leave
<1>3. misses' \in [Workers -> SUBSET Hashes] /\ absent' \in [Workers -> Hashes \cup {None}]
  BY DEF TypeOK, Leave
<1>4. pc'[w] = "idle" /\ at'[w] = 1 /\ misses'[w] = {}
  BY DEF TypeOK, Leave
<1>5. \A u \in Workers : u # w =>
         /\ pc'[u] = pc[u] /\ held'[u] = held[u] /\ at'[u] = at[u]
         /\ misses'[u] = misses[u] /\ absent'[u] = absent[u]
  BY DEF TypeOK, Leave
<1> QED
  BY <1>1, <1>2, <1>3, <1>4, <1>5

\* A turn that ends without claiming or requeueing a job, and accepts a job only
\* when its index is whole, keeps the invariant.
LEMMA LeaveKeeps ==
  ASSUME IInv, NEW w \in Workers, Leave(w), UNCHANGED <<createdAt, token, lease, indexVars>>,
         faults' \in Nat, jobState' \in [Versions -> JobStates],
         \A v \in Versions :
            jobState'[v] \in {"absent", "queued"} <=> jobState[v] \in {"absent", "queued"},
         \A v \in Versions :
            jobState'[v] = "accepted" => jobState[v] = "accepted" \/ ChunksOf(v) \subseteq attached
  PROVE  IInv'
<1> USE DEF IInv
<1>0. /\ pc'[w] = "idle" /\ at'[w] = 1 /\ misses'[w] = {}
      /\ \A u \in Workers : u # w =>
            /\ pc'[u] = pc[u] /\ held'[u] = held[u] /\ at'[u] = at[u]
            /\ misses'[u] = misses[u] /\ absent'[u] = absent[u]
  BY LeaveFacts
<1>1. TypeOK'
  BY LeaveFacts DEF TypeOK
<1>2. Ownership'
  <2>1. \A v \in Versions : jobState'[v] \in {"absent", "queued"} <=> token'[v] = None
    BY DEF Ownership
  <2>2. \A u \in Workers :
           /\ pc'[u] = "claiming" => held'[u] \in Versions
           /\ pc'[u] \in Working => held'[u] \in Versions /\ token'[held'[u]] = u
    BY <1>0 DEF Ownership
  <2> QED
    BY <2>1, <2>2 DEF Ownership
<1>3. IndexProgress'
  <2>1. Progress(w)'
    BY <1>0 DEF Progress
  <2>2. ASSUME NEW u \in Workers, u # w PROVE Progress(u)'
    BY <1>0, <2>2, OthersProgress
  <2> QED
    BY <2>1, <2>2 DEF IndexProgress
<1>4. AcceptedIsComplete'
  BY DEF AcceptedIsComplete
<1>5. AttachmentsBacked'
  BY DEF AttachmentsBacked
<1>6. CostProgress'
  <2>1. ASSUME NEW v \in Versions, Settled(v) PROVE Settled(v)'
    BY <1>0, <2>1 DEF Settled
  <2> QED
    BY <2>1, CostKeeps
<1> QED
  BY <1>1, <1>2, <1>3, <1>4, <1>5, <1>6

\* Acknowledged or not, the worker goes on or turns to failing.
LEMMA AcknowledgedFacts ==
  ASSUME TypeOK, NEW w \in Workers, NEW step \in Steps, Acknowledged(w, step)
  PROVE  /\ pc' \in [Workers -> Steps]
         /\ faults' \in Nat
         /\ pc'[w] \in {step, "failing"}
         /\ \A u \in Workers : u # w => pc'[u] = pc[u]
<1>1. CASE Goto(w, step) /\ UNCHANGED faults
  BY <1>1 DEF TypeOK, Goto
<1>2. CASE Goto(w, "failing") /\ Fault
  BY <1>2 DEF TypeOK, Goto, Fault
<1> QED
  BY <1>1, <1>2 DEF Acknowledged

\* Time passes: only the leases change.
LEMMA TickKeeps ==
  ASSUME IInv, Tick
  PROVE  IInv'
<1> USE DEF IInv
<1>1. TypeOK'
  BY DEF Tick, Down, TypeOK, Ownership
<1>2. Ownership'
  BY DEF Tick, Down, TypeOK, Ownership
<1>3. IndexProgress'
  BY OthersProgress DEF Tick, IndexProgress
<1>4. AcceptedIsComplete'
  BY DEF Tick, Down, TypeOK, AcceptedIsComplete
<1>5. AttachmentsBacked'
  BY DEF Tick, Down, TypeOK, AttachmentsBacked
<1>6. CostProgress'
  <2>1. \A v \in Versions : Settled(v) => Settled(v)'
    BY DEF Tick, Down, TypeOK, Ownership, Settled
  <2> QED
    BY <2>1, CostKeeps DEF Tick
<1> QED
  BY <1>1, <1>2, <1>3, <1>4, <1>5, <1>6

\* A new job is queued behind the finitely many before it.
LEMMA PromoteKeeps ==
  ASSUME NEW v \in Versions, IInv, Promote(v)
  PROVE  IInv'
<1> USE DEF IInv
<1>1. TypeOK'
  <2> DEFINE stored == {u \in Versions : jobState[u] # "absent"}
  <2>1. Cardinality(stored) \in Nat
    BY FS_Subset, FS_CardinalityType
  <2> QED
    BY <2>1 DEF Promote, TypeOK
<1>2. Ownership'
  BY DEF Promote, TypeOK, Ownership
<1>3. IndexProgress'
  BY OthersProgress DEF Promote, IndexProgress
<1>4. AcceptedIsComplete'
  BY DEF Promote, TypeOK, AcceptedIsComplete
<1>5. AttachmentsBacked'
  BY DEF Promote, TypeOK, AttachmentsBacked
<1>6. CostProgress'
  <2>1. \A u \in Versions : Settled(u) => Settled(u)'
    BY DEF Promote, TypeOK, Ownership, Settled
  <2> QED
    BY <2>1, CostKeeps DEF Promote
<1> QED
  BY <1>1, <1>2, <1>3, <1>4, <1>5, <1>6

\* A turn begins with the locals the last one cleared.
LEMMA WakeKeeps ==
  ASSUME NEW w \in Workers, IInv, Wake(w)
  PROVE  IInv'
<1> USE DEF IInv
<1>1. TypeOK'
  BY DEF Wake, Goto, TypeOK, Ownership
<1>2. Ownership'
  BY DEF Wake, Goto, TypeOK, Ownership
<1>3. IndexProgress'
  <2>1. Progress(w)'
    BY ChunkFacts DEF Wake, Goto, TypeOK, Ownership, IndexProgress, Progress, Covered
  <2>2. ASSUME NEW u \in Workers, u # w PROVE Progress(u)'
    BY <2>2, OthersProgress DEF Wake, Goto, TypeOK
  <2> QED
    BY <2>1, <2>2 DEF IndexProgress
<1>4. AcceptedIsComplete'
  BY DEF Wake, Goto, TypeOK, AcceptedIsComplete
<1>5. AttachmentsBacked'
  BY DEF Wake, Goto, TypeOK, AttachmentsBacked
<1>6. CostProgress'
  <2>1. \A v \in Versions : Settled(v) => Settled(v)'
    BY DEF Wake, Goto, TypeOK, Ownership, Settled
  <2> QED
    BY <2>1, CostKeeps DEF Wake
<1> QED
  BY <1>1, <1>2, <1>3, <1>4, <1>5, <1>6

\* Only claimed jobs are failed.
LEMMA ReapKeeps ==
  ASSUME NEW w \in Workers, IInv, Reap(w)
  PROVE  IInv'
<1> USE DEF IInv
<1>1. TypeOK'
  BY DEF Reap, Goto, Expired, TypeOK, Ownership
<1>2. Ownership'
  BY DEF Reap, Goto, Expired, TypeOK, Ownership
<1>3. IndexProgress'
  <2>1. Progress(w)'
    BY ChunkFacts DEF Reap, Goto, Expired, TypeOK, Ownership, IndexProgress, Progress, Covered
  <2>2. ASSUME NEW u \in Workers, u # w PROVE Progress(u)'
    BY <2>2, OthersProgress DEF Reap, Goto, Expired, TypeOK
  <2> QED
    BY <2>1, <2>2 DEF IndexProgress
<1>4. AcceptedIsComplete'
  BY DEF Reap, Goto, Expired, TypeOK, AcceptedIsComplete
<1>5. AttachmentsBacked'
  BY DEF Reap, Goto, Expired, TypeOK, AttachmentsBacked
<1>6. CostProgress'
  <2>1. \A v \in Versions : Settled(v) => Settled(v)'
    BY DEF Reap, Goto, Expired, TypeOK, Ownership, Settled
  <2> QED
    BY <2>1, CostKeeps DEF Reap
<1> QED
  BY <1>1, <1>2, <1>3, <1>4, <1>5, <1>6

\* The candidate is a version; an idle turn ends.
LEMMA SelectKeeps ==
  ASSUME NEW w \in Workers, IInv, Select(w)
  PROVE  IInv'
<1>1. CASE Queued = {}
  BY <1>1, LeaveKeeps DEF Select, IInv, TypeOK
<1>2. CASE Queued # {}
  <2> USE <1>2 DEF IInv
  <2>0. PICK v \in Versions : held' = [held EXCEPT ![w] = v]
    BY DEF Select, Queued
  <2>1. TypeOK'
    <3>1. pc' \in [Workers -> Steps] /\ held' \in [Workers -> Versions \cup {None}]
      BY <2>0 DEF Select, Goto, TypeOK
    <3>2. deadline' \in [Workers -> 0..Lease]
      <4>1. /\ deadline \in [Workers -> 0..Lease] /\ Lease \in 0..Lease
            /\ deadline' = [deadline EXCEPT ![w] = Lease]
        BY DEF Select, TypeOK
      <4> QED
        BY <4>1
    <3> QED
      BY <3>1, <3>2 DEF Select, TypeOK
  <2>2. /\ pc'[w] = "claiming" /\ held'[w] = v
        /\ \A u \in Workers : u # w => pc'[u] = pc[u] /\ held'[u] = held[u]
    BY <2>0 DEF Select, Goto, TypeOK
  <2>3. Ownership'
    BY <2>2 DEF Select, Ownership
  <2>4. IndexProgress'
    <3>1. Progress(w)'
      BY <2>2 DEF Select, IndexProgress, Progress
    <3>2. ASSUME NEW u \in Workers, u # w PROVE Progress(u)'
      BY <2>2, <3>2, OthersProgress DEF Select
    <3> QED
      BY <3>1, <3>2 DEF IndexProgress
  <2>5. AcceptedIsComplete' /\ AttachmentsBacked'
    BY DEF Select, AcceptedIsComplete, AttachmentsBacked
  <2>6. CostProgress'
    <3>1. \A u \in Versions : Settled(u) => Settled(u)'
      BY <2>2 DEF Select, Settled
    <3> QED
      BY <3>1, CostKeeps DEF Select
  <2> QED
    BY <2>1, <2>3, <2>4, <2>5, <2>6
<1> QED
  BY <1>1, <1>2

\* The job was queued, so nobody held its token and no text of it was paid for.
LEMMA ClaimKeeps ==
  ASSUME NEW w \in Workers, IInv, Claim(w)
  PROVE  IInv'
<1>1. CASE jobState[held[w]] # "queued"
  BY <1>1, LeaveKeeps DEF Claim, IInv, TypeOK
<1>2. CASE jobState[held[w]] = "queued"
  <2> USE <1>2 DEF IInv
  <2>0. held[w] \in Versions /\ token[held[w]] = None
    BY DEF Claim, TypeOK, Ownership
  <2>1. /\ jobState'[held[w]] = "claimed" /\ token'[held[w]] = w
        /\ \A v \in Versions :
              v # held[w] => jobState'[v] = jobState[v] /\ token'[v] = token[v]
    BY <2>0 DEF Claim, StoreClaim, TypeOK
  <2>2. /\ pc'[w] = "loading"
        /\ \A u \in Workers : u # w => pc'[u] = pc[u]
        /\ held' = held
    BY DEF Claim, Goto, TypeOK
  <2>3. TypeOK'
    <3>0. /\ jobState' = [jobState EXCEPT ![held[w]] = "claimed"]
          /\ token' = [token EXCEPT ![held[w]] = w]
          /\ lease' = [lease EXCEPT ![held[w]] = deadline[w]]
          /\ deadline' = [deadline EXCEPT ![w] = 0]
          /\ pc' = [pc EXCEPT ![w] = "loading"]
      BY DEF Claim, StoreClaim, Goto
    <3>1. jobState' \in [Versions -> JobStates] /\ token' \in [Versions -> Workers \cup {None}]
      BY <3>0 DEF TypeOK
    <3>2. lease' \in [Versions -> 0..Lease] /\ deadline' \in [Workers -> 0..Lease]
      <4>1. 0 \in 0..Lease /\ deadline[w] \in 0..Lease
        BY DEF TypeOK
      <4>2. lease \in [Versions -> 0..Lease] /\ deadline \in [Workers -> 0..Lease]
        BY DEF TypeOK
      <4> QED
        BY <3>0, <4>1, <4>2
    <3>3. pc' \in [Workers -> Steps]
      BY <3>0 DEF TypeOK
    <3> QED
      BY <3>1, <3>2, <3>3 DEF Claim, StoreClaim, TypeOK
  <2>4. Ownership'
    BY <2>0, <2>1, <2>2 DEF Ownership
  <2>5. IndexProgress'
    <3>1. Progress(w)'
      BY <2>2 DEF Claim, IndexProgress, Progress
    <3>2. ASSUME NEW u \in Workers, u # w PROVE Progress(u)'
      BY <2>2, <3>2, OthersProgress DEF Claim
    <3> QED
      BY <3>1, <3>2 DEF IndexProgress
  <2>6. AcceptedIsComplete'
    BY <2>0, <2>1 DEF Claim, AcceptedIsComplete
  <2>7. AttachmentsBacked'
    BY DEF Claim, AttachmentsBacked
  <2>8. CostProgress'
    <3>1. \A v \in Versions : Settled(v) => Settled(v)'
      BY <2>0, <2>1, <2>2 DEF Settled
    <3> QED
      BY <3>1, CostKeeps DEF Claim
  <2> QED
    BY <2>3, <2>4, <2>5, <2>6, <2>7, <2>8
<1> QED
  BY <1>1, <1>2

\* The chunks are there, or are still to be made.
LEMMA LoadKeeps ==
  ASSUME NEW w \in Workers, IInv, Load(w)
  PROVE  IInv'
<1> USE DEF IInv
<1>1. TypeOK'
  <2>1. pc' \in [Workers -> Steps]
    BY DEF Load, Goto, TypeOK
  <2> QED
    BY <2>1 DEF Load, TypeOK
<1>2. Ownership'
  BY DEF Load, Goto, TypeOK, Ownership
<1>3. IndexProgress'
  <2>1. Progress(w)'
    <3>1. /\ pc'[w] \in {"looking", "chunking", "failing"}
          /\ pc'[w] = "looking" => ChunksOf(held[w]) \subseteq chunks
      BY DEF Load, Goto, TypeOK
    <3>2. held[w] \in Versions /\ at[w] = 1 /\ misses[w] = {}
      BY DEF Load, Ownership, IndexProgress, Progress
    <3>3. \A i \in DOMAIN HashesOf[held[w]] : ~(i < 1)
      BY <3>2, ChunkFacts
    <3> QED
      BY <3>1, <3>2, <3>3 DEF Load, Progress
  <2>2. ASSUME NEW u \in Workers, u # w PROVE Progress(u)'
    BY <2>2, OthersProgress DEF Load, Goto, TypeOK
  <2> QED
    BY <2>1, <2>2 DEF IndexProgress
<1>4. AcceptedIsComplete'
  BY DEF Load, Goto, TypeOK, AcceptedIsComplete
<1>5. AttachmentsBacked'
  BY DEF Load, Goto, TypeOK, AttachmentsBacked
<1>6. CostProgress'
  <2>1. \A v \in Versions : Settled(v) => Settled(v)'
    BY DEF Load, Goto, TypeOK, Ownership, Settled
  <2> QED
    BY <2>1, CostKeeps DEF Load
<1> QED
  BY <1>1, <1>2, <1>3, <1>4, <1>5, <1>6

\* All chunks of the version exist afterwards, acknowledged or not.
LEMMA CreateChunksKeeps ==
  ASSUME NEW w \in Workers, IInv, CreateChunks(w)
  PROVE  IInv'
<1> USE DEF IInv
<1>1. TypeOK'
  <2>1. chunks' \subseteq UNION {ChunksOf(v) : v \in Versions}
    BY DEF CreateChunks, TypeOK, Ownership
  <2>2. pc' \in [Workers -> Steps] /\ faults' \in Nat
    BY AcknowledgedFacts DEF CreateChunks
  <2> QED
    BY <2>1, <2>2 DEF CreateChunks, TypeOK
<1>2. Ownership'
  BY DEF CreateChunks, Acknowledged, Goto, Fault, TypeOK, Ownership
<1>3. IndexProgress'
  <2>1. Progress(w)'
    BY ChunkFacts DEF CreateChunks, Acknowledged, Goto, Fault, TypeOK, Ownership,
       IndexProgress, Progress, Covered
  <2>2. ASSUME NEW u \in Workers, u # w PROVE Progress(u)'
    BY <2>2, OthersProgress DEF CreateChunks, Acknowledged, Goto, Fault, TypeOK
  <2> QED
    BY <2>1, <2>2 DEF IndexProgress
<1>4. AcceptedIsComplete'
  BY DEF CreateChunks, Acknowledged, Goto, Fault, TypeOK, AcceptedIsComplete
<1>5. AttachmentsBacked'
  BY DEF CreateChunks, Acknowledged, Goto, Fault, TypeOK, AttachmentsBacked
<1>6. CostProgress'
  <2>1. \A v \in Versions : Settled(v) => Settled(v)'
    BY DEF CreateChunks, Acknowledged, Goto, Fault, TypeOK, Ownership, Settled
  <2> QED
    BY <2>1, CostKeeps DEF CreateChunks, Acknowledged
<1> QED
  BY <1>1, <1>2, <1>3, <1>4, <1>5, <1>6

\* One more hash is cached or noted as a miss; after the last one every hash is
\* covered.
LEMMA LookUpKeeps ==
  ASSUME NEW w \in Workers, IInv, LookUp(w)
  PROVE  IInv'
<1> USE DEF IInv
<1>1. TypeOK'
  <2>1. held[w] \in Versions
    BY DEF LookUp, Ownership
  <2>2. pc' \in [Workers -> Steps]
    <3>1. pc' = pc \/ \E step \in {"attaching", "embedding"} : pc' = [pc EXCEPT ![w] = step]
      BY DEF LookUp, Goto
    <3> QED
      BY <3>1 DEF TypeOK
  <2>4. at' \in [Workers -> Nat \ {0}]
    <3>1. 1 \in Nat \ {0} /\ at[w] + 1 \in Nat \ {0}
      BY DEF TypeOK
    <3> QED
      BY <3>1 DEF LookUp, TypeOK
  <2>3. misses' \in [Workers -> SUBSET Hashes]
    <3>1. CASE at[w] <= Len(HashesOf[held[w]])
      <4>1. HashesOf[held[w]][at[w]] \in Hashes
        BY <2>1, <3>1, ChunkFacts DEF TypeOK
      <4>2. misses[w] \cup {HashesOf[held[w]][at[w]]} \in SUBSET Hashes
        BY <4>1 DEF TypeOK
      <4> QED
        BY <3>1, <4>2 DEF LookUp, TypeOK
    <3>2. CASE ~(at[w] <= Len(HashesOf[held[w]]))
      BY <3>2 DEF LookUp, TypeOK
    <3> QED
      BY <3>1, <3>2
  <2> QED
    BY <2>2, <2>3, <2>4 DEF LookUp, TypeOK
<1>2. Ownership'
  BY DEF LookUp, Goto, TypeOK, Ownership
<1>3. IndexProgress'
  <2> DEFINE hashes == HashesOf[held[w]]
  <2>0. /\ held[w] \in Versions /\ at[w] \in Nat /\ at[w] >= 1
        /\ DOMAIN hashes = 1..Len(hashes) /\ Len(hashes) \in Nat
        /\ Progress(w)
    BY ChunkFacts DEF LookUp, TypeOK, Ownership, IndexProgress
  <2>1. ASSUME at[w] <= Len(hashes) PROVE Progress(w)'
    <3>1. /\ pc' = pc /\ at'[w] = at[w] + 1
          /\ misses'[w] = IF hashes[at[w]] \in cached THEN misses[w]
                                                     ELSE misses[w] \cup {hashes[at[w]]}
      BY <2>1 DEF LookUp, TypeOK
    <3>2. at[w] \in DOMAIN hashes /\ hashes[at[w]] \in Covered(w)'
      BY <2>0, <2>1, <3>1 DEF LookUp, Covered
    <3>3. \A i \in DOMAIN hashes : i < at'[w] => hashes[i] \in Covered(w)'
      BY <2>0, <3>1, <3>2 DEF LookUp, Progress, Covered
    <3>4. \A h \in misses'[w] : \E i \in DOMAIN hashes : hashes[i] = h
      BY <2>0, <3>1, <3>2 DEF LookUp, Progress
    <3> QED
      BY <2>0, <3>1, <3>3, <3>4 DEF LookUp, Progress
  <2>2. ASSUME ~(at[w] <= Len(hashes)) PROVE Progress(w)'
    <3>1. /\ pc'[w] = IF misses[w] = {} THEN "attaching" ELSE "embedding"
          /\ at'[w] = 1 /\ misses' = misses
      BY <2>2 DEF LookUp, Goto, TypeOK
    <3>2. \A i \in DOMAIN hashes : hashes[i] \in Covered(w)
      BY <2>0, <2>2 DEF LookUp, Progress
    <3>3. Covered(w)' = Covered(w) /\ (misses[w] = {} => Covered(w) = cached)
      BY <3>1 DEF LookUp, Covered
    <3>4. \A i \in DOMAIN hashes : ~(i < 1)
      BY <2>0
    <3> QED
      BY <2>0, <3>1, <3>2, <3>3, <3>4 DEF LookUp, Progress
  <2>3. ASSUME NEW u \in Workers, u # w PROVE Progress(u)'
    BY <2>3, OthersProgress DEF LookUp, Goto, TypeOK
  <2> QED
    BY <2>1, <2>2, <2>3 DEF IndexProgress
<1>4. AcceptedIsComplete'
  BY DEF LookUp, Goto, TypeOK, AcceptedIsComplete
<1>5. AttachmentsBacked'
  BY DEF LookUp, Goto, TypeOK, AttachmentsBacked
<1>6. CostProgress'
  <2>1. \A v \in Versions : Settled(v) => Settled(v)'
    BY DEF LookUp, Goto, TypeOK, Ownership, Settled
  <2> QED
    BY <2>1, CostKeeps DEF LookUp
<1> QED
  BY <1>1, <1>2, <1>3, <1>4, <1>5, <1>6

\* The one payment for the job: it was not settled before and is afterwards, so
\* each text of it may be counted once more.
LEMMA EmbedKeeps ==
  ASSUME NEW w \in Workers, IInv, Embed(w)
  PROVE  IInv'
<1> USE DEF IInv
<1>1. TypeOK'
  <2>1. pc' \in [Workers -> Steps]
    BY DEF Embed, Goto, TypeOK
  <2>2. embedded' \in [Hashes -> Nat]
    BY DEF Embed, TypeOK
  <2> QED
    BY <2>1, <2>2 DEF Embed, TypeOK
<1>2. Ownership'
  BY DEF Embed, Goto, TypeOK, Ownership
<1>3. IndexProgress'
  <2>1. Progress(w)'
    <3>1. /\ pc'[w] \in {"storing", "failing"} /\ pc[w] = "embedding"
          /\ UNCHANGED <<held, at, misses, absent, chunks, cached, attached>>
      BY DEF Embed, Goto, TypeOK
    <3>2. Progress(w)
      BY DEF IndexProgress
    <3> QED
      BY <3>1, <3>2 DEF Progress, Covered
  <2>2. ASSUME NEW u \in Workers, u # w PROVE Progress(u)'
    BY <2>2, OthersProgress DEF Embed, Goto, TypeOK
  <2> QED
    BY <2>1, <2>2 DEF IndexProgress
<1>4. AcceptedIsComplete'
  BY DEF Embed, Goto, TypeOK, AcceptedIsComplete
<1>5. AttachmentsBacked'
  BY DEF Embed, Goto, TypeOK, AttachmentsBacked
<1>6. CostProgress'
  <2> SUFFICES ASSUME NEW h \in Hashes
               PROVE  embedded'[h] <= Cardinality({v \in Versions :
                          /\ Settled(v)'
                          /\ \E i \in DOMAIN HashesOf[v] : HashesOf[v][i] = h})
    BY DEF CostProgress
  <2> DEFINE Paid == {v \in Versions : /\ Settled(v)
                                       /\ \E i \in DOMAIN HashesOf[v] : HashesOf[v][i] = h}
  <2> DEFINE PaidNext == {v \in Versions : /\ Settled(v)'
                                           /\ \E i \in DOMAIN HashesOf[v] : HashesOf[v][i] = h}
  <2>1. /\ held[w] \in Versions /\ token[held[w]] = w
        /\ ~Settled(held[w])
    BY DEF Embed, Ownership, Settled
  <2>2. /\ pc'[w] \in {"storing", "failing"} /\ UNCHANGED <<jobState, token, held>>
        /\ \A u \in Workers : u # w => pc'[u] = pc[u]
    BY DEF Embed, Goto, TypeOK
  <2>3. Settled(held[w])'
    <3>1. jobState[held[w]] \notin {"absent", "queued"}
      BY <2>1 DEF Ownership
    <3>2. \A u \in Workers : pc[u] \in Working /\ held[u] = held[w] => u = w
      BY <2>1 DEF Ownership
    <3> QED
      BY <2>2, <3>1, <3>2 DEF Settled
  <2>4. \A v \in Versions : Settled(v) => Settled(v)'
    BY <2>2 DEF Settled
  <2>5. IsFiniteSet(Paid) /\ IsFiniteSet(PaidNext) /\ Paid \subseteq PaidNext
    BY <2>4, FS_Subset
  <2>6. Cardinality(Paid) \in Nat /\ Cardinality(PaidNext) \in Nat
    BY <2>5, FS_CardinalityType
  <2>7. embedded[h] \in Nat /\ embedded[h] <= Cardinality(Paid)
    BY DEF TypeOK, CostProgress
  <2>8. CASE h \in misses[w]
    <3>1. held[w] \in PaidNext /\ held[w] \notin Paid
      BY <2>1, <2>3, <2>8 DEF Embed, IndexProgress, Progress
    <3>2. Paid \cup {held[w]} \subseteq PaidNext
      BY <2>5, <3>1
    <3>3. Cardinality(Paid \cup {held[w]}) = Cardinality(Paid) + 1
      BY <2>5, <3>1, FS_AddElement
    <3>4. Cardinality(Paid \cup {held[w]}) <= Cardinality(PaidNext)
      BY <2>5, <3>2, FS_Subset
    <3>5. embedded'[h] = embedded[h] + 1
      BY <2>8 DEF Embed
    <3> HIDE DEF Paid, PaidNext
    <3>6. embedded'[h] <= Cardinality(PaidNext)
      BY <2>6, <2>7, <3>3, <3>4, <3>5
    <3> QED
      BY <3>6 DEF PaidNext
  <2>9. CASE h \notin misses[w]
    <3>1. embedded'[h] = embedded[h]
      BY <2>7, <2>9 DEF Embed
    <3>2. Cardinality(Paid) <= Cardinality(PaidNext)
      BY <2>5, FS_Subset
    <3> HIDE DEF Paid, PaidNext
    <3>3. embedded'[h] <= Cardinality(PaidNext)
      BY <2>6, <2>7, <3>1, <3>2
    <3> QED
      BY <3>3 DEF PaidNext
  <2> QED
    BY <2>8, <2>9
<1> QED
  BY <1>1, <1>2, <1>3, <1>4, <1>5, <1>6

\* A miss that another worker has stored meanwhile is covered by the cache.
LEMMA FindRowKeeps ==
  ASSUME NEW w \in Workers, NEW h \in Hashes, IInv, FindRow(w, h)
  PROVE  IInv'
<1> USE DEF IInv
<1>1. TypeOK'
  <2>1. pc' \in [Workers -> Steps]
    BY DEF FindRow, Goto, TypeOK
  <2>2. misses' \in [Workers -> SUBSET Hashes]
    <3>1. misses[w] \ {h} \in SUBSET Hashes
      BY DEF TypeOK
    <3> QED
      BY <3>1 DEF FindRow, TypeOK
  <2>3. absent' \in [Workers -> Hashes \cup {None}]
    BY DEF FindRow, TypeOK
  <2> QED
    BY <2>1, <2>2, <2>3 DEF FindRow, TypeOK
<1>2. Ownership'
  BY DEF FindRow, Goto, TypeOK, Ownership
<1>3. IndexProgress'
  <2>1. Progress(w)'
    <3>1. /\ pc'[w] \in {"storing", "inserting", "failing"} /\ pc[w] = "storing"
          /\ UNCHANGED <<held, at, chunks, cached, attached>>
          /\ pc'[w] = "inserting" => absent'[w] = h
      BY DEF FindRow, Goto, TypeOK
    <3>2. Covered(w)' = Covered(w)
      BY DEF FindRow, Covered, TypeOK
    <3>3. Progress(w)
      BY DEF IndexProgress
    <3> QED
      BY <3>1, <3>2, <3>3 DEF Progress
  <2>2. ASSUME NEW u \in Workers, u # w PROVE Progress(u)'
    BY <2>2, OthersProgress DEF FindRow, Goto, TypeOK
  <2> QED
    BY <2>1, <2>2 DEF IndexProgress
<1>4. AcceptedIsComplete'
  BY DEF FindRow, Goto, TypeOK, AcceptedIsComplete
<1>5. AttachmentsBacked'
  BY DEF FindRow, Goto, TypeOK, AttachmentsBacked
<1>6. CostProgress'
  <2>1. \A v \in Versions : Settled(v) => Settled(v)'
    BY DEF FindRow, Goto, TypeOK, Ownership, Settled
  <2> QED
    BY <2>1, CostKeeps DEF FindRow
<1> QED
  BY <1>1, <1>2, <1>3, <1>4, <1>5, <1>6

\* The hash moves from the misses to the cache, or the job fails.
LEMMA InsertRowKeeps ==
  ASSUME NEW w \in Workers, IInv, InsertRow(w)
  PROVE  IInv'
<1> USE DEF IInv
<1>1. TypeOK'
  <2>1. absent[w] \in Hashes
    BY DEF InsertRow, IndexProgress, Progress
  <2>2. pc' \in [Workers -> Steps] /\ faults' \in Nat
    <3>1. CASE absent[w] \in cached
      BY <3>1 DEF InsertRow, Goto, TypeOK
    <3>2. CASE absent[w] \notin cached
      BY <3>2, AcknowledgedFacts DEF InsertRow
    <3> QED
      BY <3>1, <3>2
  <2>3. cached' \subseteq Hashes
    BY <2>1 DEF InsertRow, TypeOK
  <2>5. misses' \in [Workers -> SUBSET Hashes]
    <3>1. misses[w] \ {absent[w]} \in SUBSET Hashes
      BY DEF TypeOK
    <3> QED
      BY <3>1 DEF InsertRow, TypeOK
  <2>4. absent' \in [Workers -> Hashes \cup {None}]
    BY DEF InsertRow, TypeOK
  <2> QED
    BY <2>2, <2>3, <2>4, <2>5 DEF InsertRow, TypeOK
<1>2. Ownership'
  <2>1. pc'[w] \in {"storing", "failing"} /\ \A u \in Workers : u # w => pc'[u] = pc[u]
    BY DEF InsertRow, Acknowledged, Goto, TypeOK
  <2> QED
    BY <2>1 DEF InsertRow, Ownership
<1>3. IndexProgress'
  <2>1. Progress(w)'
    <3>1. /\ pc'[w] \in {"storing", "failing"} /\ pc[w] = "inserting"
          /\ UNCHANGED <<held, at, chunks, attached>>
      BY DEF InsertRow, Acknowledged, Goto, TypeOK
    <3>2. Covered(w) \subseteq Covered(w)'
      BY DEF InsertRow, Covered, TypeOK
    <3>3. Progress(w)
      BY DEF IndexProgress
    <3> QED
      BY <3>1, <3>2, <3>3 DEF Progress
  <2>2. ASSUME NEW u \in Workers, u # w PROVE Progress(u)'
    BY <2>2, OthersProgress DEF InsertRow, Acknowledged, Goto, Fault, TypeOK
  <2> QED
    BY <2>1, <2>2 DEF IndexProgress
<1>4. AcceptedIsComplete'
  BY DEF InsertRow, Acknowledged, Goto, Fault, TypeOK, AcceptedIsComplete
<1>5. AttachmentsBacked'
  BY DEF InsertRow, Acknowledged, Goto, Fault, TypeOK, AttachmentsBacked
<1>6. CostProgress'
  <2>1. \A v \in Versions : Settled(v) => Settled(v)'
    <3>1. pc'[w] \in {"storing", "failing"} /\ \A u \in Workers : u # w => pc'[u] = pc[u]
      BY DEF InsertRow, Acknowledged, Goto, TypeOK
    <3> QED
      BY <3>1 DEF InsertRow, Settled
  <2> QED
    BY <2>1, CostKeeps DEF InsertRow, Acknowledged
<1> QED
  BY <1>1, <1>2, <1>3, <1>4, <1>5, <1>6

\* With no misses left every hash is cached.
LEMMA StoredAllKeeps ==
  ASSUME NEW w \in Workers, IInv, StoredAll(w)
  PROVE  IInv'
<1> USE DEF IInv
<1>1. TypeOK'
  BY DEF StoredAll, Goto, TypeOK, Ownership
<1>2. Ownership'
  BY DEF StoredAll, Goto, TypeOK, Ownership
<1>3. IndexProgress'
  <2>1. Progress(w)'
    <3>1. /\ pc'[w] = "attaching" /\ pc[w] = "storing"
          /\ UNCHANGED <<held, at, chunks, cached, attached>>
      BY DEF StoredAll, Goto, TypeOK
    <3>2. Covered(w) = cached /\ held[w] \in Versions /\ Progress(w)
      BY DEF StoredAll, Covered, Ownership, IndexProgress
    <3>3. \A i \in DOMAIN HashesOf[held[w]] : ~(i < 1)
      BY <3>2, ChunkFacts
    <3> QED
      BY <3>1, <3>2, <3>3 DEF Progress
  <2>2. ASSUME NEW u \in Workers, u # w PROVE Progress(u)'
    BY <2>2, OthersProgress DEF StoredAll, Goto, TypeOK
  <2> QED
    BY <2>1, <2>2 DEF IndexProgress
<1>4. AcceptedIsComplete'
  BY DEF StoredAll, Goto, TypeOK, AcceptedIsComplete
<1>5. AttachmentsBacked'
  BY DEF StoredAll, Goto, TypeOK, AttachmentsBacked
<1>6. CostProgress'
  <2>1. \A v \in Versions : Settled(v) => Settled(v)'
    BY DEF StoredAll, Goto, TypeOK, Ownership, Settled
  <2> QED
    BY <2>1, CostKeeps DEF StoredAll
<1> QED
  BY <1>1, <1>2, <1>3, <1>4, <1>5, <1>6

\* The chunk exists and its hash is cached; one more ordinal is attached.
LEMMA AttachKeeps ==
  ASSUME NEW w \in Workers, IInv, Attach(w)
  PROVE  IInv'
<1> USE DEF IInv
<1>1. TypeOK'
  <2>1. held[w] \in Versions /\ at[w] \in DOMAIN HashesOf[held[w]]
    BY ChunkFacts DEF Attach, TypeOK, Ownership
  <2>2. <<held[w], at[w]>> \in ChunksOf(held[w])
    BY <2>1, ChunkFacts
  <2>3. <<held[w], at[w]>> \in UNION {ChunksOf(v) : v \in Versions}
    BY <2>1, <2>2
  <2>4. attached' \subseteq UNION {ChunksOf(v) : v \in Versions}
    BY <2>3 DEF Attach, TypeOK
  <2>5. pc' \in [Workers -> Steps] /\ faults' \in Nat
    BY AcknowledgedFacts DEF Attach
  <2>6. at' \in [Workers -> Nat \ {0}]
    <3>1. at[w] + 1 \in Nat \ {0}
      BY DEF TypeOK
    <3> QED
      BY <3>1 DEF Attach, TypeOK
  <2> QED
    BY <2>4, <2>5, <2>6 DEF Attach, TypeOK
<1>2. Ownership'
  BY DEF Attach, Acknowledged, Goto, Fault, TypeOK, Ownership
<1>3. IndexProgress'
  <2>1. Progress(w)'
    <3>1. /\ held[w] \in Versions /\ at[w] \in DOMAIN HashesOf[held[w]]
          /\ DOMAIN HashesOf[held[w]] \subseteq Nat
          /\ Progress(w)
      BY ChunkFacts DEF Attach, TypeOK, Ownership, IndexProgress
    <3>2. pc'[w] \in {"attaching", "failing"} /\ at'[w] = at[w] + 1
      BY DEF Attach, Acknowledged, Goto, TypeOK
    <3>3. \A i \in DOMAIN HashesOf[held[w]] : i < at'[w] => <<held[w], i>> \in attached'
      <4>1. \A i \in DOMAIN HashesOf[held[w]] : i < at[w] => <<held[w], i>> \in attached
        BY <3>1 DEF Attach, Progress
      <4>2. attached \subseteq attached' /\ <<held[w], at[w]>> \in attached'
        BY DEF Attach
      <4>3. \A i \in DOMAIN HashesOf[held[w]] : i < at'[w] => i < at[w] \/ i = at[w]
        BY <3>1, <3>2
      <4> QED
        BY <4>1, <4>2, <4>3
    <3> QED
      BY <3>1, <3>2, <3>3 DEF Attach, Progress
  <2>2. ASSUME NEW u \in Workers, u # w PROVE Progress(u)'
    BY <2>2, OthersProgress DEF Attach, Acknowledged, Goto, TypeOK
  <2> QED
    BY <2>1, <2>2 DEF IndexProgress
<1>4. AcceptedIsComplete'
  BY DEF Attach, Acknowledged, Goto, Fault, TypeOK, AcceptedIsComplete
<1>5. AttachmentsBacked'
  <2>1. held[w] \in Versions /\ at[w] \in DOMAIN HashesOf[held[w]]
    BY ChunkFacts DEF Attach, TypeOK, Ownership
  <2>2. <<held[w], at[w]>> \in chunks /\ HashOf(<<held[w], at[w]>>) \in cached
    BY <2>1, ChunkFacts DEF Attach, IndexProgress, Progress
  <2> QED
    BY <2>2 DEF Attach, AttachmentsBacked
<1>6. CostProgress'
  <2>1. \A v \in Versions : Settled(v) => Settled(v)'
    <3>1. pc'[w] \in {"attaching", "failing"} /\ \A u \in Workers : u # w => pc'[u] = pc[u]
      BY DEF Attach, Acknowledged, Goto, TypeOK
    <3> QED
      BY <3>1 DEF Attach, Settled
  <2> QED
    BY <2>1, CostKeeps DEF Attach, Acknowledged
<1> QED
  BY <1>1, <1>2, <1>3, <1>4, <1>5, <1>6

\* The loop has passed the last ordinal, so every chunk is attached.
LEMMA AttachedAllKeeps ==
  ASSUME NEW w \in Workers, IInv, AttachedAll(w)
  PROVE  IInv'
<1> USE DEF IInv
<1>1. TypeOK'
  BY DEF AttachedAll, Goto, TypeOK, Ownership
<1>2. Ownership'
  BY DEF AttachedAll, Goto, TypeOK, Ownership
<1>3. IndexProgress'
  <2>1. Progress(w)'
    BY ChunkFacts DEF AttachedAll, Goto, TypeOK, Ownership, IndexProgress, Progress, Covered
  <2>2. ASSUME NEW u \in Workers, u # w PROVE Progress(u)'
    BY <2>2, OthersProgress DEF AttachedAll, Goto, TypeOK
  <2> QED
    BY <2>1, <2>2 DEF IndexProgress
<1>4. AcceptedIsComplete'
  BY DEF AttachedAll, Goto, TypeOK, AcceptedIsComplete
<1>5. AttachmentsBacked'
  BY DEF AttachedAll, Goto, TypeOK, AttachmentsBacked
<1>6. CostProgress'
  <2>1. \A v \in Versions : Settled(v) => Settled(v)'
    BY DEF AttachedAll, Goto, TypeOK, Ownership, Settled
  <2> QED
    BY <2>1, CostKeeps DEF AttachedAll
<1> QED
  BY <1>1, <1>2, <1>3, <1>4, <1>5, <1>6

\* The job is accepted only by the worker that attached all of its chunks.
LEMMA AcceptKeeps ==
  ASSUME NEW w \in Workers, IInv, Accept(w)
  PROVE  IInv'
<1>1. pc[w] = "accepting" /\ held[w] \in Versions /\ ChunksOf(held[w]) \subseteq attached
  BY DEF Accept, IInv, Ownership, IndexProgress, Progress
<1>2. CASE Active(w)
  <2>1. jobState[held[w]] = "claimed" /\ jobState' = [jobState EXCEPT ![held[w]] = "accepted"]
    BY <1>2 DEF Accept, Active, Decide
  <2>2. /\ jobState' \in [Versions -> JobStates]
        /\ jobState'[held[w]] = "accepted"
        /\ \A v \in Versions : v # held[w] => jobState'[v] = jobState[v]
    BY <1>1, <2>1 DEF IInv, TypeOK
  <2> QED
    BY <1>1, <1>2, <2>1, <2>2, LeaveKeeps DEF Accept, Decide, IInv, TypeOK
<1>3. CASE ~Active(w)
  BY <1>3, LeaveKeeps DEF Accept, IInv, TypeOK
<1> QED
  BY <1>2, <1>3

\* The job fails or was already decided.
LEMMA FailKeeps ==
  ASSUME NEW w \in Workers, IInv, Fail(w)
  PROVE  IInv'
<1>1. held[w] \in Versions
  BY DEF Fail, IInv, Ownership
<1>2. CASE Active(w)
  <2>1. jobState[held[w]] = "claimed" /\ jobState' = [jobState EXCEPT ![held[w]] = "failed"]
    BY <1>2 DEF Fail, Active, Decide
  <2>2. /\ jobState' \in [Versions -> JobStates]
        /\ jobState'[held[w]] = "failed"
        /\ \A v \in Versions : v # held[w] => jobState'[v] = jobState[v]
    BY <1>1, <2>1 DEF IInv, TypeOK
  <2> QED
    BY <1>1, <1>2, <2>1, <2>2, LeaveKeeps DEF Fail, Decide, IInv, TypeOK
<1>3. CASE ~Active(w)
  BY <1>3, LeaveKeeps DEF Fail, IInv, TypeOK
<1> QED
  BY <1>2, <1>3

\* A turn given up before its claim or its outcome.
LEMMA TurnUnavailableKeeps ==
  ASSUME NEW w \in Workers, IInv, TurnUnavailable(w)
  PROVE  IInv'
<1>1. jobState' = jobState /\ jobState \in [Versions -> JobStates] /\ faults' \in Nat
  BY DEF TurnUnavailable, Fault, IInv, TypeOK
<1> QED
  BY <1>1, LeaveKeeps DEF TurnUnavailable

\* The claim is stored and its worker gone: the job is settled, with no text
\* paid for.
LEMMA ClaimAckLostKeeps ==
  ASSUME NEW w \in Workers, IInv, ClaimAckLost(w)
  PROVE  IInv'
<1> USE DEF IInv
<1>1. TypeOK'
  BY DEF ClaimAckLost, Fault, StoreClaim, Leave, TypeOK, Ownership
<1>2. Ownership'
  BY DEF ClaimAckLost, Fault, StoreClaim, Leave, TypeOK, Ownership
<1>3. IndexProgress'
  <2>1. Progress(w)'
    BY ChunkFacts DEF ClaimAckLost, Fault, StoreClaim, Leave, TypeOK, Ownership,
       IndexProgress, Progress, Covered
  <2>2. ASSUME NEW u \in Workers, u # w PROVE Progress(u)'
    BY <2>2, OthersProgress DEF ClaimAckLost, Fault, StoreClaim, Leave, TypeOK
  <2> QED
    BY <2>1, <2>2 DEF IndexProgress
<1>4. AcceptedIsComplete'
  BY DEF ClaimAckLost, Fault, StoreClaim, Leave, TypeOK, AcceptedIsComplete
<1>5. AttachmentsBacked'
  BY DEF ClaimAckLost, Fault, StoreClaim, Leave, TypeOK, AttachmentsBacked
<1>6. CostProgress'
  <2>1. \A v \in Versions : Settled(v) => Settled(v)'
    BY DEF ClaimAckLost, Fault, StoreClaim, Leave, TypeOK, Ownership, Settled
  <2> QED
    BY <2>1, CostKeeps DEF ClaimAckLost
<1> QED
  BY <1>1, <1>2, <1>3, <1>4, <1>5, <1>6

\* The transaction rolls back and the worker turns to failing.
LEMMA StoreUnavailableKeeps ==
  ASSUME NEW w \in Workers, IInv, StoreUnavailable(w)
  PROVE  IInv'
<1> USE DEF IInv
<1>1. TypeOK'
  BY DEF StoreUnavailable, Fault, Goto, TypeOK, Ownership
<1>2. Ownership'
  BY DEF StoreUnavailable, Fault, Goto, TypeOK, Ownership
<1>3. IndexProgress'
  <2>1. Progress(w)'
    BY ChunkFacts DEF StoreUnavailable, Fault, Goto, TypeOK, Ownership, IndexProgress,
       Progress, Covered
  <2>2. ASSUME NEW u \in Workers, u # w PROVE Progress(u)'
    BY <2>2, OthersProgress DEF StoreUnavailable, Fault, Goto, TypeOK
  <2> QED
    BY <2>1, <2>2 DEF IndexProgress
<1>4. AcceptedIsComplete'
  BY DEF StoreUnavailable, Fault, Goto, TypeOK, AcceptedIsComplete
<1>5. AttachmentsBacked'
  BY DEF StoreUnavailable, Fault, Goto, TypeOK, AttachmentsBacked
<1>6. CostProgress'
  <2>1. \A v \in Versions : Settled(v) => Settled(v)'
    BY DEF StoreUnavailable, Fault, Goto, TypeOK, Ownership, Settled
  <2> QED
    BY <2>1, CostKeeps DEF StoreUnavailable
<1> QED
  BY <1>1, <1>2, <1>3, <1>4, <1>5, <1>6

\* The job is accepted, and its worker believes it failed.
LEMMA AcceptAckLostKeeps ==
  ASSUME NEW w \in Workers, IInv, AcceptAckLost(w)
  PROVE  IInv'
<1> USE DEF IInv
<1>1. TypeOK'
  BY DEF AcceptAckLost, Active, Fault, Decide, Goto, TypeOK, Ownership
<1>2. Ownership'
  BY DEF AcceptAckLost, Active, Fault, Decide, Goto, TypeOK, Ownership
<1>3. IndexProgress'
  <2>1. Progress(w)'
    BY ChunkFacts DEF AcceptAckLost, Active, Fault, Decide, Goto, TypeOK, Ownership,
       IndexProgress, Progress, Covered
  <2>2. ASSUME NEW u \in Workers, u # w PROVE Progress(u)'
    BY <2>2, OthersProgress DEF AcceptAckLost, Active, Fault, Decide, Goto, TypeOK
  <2> QED
    BY <2>1, <2>2 DEF IndexProgress
<1>4. AcceptedIsComplete'
  BY DEF AcceptAckLost, Active, Decide, TypeOK, Ownership, IndexProgress, Progress,
     AcceptedIsComplete
<1>5. AttachmentsBacked'
  BY DEF AcceptAckLost, Active, Fault, Decide, Goto, TypeOK, AttachmentsBacked
<1>6. CostProgress'
  <2>1. \A v \in Versions : Settled(v) => Settled(v)'
    BY DEF AcceptAckLost, Active, Fault, Decide, Goto, TypeOK, Ownership, Settled
  <2> QED
    BY <2>1, CostKeeps DEF AcceptAckLost
<1> QED
  BY <1>1, <1>2, <1>3, <1>4, <1>5, <1>6

\* A killed function leaves the rows as they are.
LEMMA CrashKeeps ==
  ASSUME NEW w \in Workers, IInv, Crash(w)
  PROVE  IInv'
<1>1. jobState' = jobState /\ jobState \in [Versions -> JobStates] /\ faults' \in Nat
  BY DEF Crash, Fault, IInv, TypeOK
<1> QED
  BY <1>1, LeaveKeeps DEF Crash

\* Every step preserves the invariant: one case per action.
LEMMA NextKeeps == IInv /\ [Next]_vars => IInv'
<1> SUFFICES ASSUME IInv, [Next]_vars PROVE IInv'
  OBVIOUS
<1>1. CASE Tick
  BY <1>1, TickKeeps
<1>2. ASSUME NEW v \in Versions, Promote(v) PROVE IInv'
  BY <1>2, PromoteKeeps
<1>3. ASSUME NEW w \in Workers, WorkerStep(w) PROVE IInv'
  BY <1>3, WakeKeeps, ReapKeeps, SelectKeeps, ClaimKeeps, LoadKeeps, CreateChunksKeeps,
     LookUpKeeps, EmbedKeeps, FindRowKeeps, InsertRowKeeps, StoredAllKeeps, AttachKeeps,
     AttachedAllKeeps, AcceptKeeps, FailKeeps
  DEF WorkerStep
<1>4. ASSUME NEW w \in Workers, Failure(w) PROVE IInv'
  BY <1>4, TurnUnavailableKeeps, ClaimAckLostKeeps, StoreUnavailableKeeps, AcceptAckLostKeeps,
     CrashKeeps
  DEF Failure
<1>5. CASE UNCHANGED vars
  <2>1. TypeOK' /\ Ownership' /\ AcceptedIsComplete' /\ AttachmentsBacked'
    BY <1>5 DEF vars, IInv, TypeOK, Ownership, AcceptedIsComplete, AttachmentsBacked
  <2>2. IndexProgress'
    BY <1>5, OthersProgress DEF vars, IndexProgress
  <2>3. \A v \in Versions : Settled(v) => Settled(v)'
    BY <1>5 DEF vars, Settled
  <2>4. CostProgress'
    BY <1>5, <2>3, CostKeeps DEF vars
  <2> QED
    BY <2>1, <2>2, <2>4 DEF IInv
<1> QED
  BY <1>1, <1>2, <1>3, <1>4, <1>5 DEF Next

\* IInv holds in every reachable state, for every value of the constants.
THEOREM Invariance == Spec => []IInv
  BY InitHolds, NextKeeps, PTL DEF Spec

\* The types of the tables and of the functions' locals.
THEOREM TypeCorrectness == Spec => []TypeOK
<1>1. IInv => TypeOK
  BY DEF IInv
<1> QED
  BY <1>1, Invariance, PTL

\* accept follows a finished loop over the chunks, and what the loop attached is
\* still attached.
THEOREM CompleteIndex == Spec => []AcceptedIsComplete
<1>1. IInv => AcceptedIsComplete
  BY DEF IInv
<1> QED
  BY <1>1, Invariance, PTL

\* attach_embedding never refers to a missing chunk or to a missing cache row,
\* however the transactions of several workers interleave.
THEOREM NoDanglingAttachment == Spec => []AttachmentsBacked
<1>1. IInv => AttachmentsBacked
  BY DEF IInv
<1> QED
  BY <1>1, Invariance, PTL

\* The settled jobs are among the claimed ones, so the embedding adapter is paid
\* at most once for each text of each job ever claimed.
THEOREM CostBound == Spec => []CostBoundedByJobs
<1>1. ASSUME IInv PROVE CostBoundedByJobs
  <2> SUFFICES ASSUME NEW h \in Hashes
               PROVE  embedded[h] <= Cardinality({v \in Versions :
                          /\ jobState[v] \notin {"absent", "queued"}
                          /\ \E i \in DOMAIN HashesOf[v] : HashesOf[v][i] = h})
    BY DEF CostBoundedByJobs
  <2> DEFINE Paid == {v \in Versions : /\ Settled(v)
                                       /\ \E i \in DOMAIN HashesOf[v] : HashesOf[v][i] = h}
  <2> DEFINE Claimed == {v \in Versions :
                            /\ jobState[v] \notin {"absent", "queued"}
                            /\ \E i \in DOMAIN HashesOf[v] : HashesOf[v][i] = h}
  <2>1. Paid \subseteq Claimed
    BY DEF Settled
  <2>2. IsFiniteSet(Claimed)
    BY FS_Subset
  <2>3. IsFiniteSet(Paid) /\ Cardinality(Paid) <= Cardinality(Claimed)
    BY <2>1, <2>2, FS_Subset
  <2>4. Cardinality(Paid) \in Nat /\ Cardinality(Claimed) \in Nat
    BY <2>2, <2>3, FS_CardinalityType
  <2>5. embedded[h] \in Nat /\ embedded[h] <= Cardinality(Paid)
    BY <1>1 DEF IInv, TypeOK, CostProgress
  <2> HIDE DEF Paid, Claimed
  <2>6. embedded[h] <= Cardinality(Claimed)
    BY <2>3, <2>4, <2>5
  <2> QED
    BY <2>6 DEF Claimed
<1> QED
  BY <1>1, Invariance, PTL

\* A job is never requeued or decided twice, and the index only grows.
THEOREM OnlyForward == Spec => ForwardOnly
<1> DEFINE Forward ==
      /\ \A v \in Versions :
            /\ jobState'[v] = "queued" => jobState[v] \in {"absent", "queued"}
            /\ jobState[v] \in Terminal => jobState'[v] = jobState[v]
      /\ chunks \subseteq chunks'
      /\ cached \subseteq cached'
      /\ attached \subseteq attached'
<1>1. ASSUME IInv, UNCHANGED jobState, chunks \subseteq chunks', cached \subseteq cached',
             attached \subseteq attached'
      PROVE  Forward
  BY <1>1
<1>2. ASSUME IInv, NEW v \in Versions, Promote(v) PROVE Forward
  BY <1>2 DEF Promote, IInv, TypeOK
<1>3. ASSUME IInv, NEW w \in Workers, Reap(w) PROVE Forward
  BY <1>3 DEF Reap, Expired, IInv, TypeOK
<1>4. ASSUME IInv, NEW w \in Workers, Claim(w) \/ ClaimAckLost(w) PROVE Forward
  BY <1>4 DEF Claim, ClaimAckLost, StoreClaim, IInv, TypeOK
<1>5. ASSUME IInv, NEW w \in Workers, Accept(w) \/ AcceptAckLost(w) \/ Fail(w) PROVE Forward
  BY <1>5 DEF Accept, AcceptAckLost, Fail, Active, Decide, IInv, TypeOK
<1>6. ASSUME IInv, NEW w \in Workers, WorkerStep(w) PROVE Forward
  BY <1>1, <1>3, <1>4, <1>5, <1>6
  DEF WorkerStep, Wake, Select, Load, CreateChunks, LookUp, Embed, FindRow, InsertRow,
      StoredAll, Attach, AttachedAll
<1>7. ASSUME IInv, NEW w \in Workers, Failure(w) PROVE Forward
  BY <1>1, <1>4, <1>5, <1>7 DEF Failure, TurnUnavailable, StoreUnavailable, Crash
<1>8. IInv /\ [Next]_vars => [Forward]_vars
  BY <1>1, <1>2, <1>6, <1>7 DEF Next, vars, Tick
<1> QED
  BY <1>8, Invariance, PTL DEF Spec, ForwardOnly

-----------------------------------------------------------------------------
(* Indexing jobs are leased jobs.                                          *)

\* A step that changes neither the rows' states nor their leases is invisible.
LEMMA InvisibleStep ==
  ASSUME UNCHANGED <<jobState, token, lease>>
  PROVE  UNCHANGED Claims!vars
BY DEF Claims!vars, StageOf, OutcomeOf

\* A promotion queues the job.
LEMMA EnqueueingStep ==
  ASSUME IInv, NEW v \in Versions, Promote(v)
  PROVE  Claims!Next
<1>1. /\ jobState \in [Versions -> JobStates] /\ jobState[v] = "absent"
      /\ jobState' = [jobState EXCEPT ![v] = "queued"]
      /\ UNCHANGED <<token, lease>>
  BY DEF Promote, IInv, TypeOK
<1>2. \A u \in Versions : jobState'[u] = IF u = v THEN "queued" ELSE jobState[u]
  BY <1>1
<1>3. [u \in Versions |-> StageOf(u)'] = [[u \in Versions |-> StageOf(u)] EXCEPT ![v] = "queued"]
  BY <1>2 DEF StageOf
<1>4. [u \in Versions |-> OutcomeOf(u)'] = [u \in Versions |-> OutcomeOf(u)]
  BY <1>1, <1>2 DEF OutcomeOf
<1>5. {u \in Versions : jobState'[u] = "claimed" /\ lease'[u] > 0}
        = {u \in Versions : jobState[u] = "claimed" /\ lease[u] > 0}
  BY <1>1, <1>2
<1>6. StageOf(v) = "absent"
  BY <1>1 DEF StageOf
<1>7. Claims!Enqueue(v)
  BY <1>1, <1>3, <1>4, <1>5, <1>6 DEF Claims!Enqueue
<1> QED
  BY <1>7 DEF Claims!Next

\* Time ends leases and nothing else.
LEMMA LapsingStep ==
  ASSUME IInv, Tick
  PROVE  Claims!Next
<1> DEFINE S == {v \in Versions : lease[v] <= 1}
<1>1. lease \in [Versions -> 0..Lease] /\ lease' = [v \in Versions |-> Down(lease[v])]
      /\ UNCHANGED <<jobState, token>>
  BY DEF Tick, IInv, TypeOK
<1>2. \A v \in Versions : lease'[v] > 0 <=> (lease[v] > 0 /\ v \notin S)
  BY <1>1 DEF Down
<1>3. {v \in Versions : jobState'[v] = "claimed" /\ lease'[v] > 0}
        = {v \in Versions : jobState[v] = "claimed" /\ lease[v] > 0} \ S
  BY <1>1, <1>2
<1>4. [v \in Versions |-> StageOf(v)'] = [v \in Versions |-> StageOf(v)]
  BY <1>1 DEF StageOf
<1>5. [v \in Versions |-> OutcomeOf(v)'] = [v \in Versions |-> OutcomeOf(v)]
  BY <1>1 DEF OutcomeOf
<1>6. S \in SUBSET Versions
  OBVIOUS
<1>7. PICK T \in SUBSET Versions : T = S
  BY <1>6
<1> HIDE DEF S
<1>8. Claims!Lapse(T)
  BY <1>1, <1>3, <1>4, <1>5, <1>7 DEF Claims!Lapse
<1> QED
  BY <1>7, <1>8 DEF Claims!Next

\* The reaper ends every claim whose lease is over.
LEMMA SweepingStep ==
  ASSUME IInv, NEW w \in Workers, Reap(w)
  PROVE  Claims!Next
<1> DEFINE leased == {v \in Versions : jobState[v] = "claimed" /\ lease[v] > 0}
           over == {v \in Versions : StageOf(v) = "claimed" /\ v \notin leased}
<1>1. /\ jobState' = [v \in Versions |-> IF v \in Expired THEN "failed" ELSE jobState[v]]
      /\ UNCHANGED <<token, lease>>
      /\ lease \in [Versions -> 0..Lease]
  BY DEF Reap, IInv, TypeOK
<1>2. \A v \in Versions : v \in over <=> v \in Expired
  BY <1>1 DEF Expired, StageOf
<1>3. [v \in Versions |-> StageOf(v)'] = [v \in Versions |-> IF v \in over THEN "ended" ELSE StageOf(v)]
  BY <1>1, <1>2 DEF StageOf
<1>4. [v \in Versions |-> OutcomeOf(v)']
        = [v \in Versions |-> IF v \in over THEN "failed" ELSE OutcomeOf(v)]
  BY <1>1, <1>2 DEF OutcomeOf
<1>5. {v \in Versions : jobState'[v] = "claimed" /\ lease'[v] > 0} = leased
  BY <1>1 DEF Expired
<1>6. Claims!Sweep
  BY <1>1, <1>3, <1>4, <1>5 DEF Claims!Sweep
<1> QED
  BY <1>6 DEF Claims!Next

\* The conditional UPDATE of claim_next, acknowledged or not.
LEMMA ClaimingStep ==
  ASSUME IInv, NEW w \in Workers, held[w] \in Versions, jobState[held[w]] = "queued",
         StoreClaim(w, held[w])
  PROVE  Claims!Next
<1> DEFINE v == held[w]
           leased == {u \in Versions : jobState[u] = "claimed" /\ lease[u] > 0}
<1>1. /\ jobState \in [Versions -> JobStates] /\ token \in [Versions -> Workers \cup {None}]
      /\ lease \in [Versions -> 0..Lease]
      /\ jobState' = [jobState EXCEPT ![v] = "claimed"]
      /\ token' = [token EXCEPT ![v] = w]
      /\ lease' = [lease EXCEPT ![v] = deadline[w]]
  BY DEF StoreClaim, IInv, TypeOK
<1>2. v \in Versions /\ jobState[v] = "queued"
  OBVIOUS
<1> HIDE DEF v
<1>3. \A u \in Versions : jobState'[u] = IF u = v THEN "claimed" ELSE jobState[u]
  BY <1>1, <1>2
<1>4. \A u \in Versions : u # v => lease'[u] = lease[u]
  BY <1>1, <1>2
<1>5. [u \in Versions |-> StageOf(u)'] = [[u \in Versions |-> StageOf(u)] EXCEPT ![v] = "claimed"]
  BY <1>3 DEF StageOf
<1>6. [u \in Versions |-> OutcomeOf(u)'] = [u \in Versions |-> OutcomeOf(u)]
  BY <1>1, <1>2, <1>3 DEF OutcomeOf
<1>7. {u \in Versions : jobState'[u] = "claimed" /\ lease'[u] > 0} \in {leased, leased \cup {v}}
  <2>1. CASE lease'[v] > 0
    <3>1. {u \in Versions : jobState'[u] = "claimed" /\ lease'[u] > 0} = leased \cup {v}
      BY <1>2, <1>3, <1>4, <2>1
    <3> QED
      BY <3>1
  <2>2. CASE ~(lease'[v] > 0)
    <3>1. {u \in Versions : jobState'[u] = "claimed" /\ lease'[u] > 0} = leased
      BY <1>2, <1>3, <1>4, <2>2
    <3> QED
      BY <3>1
  <2> QED
    BY <2>1, <2>2
<1>8. StageOf(v) = "queued"
  BY <1>2 DEF StageOf
<1>9. Claims!Claim(v, w)
  BY <1>1, <1>2, <1>5, <1>6, <1>7, <1>8 DEF Claims!Claim
<1> QED
  BY <1>2, <1>9 DEF Claims!Next

\* A function decides its job while its lease runs.
LEMMA DecidingStep ==
  ASSUME IInv, NEW w \in Workers, held[w] \in Versions, Active(w), NEW s \in Terminal,
         Decide(held[w], s)
  PROVE  Claims!Next
<1> DEFINE leased == {u \in Versions : jobState[u] = "claimed" /\ lease[u] > 0}
<1>1. PICK v \in Versions : v = held[w]
  OBVIOUS
<1>2. /\ jobState \in [Versions -> JobStates] /\ jobState[v] = "claimed" /\ lease[v] > 0
      /\ jobState' = [jobState EXCEPT ![v] = s]
      /\ UNCHANGED <<token, lease>>
  BY <1>1 DEF IInv, TypeOK, Active, Decide
<1>3. \A u \in Versions : jobState'[u] = IF u = v THEN s ELSE jobState[u]
  BY <1>2
<1>4. [u \in Versions |-> StageOf(u)'] = [[u \in Versions |-> StageOf(u)] EXCEPT ![v] = "ended"]
  BY <1>3 DEF StageOf
<1>5. [u \in Versions |-> OutcomeOf(u)'] = [[u \in Versions |-> OutcomeOf(u)] EXCEPT ![v] = s]
  BY <1>3 DEF OutcomeOf
<1>6. {u \in Versions : jobState'[u] = "claimed" /\ lease'[u] > 0} = leased \ {v}
  BY <1>2, <1>3
<1>7. v \in leased
  BY <1>2
<1>8. Claims!Decide(v, s)
  BY <1>2, <1>4, <1>5, <1>6, <1>7 DEF Claims!Decide
<1> QED
  BY <1>8 DEF Claims!Next

\* Every step of indexing is a step of the leased jobs or invisible.
LEMMA StepRefines == IInv /\ [Next]_vars => [Claims!Next]_(Claims!vars)
<1> SUFFICES ASSUME IInv, [Next]_vars PROVE Claims!Next \/ UNCHANGED Claims!vars
  OBVIOUS
<1>1. ASSUME NEW w \in Workers, Claim(w) \/ ClaimAckLost(w)
      PROVE  Claims!Next \/ UNCHANGED Claims!vars
  <2>1. held[w] \in Versions
    BY <1>1 DEF Claim, ClaimAckLost, IInv, Ownership
  <2>2. CASE jobState[held[w]] = "queued"
    BY <1>1, <2>1, <2>2, ClaimingStep DEF Claim, ClaimAckLost
  <2>3. CASE jobState[held[w]] # "queued"
    BY <1>1, <2>3, InvisibleStep DEF Claim, ClaimAckLost
  <2> QED
    BY <2>2, <2>3
<1>2. ASSUME NEW w \in Workers, Accept(w) \/ AcceptAckLost(w) \/ Fail(w)
      PROVE  Claims!Next \/ UNCHANGED Claims!vars
  <2>1. held[w] \in Versions
    BY <1>2 DEF Accept, AcceptAckLost, Fail, IInv, Ownership
  <2>2. CASE Active(w)
    <3>1. PICK s \in Terminal : Decide(held[w], s)
      BY <1>2, <2>2 DEF Accept, AcceptAckLost, Fail
    <3> QED
      BY <2>1, <2>2, <3>1, DecidingStep
  <2>3. CASE ~Active(w)
    BY <1>2, <2>3, InvisibleStep DEF Accept, AcceptAckLost, Fail
  <2> QED
    BY <2>2, <2>3
<1>3. ASSUME NEW w \in Workers, WorkerStep(w)
      PROVE  Claims!Next \/ UNCHANGED Claims!vars
  BY <1>1, <1>2, <1>3, SweepingStep, InvisibleStep
  DEF WorkerStep, Wake, Select, Load, CreateChunks, LookUp, Embed, FindRow, InsertRow,
      StoredAll, Attach, AttachedAll
<1>4. ASSUME NEW w \in Workers, Failure(w)
      PROVE  Claims!Next \/ UNCHANGED Claims!vars
  BY <1>1, <1>2, <1>4, InvisibleStep DEF Failure, TurnUnavailable, StoreUnavailable, Crash
<1>5. CASE UNCHANGED vars
  BY <1>5, InvisibleStep DEF vars
<1> QED
  BY <1>3, <1>4, <1>5, LapsingStep, EnqueueingStep DEF Next

\* The indexing queue keeps the promise of leased claims, although the work done
\* under a claim is not tied to its lease (indexing_job_claims.py).
THEOREM Refinement == Spec => ImplementsLeasedJobs
<1>1. Init => Claims!Init
  BY DEF Init, Claims!Init, StageOf, OutcomeOf
<1> QED
  BY <1>1, StepRefines, Invariance, PTL DEF Spec, ImplementsLeasedJobs, Claims!Spec

=============================================================================
