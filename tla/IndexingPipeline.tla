-------------------------- MODULE IndexingPipeline --------------------------
(***************************************************************************)
(* From an accepted document version to its searchable chunks: the leased  *)
(* indexing jobs (indexing_job_claims.py), the worker turn                 *)
(* (indexing_worker.py) under the Lambda handler (lambda_workers.py), and  *)
(* IndexingService.index with its store (indexing.py).                     *)
(*                                                                         *)
(* index runs in many small transactions: chunks, cache lookups, one       *)
(* insert per new embedding, one per attachment.  Each is an action, and   *)
(* nothing in them looks at the job's lease, so other workers, the reaper  *)
(* and failures come in between.  All versions are of one project and one  *)
(* chunking and embedding configuration.  A chunk is the pair of its       *)
(* version and its ordinal; the cache row of a content hash is named by    *)
(* the hash.                                                               *)
(***************************************************************************)
EXTENDS Integers, FiniteSets, Sequences

CONSTANTS
    Versions,    \* document versions; each has at most one indexing job
    Hashes,      \* content hashes of chunk texts
    HashesOf,    \* per version: the hashes of its chunks, in order
    Workers,     \* concurrent general functions
    None,        \* SQL NULL, and the absence of a local value
    Lease,       \* INDEXING_CLAIM_DURATION_SECONDS, in ticks
    MaxFaults    \* bound on functions killed and on failed or unacknowledged calls

ASSUME ConstantsAssumption ==
    /\ IsFiniteSet(Versions)
    /\ HashesOf \in [Versions -> Seq(Hashes)]
    /\ Lease \in Nat \ {0}
    /\ MaxFaults \in Nat
    /\ None \notin Versions \cup Hashes \cup Workers

VARIABLES
    jobState,   \* indexing_jobs.state, "absent" before the insert
    createdAt,  \* position of the job in created_at order
    token,      \* indexing_jobs.claim_token, named by the worker that drew it
    lease,      \* ticks left until indexing_jobs.claim_expires_at
    chunks,     \* document_chunks
    cached,     \* embedding_cache
    attached,   \* document_chunk_embeddings
    embedded,   \* per hash: texts paid for at the embedding adapter
    pc,         \* per worker: the next step of the turn
    held,       \* per worker: the candidate, then the claimed job's version
    deadline,   \* per worker: ticks left of the lease it is about to store
    at,         \* per worker: the chunk its loop has reached
    misses,     \* per worker: hashes to embed, then those still to store
    absent,     \* per worker: the hash whose row create_embedding did not find
    faults

jobVars == <<jobState, createdAt, token, lease>>
indexVars == <<chunks, cached, attached, embedded>>
loopVars == <<at, misses, absent>>
turnVars == <<pc, held, deadline, loopVars>>
vars == <<jobVars, indexVars, turnVars, faults>>

JobStates == {"absent", "queued", "claimed", "accepted", "failed"}
Terminal == {"accepted", "failed"}
Indexing == {"loading", "chunking", "looking", "embedding", "storing", "inserting", "attaching"}
Working == Indexing \cup {"accepting", "failing"}
Steps == {"idle", "reaping", "selecting", "claiming"} \cup Working

ChunksOf(v) == {v} \X DOMAIN HashesOf[v]
HashOf(c) == HashesOf[c[1]][c[2]]

Init ==
    /\ jobState = [v \in Versions |-> "absent"]
    /\ createdAt = [v \in Versions |-> 0]
    /\ token = [v \in Versions |-> None]
    /\ lease = [v \in Versions |-> 0]
    /\ chunks = {}
    /\ cached = {}
    /\ attached = {}
    /\ embedded = [h \in Hashes |-> 0]
    /\ pc = [w \in Workers |-> "idle"]
    /\ held = [w \in Workers |-> None]
    /\ deadline = [w \in Workers |-> 0]
    /\ at = [w \in Workers |-> 1]
    /\ misses = [w \in Workers |-> {}]
    /\ absent = [w \in Workers |-> None]
    /\ faults = 0

Down(n) == IF n = 0 THEN 0 ELSE n - 1

Tick ==
    /\ lease' = [v \in Versions |-> Down(lease[v])]
    /\ deadline' = [w \in Workers |-> Down(deadline[w])]
    /\ UNCHANGED <<jobState, createdAt, token, indexVars, pc, held, loopVars, faults>>

Fault ==
    /\ faults < MaxFaults
    /\ faults' = faults + 1

\* promote inserts the job with the evidence it publishes.
Promote(v) ==
    /\ jobState[v] = "absent"
    /\ jobState' = [jobState EXCEPT ![v] = "queued"]
    /\ createdAt' = [createdAt EXCEPT ![v] = Cardinality({u \in Versions : jobState[u] # "absent"})]
    /\ UNCHANGED <<token, lease, indexVars, turnVars, faults>>

-----------------------------------------------------------------------------
(* The handler and the claim.                                              *)

Goto(w, step) == pc' = [pc EXCEPT ![w] = step]

\* The turn is over; its local state is gone.
Leave(w) ==
    /\ pc' = [pc EXCEPT ![w] = "idle"]
    /\ held' = [held EXCEPT ![w] = None]
    /\ deadline' = [deadline EXCEPT ![w] = 0]
    /\ at' = [at EXCEPT ![w] = 1]
    /\ misses' = [misses EXCEPT ![w] = {}]
    /\ absent' = [absent EXCEPT ![w] = None]

\* A wake-up arrives.  notify_if_parsed_unindexed sends one whenever a parsed
\* document is listed, indexed or not, so any number of them may come.
Wake(w) ==
    /\ pc[w] = "idle"
    /\ Goto(w, "reaping")
    /\ UNCHANGED <<jobVars, indexVars, held, deadline, loopVars, faults>>

Expired == {v \in Versions : jobState[v] = "claimed" /\ lease[v] = 0}

Reap_Requeue(w) ==
    /\ pc[w] = "reaping"
    /\ jobState' = [v \in Versions |-> IF v \in Expired THEN "queued" ELSE jobState[v]]
    /\ Goto(w, "selecting")
    /\ UNCHANGED <<createdAt, token, lease, indexVars, held, deadline, loopVars, faults>>

Reap_Forgotten(w) ==
    /\ pc[w] = "reaping"
    /\ Goto(w, "selecting")
    /\ UNCHANGED <<jobVars, indexVars, held, deadline, loopVars, faults>>

\* expire_claims, before every turn.
Reap(w) ==
    /\ pc[w] = "reaping"
    /\ jobState' = [v \in Versions |-> IF v \in Expired THEN "failed" ELSE jobState[v]]
    /\ Goto(w, "selecting")
    /\ UNCHANGED <<createdAt, token, lease, indexVars, held, deadline, loopVars, faults>>

Queued == {v \in Versions : jobState[v] = "queued"}

\* claim_next's subquery; with nothing queued the turn is idle.
Select(w) ==
    /\ pc[w] = "selecting"
    /\ IF Queued = {}
       THEN Leave(w)
       ELSE /\ \E v \in Queued :
                  /\ \A u \in Queued : createdAt[v] <= createdAt[u]
                  /\ held' = [held EXCEPT ![w] = v]
            /\ deadline' = [deadline EXCEPT ![w] = Lease]
            /\ Goto(w, "claiming")
            /\ UNCHANGED loopVars
    /\ UNCHANGED <<jobVars, indexVars, faults>>

StoreClaim(w, v) ==
    /\ jobState' = [jobState EXCEPT ![v] = "claimed"]
    /\ token' = [token EXCEPT ![v] = w]
    /\ lease' = [lease EXCEPT ![v] = deadline[w]]
    /\ UNCHANGED createdAt

\* The conditional UPDATE; a caller that lost the race has an idle turn.
Claim(w) ==
    /\ pc[w] = "claiming"
    /\ IF jobState[held[w]] = "queued"
       THEN /\ StoreClaim(w, held[w])
            /\ deadline' = [deadline EXCEPT ![w] = 0]
            /\ Goto(w, "loading")
            /\ UNCHANGED <<held, loopVars>>
       ELSE Leave(w) /\ UNCHANGED jobVars
    /\ UNCHANGED <<indexVars, faults>>

\* The claim is stored but its acknowledgement is lost: claim_next raises.
ClaimAckLost(w) ==
    /\ pc[w] = "claiming"
    /\ jobState[held[w]] = "queued"
    /\ Fault
    /\ StoreClaim(w, held[w])
    /\ Leave(w)
    /\ UNCHANGED indexVars

\* The database is unavailable before a claim, or while the failure is being
\* recorded: the exception ends the turn.
TurnUnavailable(w) ==
    /\ pc[w] \in {"reaping", "selecting", "claiming", "failing"}
    /\ Fault
    /\ Leave(w)
    /\ UNCHANGED <<jobVars, indexVars>>

-----------------------------------------------------------------------------
(* IndexingService.index.                                                  *)

\* A transaction has committed.  Its acknowledgement arrives, or it is lost and
\* the worker turns to failing the job.
Acknowledged(w, step) ==
    \/ Goto(w, step) /\ UNCHANGED faults
    \/ Goto(w, "failing") /\ Fault

\* The sections are read and validated, and the version's chunks are looked up.
Load(w) ==
    /\ pc[w] = "loading"
    /\ \E step \in {IF ChunksOf(held[w]) \subseteq chunks THEN "looking" ELSE "chunking", "failing"} :
          Goto(w, step)
    /\ UNCHANGED <<jobVars, indexVars, held, deadline, loopVars, faults>>

CreateChunks_Partial(w) ==
    /\ pc[w] = "chunking"
    /\ \E some \in SUBSET ChunksOf(held[w]) : chunks' = chunks \cup some
    /\ Acknowledged(w, "looking")
    /\ UNCHANGED <<jobVars, cached, attached, embedded, held, deadline, loopVars>>

\* create_chunks: all of the version's chunks in one transaction.
CreateChunks(w) ==
    /\ pc[w] = "chunking"
    /\ chunks' = chunks \cup ChunksOf(held[w])
    /\ Acknowledged(w, "looking")
    /\ UNCHANGED <<jobVars, cached, attached, embedded, held, deadline, loopVars>>

\* cached_embedding for the next chunk; after the last one the misses, each hash
\* once, go to the adapter.
LookUp(w) ==
    /\ pc[w] = "looking"
    /\ IF at[w] <= Len(HashesOf[held[w]])
       THEN LET h == HashesOf[held[w]][at[w]] IN
            /\ misses' = [misses EXCEPT ![w] = IF h \in cached THEN @ ELSE @ \cup {h}]
            /\ at' = [at EXCEPT ![w] = @ + 1]
            /\ UNCHANGED pc
       ELSE /\ at' = [at EXCEPT ![w] = 1]
            /\ Goto(w, IF misses[w] = {} THEN "attaching" ELSE "embedding")
            /\ UNCHANGED misses
    /\ UNCHANGED <<jobVars, indexVars, held, deadline, absent, faults>>

\* One call of the embedding adapter for all misses.  It may raise, or return
\* the wrong number of vectors.
Embed(w) ==
    /\ pc[w] = "embedding"
    /\ embedded' = [h \in Hashes |-> embedded[h] + (IF h \in misses[w] THEN 1 ELSE 0)]
    /\ \E step \in {"storing", "failing"} : Goto(w, step)
    /\ UNCHANGED <<jobVars, chunks, cached, attached, held, deadline, loopVars, faults>>

\* create_embedding for a miss: the vector is validated, then the row is looked
\* for again inside the transaction.
FindRow(w, h) ==
    /\ pc[w] = "storing"
    /\ h \in misses[w]
    /\ \/ /\ h \in cached
          /\ misses' = [misses EXCEPT ![w] = @ \ {h}]
          /\ UNCHANGED <<pc, absent>>
       \/ /\ h \notin cached
          /\ absent' = [absent EXCEPT ![w] = h]
          /\ Goto(w, "inserting")
          /\ UNCHANGED misses
       \/ Goto(w, "failing") /\ UNCHANGED <<misses, absent>>
    /\ UNCHANGED <<jobVars, indexVars, held, deadline, at, faults>>

\* The insert.  A row that another worker has committed meanwhile violates the
\* unique constraint and the whole job fails.
InsertRow(w) ==
    /\ pc[w] = "inserting"
    /\ absent' = [absent EXCEPT ![w] = None]
    /\ IF absent[w] \in cached
       THEN Goto(w, "failing") /\ UNCHANGED <<cached, misses, faults>>
       ELSE /\ cached' = cached \cup {absent[w]}
            /\ misses' = [misses EXCEPT ![w] = @ \ {absent[w]}]
            /\ Acknowledged(w, "storing")
    /\ UNCHANGED <<jobVars, chunks, attached, embedded, held, deadline, at>>

StoredAll(w) ==
    /\ pc[w] = "storing"
    /\ misses[w] = {}
    /\ Goto(w, "attaching")
    /\ UNCHANGED <<jobVars, indexVars, held, deadline, loopVars, faults>>

\* attach_embedding for the next chunk.
Attach(w) ==
    /\ pc[w] = "attaching"
    /\ at[w] <= Len(HashesOf[held[w]])
    /\ attached' = attached \cup {<<held[w], at[w]>>}
    /\ at' = [at EXCEPT ![w] = @ + 1]
    /\ Acknowledged(w, "attaching")
    /\ UNCHANGED <<jobVars, chunks, cached, embedded, held, deadline, misses, absent>>

AttachedAll_Early(w) ==
    /\ pc[w] = "attaching"
    /\ at[w] >= Len(HashesOf[held[w]])
    /\ Goto(w, "accepting")
    /\ UNCHANGED <<jobVars, indexVars, held, deadline, loopVars, faults>>

AttachedAll(w) ==
    /\ pc[w] = "attaching"
    /\ at[w] > Len(HashesOf[held[w]])
    /\ Goto(w, "accepting")
    /\ UNCHANGED <<jobVars, indexVars, held, deadline, loopVars, faults>>

\* A transaction of index or of accept fails and rolls back: the worker turns to
\* failing the job.
StoreUnavailable(w) ==
    /\ pc[w] \in (Indexing \ {"embedding"}) \cup {"accepting"}
    /\ Fault
    /\ Goto(w, "failing")
    /\ UNCHANGED <<jobVars, indexVars, held, deadline, loopVars>>

-----------------------------------------------------------------------------
(* IndexingWorker's end of the turn.                                       *)

\* _finish's WHERE clause.
Active(w) ==
    /\ jobState[held[w]] = "claimed"
    /\ token[held[w]] = w
    /\ lease[held[w]] > 0

Decide(v, state) ==
    /\ jobState' = [jobState EXCEPT ![v] = state]
    /\ UNCHANGED <<createdAt, token, lease>>

\* accept; a claim that is no longer active is not published.
Accept(w) ==
    /\ pc[w] = "accepting"
    /\ IF Active(w) THEN Decide(held[w], "accepted") ELSE UNCHANGED jobVars
    /\ Leave(w)
    /\ UNCHANGED <<indexVars, faults>>

\* The acceptance commits and its acknowledgement is lost.
AcceptAckLost(w) ==
    /\ pc[w] = "accepting"
    /\ Active(w)
    /\ Fault
    /\ Decide(held[w], "accepted")
    /\ Goto(w, "failing")
    /\ UNCHANGED <<indexVars, held, deadline, loopVars>>

Fail_Unconditional(w) ==
    /\ pc[w] = "failing"
    /\ Decide(held[w], "failed")
    /\ Leave(w)
    /\ UNCHANGED <<indexVars, faults>>

\* _terminalize.
Fail(w) ==
    /\ pc[w] = "failing"
    /\ IF Active(w) THEN Decide(held[w], "failed") ELSE UNCHANGED jobVars
    /\ Leave(w)
    /\ UNCHANGED <<indexVars, faults>>

Crash(w) ==
    /\ pc[w] # "idle"
    /\ Fault
    /\ Leave(w)
    /\ UNCHANGED <<jobVars, indexVars>>

-----------------------------------------------------------------------------

WorkerStep(w) ==
    \/ Wake(w)
    \/ Reap(w)
    \/ Select(w)
    \/ Claim(w)
    \/ Load(w)
    \/ CreateChunks(w)
    \/ LookUp(w)
    \/ Embed(w)
    \/ \E h \in Hashes : FindRow(w, h)
    \/ InsertRow(w)
    \/ StoredAll(w)
    \/ Attach(w)
    \/ AttachedAll(w)
    \/ Accept(w)
    \/ Fail(w)

Failure(w) ==
    \/ TurnUnavailable(w)
    \/ ClaimAckLost(w)
    \/ StoreUnavailable(w)
    \/ AcceptAckLost(w)
    \/ Crash(w)

Next ==
    \/ Tick
    \/ \E v \in Versions : Promote(v)
    \/ \E w \in Workers : WorkerStep(w) \/ Failure(w)

Spec == Init /\ [][Next]_vars

\* Time passes, wake-ups keep coming as long as the owner reads the list, and a
\* running function runs on.  Promotions and failures owe nothing.
Fairness ==
    /\ WF_vars(Tick)
    /\ \A w \in Workers : WF_vars(WorkerStep(w))

FairSpec == Spec /\ Fairness

-----------------------------------------------------------------------------
(* Properties.                                                             *)

\* Every variable holds a value the tables and the locals can hold.
TypeOK ==
    /\ jobState \in [Versions -> JobStates]
    /\ createdAt \in [Versions -> Nat]
    /\ token \in [Versions -> Workers \cup {None}]
    /\ lease \in [Versions -> 0..Lease]
    /\ chunks \subseteq UNION {ChunksOf(v) : v \in Versions}
    /\ cached \subseteq Hashes
    /\ attached \subseteq UNION {ChunksOf(v) : v \in Versions}
    /\ embedded \in [Hashes -> Nat]
    /\ pc \in [Workers -> Steps]
    /\ held \in [Workers -> Versions \cup {None}]
    /\ deadline \in [Workers -> 0..Lease]
    /\ at \in [Workers -> Nat \ {0}]
    /\ misses \in [Workers -> SUBSET Hashes]
    /\ absent \in [Workers -> Hashes \cup {None}]
    /\ faults \in Nat

\* An accepted job's index is whole: every chunk exists and has its embedding,
\* although none of the transactions that built it knew of the job.
AcceptedIsComplete ==
    \A v \in Versions : jobState[v] = "accepted" => ChunksOf(v) \subseteq attached

\* What is attached is there: the chunk, and the cached vector of its hash,
\* however far a failed or late turn got.
AttachmentsBacked ==
    \A c \in attached : c \in chunks /\ HashOf(c) \in cached

\* A text is paid for at most once per job that contains it: nothing is retried,
\* after whatever failure, and a hash repeated in one document is sent once.
CostBoundedByJobs ==
    \A h \in Hashes :
        embedded[h] <= Cardinality({v \in Versions :
                           /\ jobState[v] \notin {"absent", "queued"}
                           /\ \E i \in DOMAIN HashesOf[v] : HashesOf[v][i] = h})

\* A job moves forward only, and what has been indexed stays.
ForwardOnly ==
    [][/\ \A v \in Versions :
             /\ jobState'[v] = "queued" => jobState[v] \in {"absent", "queued"}
             /\ jobState[v] \in Terminal => jobState'[v] = jobState[v]
       /\ chunks \subseteq chunks'
       /\ cached \subseteq cached'
       /\ attached \subseteq attached']_vars

\* Whatever fails, every job ends: unlike the parser's, these wake-ups come as
\* long as any document is parsed, so the reaper reaches every stranded claim.  A
\* job never goes back, so this says that each job inserted leads to its end.
JobsEnd == []<>(\A v \in Versions : jobState[v] \in {"absent"} \cup Terminal)

-----------------------------------------------------------------------------
(* What the claims of indexing_jobs promise: LeasedJobs.                   *)

StageOf(v) == IF jobState[v] \in Terminal THEN "ended" ELSE jobState[v]

OutcomeOf(v) == IF jobState[v] \in Terminal THEN jobState[v] ELSE None

Claims == INSTANCE LeasedJobs WITH
    Jobs      <- Versions,
    Holders   <- Workers,
    Decisions <- Terminal,
    Lost      <- "failed",
    stage     <- [v \in Versions |-> StageOf(v)],
    holder    <- token,
    leased    <- {v \in Versions : jobState[v] = "claimed" /\ lease[v] > 0},
    outcome   <- [v \in Versions |-> OutcomeOf(v)]

\* Indexing jobs are leased jobs: although index runs on without looking at its
\* lease, a late function changes nothing about the job it had claimed, which
\* ends once, within its lease or by the reaper (indexing_job_claims.py).
ImplementsLeasedJobs == Claims!Spec

-----------------------------------------------------------------------------
(* The inductive invariant.                                                *)

\* A function past its claim works under a token that only it holds, on a job
\* that can never be claimed again.
Ownership ==
    /\ \A v \in Versions : jobState[v] \in {"absent", "queued"} <=> token[v] = None
    /\ \A w \in Workers : pc[w] = "claiming" => held[w] \in Versions
    /\ \A w \in Workers : pc[w] \in Working => held[w] \in Versions /\ token[held[w]] = w

\* Hashes the worker has or will have an embedding for.
Covered(w) == cached \cup misses[w]

\* What each step of index may rely on.
Progress(w) ==
    /\ pc[w] \in {"idle", "reaping", "selecting", "claiming", "loading", "chunking"} =>
          at[w] = 1 /\ misses[w] = {}
    /\ pc[w] \in {"looking", "embedding", "storing", "inserting", "attaching", "accepting"} =>
          ChunksOf(held[w]) \subseteq chunks
    /\ pc[w] = "looking" =>
          \A i \in DOMAIN HashesOf[held[w]] : i < at[w] => HashesOf[held[w]][i] \in Covered(w)
    /\ pc[w] \in {"looking", "embedding"} =>
          \A h \in misses[w] : \E i \in DOMAIN HashesOf[held[w]] : HashesOf[held[w]][i] = h
    /\ pc[w] \in {"embedding", "storing", "inserting"} =>
          /\ at[w] = 1
          /\ \A i \in DOMAIN HashesOf[held[w]] : HashesOf[held[w]][i] \in Covered(w)
    /\ pc[w] = "inserting" => absent[w] \in Hashes
    /\ pc[w] = "attaching" =>
          /\ \A i \in DOMAIN HashesOf[held[w]] : HashesOf[held[w]][i] \in cached
          /\ \A i \in DOMAIN HashesOf[held[w]] : i < at[w] => <<held[w], i>> \in attached
    /\ pc[w] = "accepting" => ChunksOf(held[w]) \subseteq attached

IndexProgress == \A w \in Workers : Progress(w)

\* A claimed job whose texts have been sent, or never will be.
Settled(v) ==
    /\ jobState[v] \notin {"absent", "queued"}
    /\ ~\E w \in Workers :
           pc[w] \in {"loading", "chunking", "looking", "embedding"} /\ held[w] = v

\* A text is paid for at most once per settled job that contains it: the job a
\* worker is still to embed is not among them.
CostProgress ==
    \A h \in Hashes :
        embedded[h] <= Cardinality({v \in Versions :
                           /\ Settled(v)
                           /\ \E i \in DOMAIN HashesOf[v] : HashesOf[v][i] = h})

IInv ==
    /\ TypeOK
    /\ Ownership
    /\ IndexProgress
    /\ AcceptedIsComplete
    /\ AttachmentsBacked
    /\ CostProgress

-----------------------------------------------------------------------------
(* What the documents say and the code does not do.                        *)

\* PROJECT_STATUS.md: "Altered, expired, stale, competing, or terminal claims
\* cannot publish or replay indexing work".
ExpiredClaimsPublishNothing ==
    [][\A c \in (chunks' \ chunks) \cup (attached' \ attached) :
          jobState[c[1]] = "claimed" /\ lease[c[1]] > 0]_vars

=============================================================================
