--------------------------- MODULE DocumentIntake ---------------------------
(***************************************************************************)
(* Document intake for one project: DocumentIntakeService.receive and the  *)
(* repository, quarantine storage and parser queue it calls                *)
(* (ingestion.py, s3_quarantine.py, parser_queue.py).                      *)
(*                                                                         *)
(* receive reads the hash index, the usage, the storage and the database   *)
(* one after the other, each in a transaction or call of its own, so each  *)
(* is an action here and concurrent uploads interleave between them.  An   *)
(* intake, its version and its object are named by the generated key; a    *)
(* document is named by the key of its first version.                      *)
(***************************************************************************)
EXTENDS Integers, FiniteSets

CONSTANTS
    Requests,   \* upload requests served at once
    MaxKeys,    \* bound on identifiers in use at once
    Names,      \* file names (with their document type)
    Contents,   \* byte strings, equal when their sha256 is
    Malformed,  \* contents whose headers, signature or encoding do not pass
    SizeOf(_),  \* byte size of a content
    MaxRaw,     \* min(type limit, UploadPolicy.max_raw_bytes)
    MaxFiles,   \* UploadPolicy.max_files_per_project
    MaxBytes,   \* UploadPolicy.max_total_bytes_per_project
    Nil,
    MaxIntakeFaults  \* bound on crashes and on failed or unacknowledged calls

ASSUME IntakeAssumption ==
    /\ IsFiniteSet(Requests) /\ Requests # {}
    /\ Malformed \subseteq Contents
    /\ \A c \in Contents : SizeOf(c) \in Nat
    /\ {MaxKeys, MaxRaw, MaxFiles, MaxBytes, MaxIntakeFaults} \subseteq Nat
    /\ Nil \notin Requests \cup Names \cup Contents \cup Nat

VARIABLES
    content,    \* document_intakes.content_sha256 of a quarantined intake
    document,   \* document_versions.document_id
    version,    \* document_versions.version_number
    name,       \* documents.display_name (with document_type)
    born,       \* position of the intake in created_at order
    pending,    \* whether the quarantine-pending parser version exists
    jobs,       \* intakes that have a parser job
    objects,    \* keys that hold a quarantine object
    stage,      \* per request: the next step of receive
    upload,     \* per request: the content being received
    filename,   \* per request: its name
    key,        \* per request: the generated key, then the intake to enqueue
    draft,      \* per request: what create_quarantined read
    intakeFaults,
    lostAcks    \* intakes committed without the API learning of it

tables == <<content, document, version, name, born, pending>>
locals == <<upload, filename, key, draft>>
intakeVars == <<tables, jobs, objects, stage, locals, intakeFaults, lostAcks>>

Keys == 1..MaxKeys

RequestSteps == {"idle", "rejecting", "finding", "counting", "putting", "creating", "committing",
                 "deleting", "enqueueing"}

Quarantined == {k \in Keys : content[k] # Nil}

\* The bytes of a content, each named by its owner and its offset.
BytesOf(owner, c) == {owner} \X (1..SizeOf(c))

\* project_usage: the sizes of the quarantined intakes add up to the number of
\* their bytes.
StoredBytes == UNION {BytesOf(k, content[k]) : k \in Quarantined}
UsedBytes == Cardinality(StoredBytes)

NoDraft == [document |-> Nil, version |-> 0, newPending |-> FALSE]

IntakeInit ==
    /\ content = [k \in Keys |-> Nil]
    /\ document = [k \in Keys |-> Nil]
    /\ version = [k \in Keys |-> 0]
    /\ name = [k \in Keys |-> Nil]
    /\ born = [k \in Keys |-> 0]
    /\ pending = FALSE
    /\ jobs = {}
    /\ objects = {}
    /\ stage = [r \in Requests |-> "idle"]
    /\ upload = [r \in Requests |-> Nil]
    /\ filename = [r \in Requests |-> Nil]
    /\ key = [r \in Requests |-> Nil]
    /\ draft = [r \in Requests |-> NoDraft]
    /\ intakeFaults = 0
    /\ lostAcks = 0

Proceed(r, step) == stage' = [stage EXCEPT ![r] = step]

IntakeFault ==
    /\ intakeFaults < MaxIntakeFaults
    /\ intakeFaults' = intakeFaults + 1

\* The response is sent and the request's local state is gone.
Respond(r) ==
    /\ stage' = [stage EXCEPT ![r] = "idle"]
    /\ upload' = [upload EXCEPT ![r] = Nil]
    /\ filename' = [filename EXCEPT ![r] = Nil]
    /\ key' = [key EXCEPT ![r] = Nil]
    /\ draft' = [draft EXCEPT ![r] = NoDraft]

-----------------------------------------------------------------------------

\* The checks that precede any shared state: metadata, type, size while the
\* stream is read, encoding and signature.
Admissible(c) == c \notin Malformed /\ SizeOf(c) <= MaxRaw

Receive(r, n, c) ==
    /\ stage[r] = "idle"
    /\ upload' = [upload EXCEPT ![r] = c]
    /\ filename' = [filename EXCEPT ![r] = n]
    /\ Proceed(r, IF Admissible(c) THEN "finding" ELSE "rejecting")
    /\ UNCHANGED <<tables, jobs, objects, key, draft, intakeFaults, lostAcks>>

\* record_rejection stores a sanitized row that nothing else reads.
RecordRejection(r) ==
    /\ stage[r] = "rejecting"
    /\ Respond(r)
    /\ UNCHANGED <<tables, jobs, objects, intakeFaults, lostAcks>>

SameContent(c) == {k \in Quarantined : content[k] = c}

FindHash_NoEnqueue(r) ==
    /\ stage[r] = "finding"
    /\ IF SameContent(upload[r]) = {}
       THEN Proceed(r, "counting") /\ UNCHANGED locals
       ELSE Respond(r)
    /\ UNCHANGED <<tables, jobs, objects, intakeFaults, lostAcks>>

\* find_quarantined_hash: the oldest intake with the same digest is returned,
\* after making sure that its parser job exists.
FindHash(r) ==
    LET existing == SameContent(upload[r]) IN
    /\ stage[r] = "finding"
    /\ IF existing = {}
       THEN Proceed(r, "counting") /\ UNCHANGED key
       ELSE /\ \E k \in existing :
                  /\ \A l \in existing : born[k] <= born[l]
                  /\ key' = [key EXCEPT ![r] = k]
            /\ Proceed(r, "enqueueing")
    /\ UNCHANGED <<tables, jobs, objects, upload, filename, draft, intakeFaults, lostAcks>>

HasRoom_NotYetOver(c) ==
    /\ Cardinality(Quarantined) <= MaxFiles
    /\ UsedBytes <= MaxBytes

\* The project's limits, against what is committed now.
HasRoom(c) ==
    /\ Cardinality(Quarantined) < MaxFiles
    /\ UsedBytes + SizeOf(c) <= MaxBytes

CountUsage(r) ==
    /\ stage[r] = "counting"
    /\ Proceed(r, IF HasRoom(upload[r]) THEN "putting" ELSE "rejecting")
    /\ UNCHANGED <<tables, jobs, objects, locals, intakeFaults, lostAcks>>

\* Identifiers that nothing refers to.  They are only compared for equality, so
\* it does not matter which of them id_factory returns.
FreshKeys == Keys \ (Quarantined \cup objects \cup {key[r] : r \in Requests})
FreshKey(k) == k \in FreshKeys /\ \A l \in FreshKeys : k <= l

\* storage.put under a fresh key.
Put(r) ==
    /\ stage[r] = "putting"
    /\ \E k \in Keys :
          /\ FreshKey(k)
          /\ key' = [key EXCEPT ![r] = k]
          /\ objects' = objects \cup {k}
    /\ Proceed(r, "creating")
    /\ UNCHANGED <<tables, jobs, upload, filename, draft, intakeFaults, lostAcks>>

\* put raises; the object may have been written all the same.
PutFails(r) ==
    /\ stage[r] = "putting"
    /\ IntakeFault
    /\ \E k \in Keys :
          /\ FreshKey(k)
          /\ key' = [key EXCEPT ![r] = k]
          /\ objects' \in {objects, objects \cup {k}}
    /\ Proceed(r, "deleting")
    /\ UNCHANGED <<tables, jobs, upload, filename, draft, lostAcks>>

NamedDocuments(n) == {k \in Keys : name[k] = n}
VersionRows(d) == {k \in Keys : document[k] = d}
VersionsOf(d) == {version[k] : k \in VersionRows(d)}

LastVersion(d) == CHOOSE v \in VersionsOf(d) : \A u \in VersionsOf(d) : u <= v

\* create_quarantined's reads: the oldest document of that name, its last
\* version, and the placeholder parser version.
ReadForCreate(r) ==
    LET same == NamedDocuments(filename[r]) IN
    /\ stage[r] = "creating"
    /\ \E d \in IF same = {} THEN {key[r]}
                ELSE {k \in same : \A l \in same : born[k] <= born[l]} :
          draft' = [draft EXCEPT ![r] =
                       [document |-> d,
                        version |-> IF same = {} THEN 1 ELSE LastVersion(d) + 1,
                        newPending |-> ~pending]]
    /\ Proceed(r, "committing")
    /\ UNCHANGED <<tables, jobs, objects, upload, filename, key, intakeFaults, lostAcks>>

NoConflict_Unchecked(r) == TRUE

\* The unique constraints on (document_id, version_number) and on the parser
\* version's identity.
NoConflict(r) ==
    /\ draft[r].version \notin VersionsOf(draft[r].document)
    /\ draft[r].newPending => ~pending

\* The rows that create_quarantined inserts.
Insert(r) ==
    LET k == key[r] IN
    /\ content' = [content EXCEPT ![k] = upload[r]]
    /\ document' = [document EXCEPT ![k] = draft[r].document]
    /\ version' = [version EXCEPT ![k] = draft[r].version]
    /\ name' = IF draft[r].document = k THEN [name EXCEPT ![k] = filename[r]] ELSE name
    /\ born' = [born EXCEPT ![k] = Cardinality(Quarantined)]
    /\ pending' = TRUE

CommitCreate(r) ==
    /\ stage[r] = "committing"
    /\ IF NoConflict(r)
       THEN Insert(r) /\ Proceed(r, "enqueueing")
       ELSE Proceed(r, "deleting") /\ UNCHANGED tables
    /\ UNCHANGED <<jobs, objects, locals, intakeFaults, lostAcks>>

\* The rows are stored and the acknowledgement is lost: receive deletes the
\* object it has just recorded.
CreateAckLost(r) ==
    /\ stage[r] = "committing"
    /\ NoConflict(r)
    /\ IntakeFault
    /\ lostAcks' = lostAcks + 1
    /\ Insert(r)
    /\ Proceed(r, "deleting")
    /\ UNCHANGED <<jobs, objects, locals>>

Delete_Skipped(r) ==
    /\ stage[r] = "deleting"
    /\ Respond(r)
    /\ UNCHANGED <<tables, jobs, objects, intakeFaults, lostAcks>>

\* Compensation: the object is deleted before the error is reported.
Delete(r) ==
    /\ stage[r] = "deleting"
    /\ objects' = objects \ {key[r]}
    /\ Respond(r)
    /\ UNCHANGED <<tables, jobs, intakeFaults, lostAcks>>

\* _enqueue_parser_job: idempotent per intake.
Enqueue(r) ==
    /\ stage[r] = "enqueueing"
    /\ jobs' = jobs \cup {key[r]}
    /\ Respond(r)
    /\ UNCHANGED <<tables, objects, intakeFaults, lostAcks>>

Unavailable_Compensates(r) ==
    /\ stage[r] \in {"rejecting", "finding", "counting", "deleting", "enqueueing"}
    /\ IntakeFault
    /\ objects' = objects \ {key[r]}
    /\ Respond(r)
    /\ UNCHANGED <<tables, jobs, lostAcks>>

\* The database or the queue is unavailable, or the compensating delete fails:
\* the request answers 503 and leaves things as they are.
Unavailable(r) ==
    /\ stage[r] \in {"rejecting", "finding", "counting", "deleting", "enqueueing"}
    /\ IntakeFault
    /\ Respond(r)
    /\ UNCHANGED <<tables, jobs, objects, lostAcks>>

\* create_quarantined fails without storing anything.
CreateUnavailable(r) ==
    /\ stage[r] \in {"creating", "committing"}
    /\ IntakeFault
    /\ Proceed(r, "deleting")
    /\ UNCHANGED <<tables, jobs, objects, locals, lostAcks>>

\* The API process dies: nobody compensates.
KillRequest(r) ==
    /\ stage[r] # "idle"
    /\ IntakeFault
    /\ Respond(r)
    /\ UNCHANGED <<tables, jobs, objects, lostAcks>>

-----------------------------------------------------------------------------

Step(r) ==
    \/ RecordRejection(r)
    \/ FindHash(r)
    \/ CountUsage(r)
    \/ Put(r)
    \/ ReadForCreate(r)
    \/ CommitCreate(r)
    \/ Delete(r)
    \/ Enqueue(r)

IntakeFailure(r) ==
    \/ PutFails(r)
    \/ CreateAckLost(r)
    \/ CreateUnavailable(r)
    \/ Unavailable(r)
    \/ KillRequest(r)

IntakeNext ==
    \E r \in Requests :
        \/ \E n \in Names, c \in Contents : Receive(r, n, c)
        \/ Step(r)
        \/ IntakeFailure(r)

IntakeSpec == IntakeInit /\ [][IntakeNext]_intakeVars

\* Requests run on, and the owner keeps uploading each file that passes the
\* checks until it is there.
IntakeFairness ==
    /\ \A r \in Requests : WF_intakeVars(Step(r))
    /\ \A c \in {d \in Contents : Admissible(d)} :
         SF_intakeVars(\E r \in Requests, n \in Names : Receive(r, n, c))

IntakeFairSpec == IntakeSpec /\ IntakeFairness

-----------------------------------------------------------------------------
(* Properties.                                                             *)

\* Every variable holds a value the tables, the bucket and the locals can hold.
IntakeTypeOK ==
    /\ content \in [Keys -> Contents \cup {Nil}]
    /\ document \in [Keys -> Keys \cup {Nil}]
    /\ version \in [Keys -> Nat]
    /\ name \in [Keys -> Names \cup {Nil}]
    /\ born \in [Keys -> Nat]
    /\ pending \in BOOLEAN
    /\ jobs \subseteq Keys
    /\ objects \subseteq Keys
    /\ stage \in [Requests -> RequestSteps]
    /\ upload \in [Requests -> Contents \cup {Nil}]
    /\ filename \in [Requests -> Names \cup {Nil}]
    /\ key \in [Requests -> Keys \cup {Nil}]
    /\ draft \in [Requests -> [document : Keys \cup {Nil}, version : Nat, newPending : BOOLEAN]]
    /\ intakeFaults \in Nat
    /\ lostAcks \in Nat

\* The quotas are counted before and apart from the insert.  The processes that
\* race past the count together overshoot them, by at most one upload each: what
\* the code does keep of the limits the documents call hard (QuotasHard).
OvershootBounded ==
    LET racing == Cardinality(Requests) - 1 IN
    /\ Cardinality(Quarantined) <= MaxFiles + racing
    /\ UsedBytes <= MaxBytes + racing * MaxRaw

\* The versions of a document are 1 .. n without gaps or repetitions, although
\* concurrent uploads of one name compute the same next number.
VersionsDense ==
    \A d \in Keys : VersionsOf(d) = 1..Cardinality(VersionRows(d))

\* A quarantined intake has its object, unless the acknowledgement of its insert
\* was lost and the compensation deleted the object of a committed intake.
DanglingBounded == Cardinality(Quarantined \ objects) <= lostAcks

\* Objects that no intake and no running request owns.
Leaked == (objects \ Quarantined) \ {key[r] : r \in Requests}

\* Every error path removes its object; only a fault in between leaks one.
LeaksBounded == Cardinality(Leaked) <= intakeFaults

\* A crash or an outage between the intake and its parser job is repaired by
\* uploading the same bytes again: deduplication enqueues the job first.  Intakes
\* and jobs are never deleted, so this says that each content stored leads to a
\* job of one of its intakes.
RetriesRepair ==
    []<>(\A c \in Contents : SameContent(c) # {} => \E k \in jobs : content[k] = c)

-----------------------------------------------------------------------------
(* The inductive invariant.                                                *)

\* Before it has put its object a request holds no key; until it has answered,
\* the key of its object is its own; before the commit no intake has that key.
Owning == {"creating", "committing", "deleting"}
KeyOwnership ==
    /\ \A r \in Requests :
          /\ stage[r] \in {"idle", "rejecting", "finding", "counting", "putting"} => key[r] = Nil
          /\ stage[r] \in Owning => key[r] \in Keys
          /\ stage[r] \in {"creating", "committing"} => key[r] \in objects \ Quarantined
          /\ stage[r] = "enqueueing" => key[r] \in Quarantined
    /\ \A r, s \in Requests :
          stage[r] \in Owning /\ stage[s] \in Owning /\ key[r] = key[s] => r = s

\* What is past the checks is admissible, and the rows of an intake exist together.
RowsTogether ==
    /\ \A r \in Requests : stage[r] # "idle" => upload[r] \in Contents /\ filename[r] \in Names
    /\ \A r \in Requests :
          stage[r] \notin {"idle", "rejecting"} => SizeOf(upload[r]) <= MaxRaw
    /\ \A k \in Quarantined : SizeOf(content[k]) <= MaxRaw
    /\ \A k \in Keys : content[k] # Nil <=> document[k] # Nil
    /\ \A k \in Keys : name[k] # Nil => document[k] = k

\* A draft's number was the next one when it was read, and versions only come.
DraftsNext ==
    \A r \in Requests :
        stage[r] = "committing" =>
            /\ draft[r].document \in Keys
            /\ draft[r].version \in 1..(Cardinality(VersionRows(draft[r].document)) + 1)

\* Intakes whose object is gone, or is about to be deleted.
Doomed ==
    {k \in Quarantined :
        k \notin objects \/ \E r \in Requests : stage[r] = "deleting" /\ key[r] = k}
DanglingTracked == Cardinality(Doomed) <= lostAcks

\* Requests past the count that may still insert, and their bytes.
Admitted == {r \in Requests : stage[r] \in {"putting", "creating", "committing"}}
AdmittedBytes == UNION {BytesOf(r, upload[r]) : r \in Admitted}

\* What is stored and what may still be inserted: of the requests admitted, the
\* last one counted itself in.
UsageTracked ==
    LET racing == Cardinality(Requests) - 1 IN
    /\ Cardinality(Quarantined) + Cardinality(Admitted) <= MaxFiles + racing
    /\ UsedBytes + Cardinality(AdmittedBytes) <= MaxBytes + racing * MaxRaw

IntakeInv ==
    /\ IntakeTypeOK
    /\ KeyOwnership
    /\ RowsTogether
    /\ DraftsNext
    /\ VersionsDense
    /\ DanglingTracked
    /\ LeaksBounded
    /\ UsageTracked

-----------------------------------------------------------------------------
(* What the documents say and the code does not do.                        *)

\* INFRASTRUCTURE.md: "the same bytes uploaded again to the same project return
\* the existing intake instead of a new one".
OneIntakePerContent ==
    \A k, l \in Quarantined : content[k] = content[l] => k = l

\* UploadPolicy: "Hard admission limits derived from the approved product
\* contract", which says of the files and of the total bytes of a project "These
\* values are hard maximums".
QuotasHard ==
    /\ Cardinality(Quarantined) <= MaxFiles
    /\ UsedBytes <= MaxBytes

=============================================================================
