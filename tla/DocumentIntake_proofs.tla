----------------------- MODULE DocumentIntake_proofs -----------------------
(***************************************************************************)
(* The safety of document intake for every number of concurrent requests,  *)
(* every set of names and contents, every limit and number of intakeFaults.      *)
(*                                                                         *)
(* receive keeps no lock between its steps, so the bounds are stated with  *)
(* what is still under way: UsageTracked counts the admitted uploads with  *)
(* the stored ones, DanglingTracked the objects about to be deleted with   *)
(* the missing ones, DraftsNext the numbers drawn with the numbers stored. *)
(***************************************************************************)
EXTENDS DocumentIntake, FiniteSetTheorems, TLAPS

USE DEF tables, locals, RequestSteps, Owning

-----------------------------------------------------------------------------
(* Sets and their sizes.                                                   *)

\* A subset of a finite set is finite and not larger.
LEMMA SubsetSize ==
  ASSUME NEW S, IsFiniteSet(S), NEW T, T \subseteq S
  PROVE  /\ IsFiniteSet(T)
         /\ Cardinality(S) \in Nat
         /\ Cardinality(T) \in Nat
         /\ Cardinality(T) <= Cardinality(S)
  BY FS_Subset, FS_CardinalityType

\* One more element makes a set larger by at most one.
LEMMA OneMoreSize ==
  ASSUME NEW S, IsFiniteSet(S), NEW x, NEW T, T \subseteq S \cup {x}
  PROVE  Cardinality(T) <= Cardinality(S) + 1
<1>1. /\ IsFiniteSet(S \cup {x})
      /\ Cardinality(S \cup {x}) = IF x \in S THEN Cardinality(S) ELSE Cardinality(S) + 1
  BY FS_AddElement
<1>2. Cardinality(S) \in Nat
  BY FS_CardinalityType
<1>3. Cardinality(T) \in Nat /\ Cardinality(T) <= Cardinality(S \cup {x})
  BY <1>1, SubsetSize
<1> QED
  BY <1>1, <1>2, <1>3

\* The keys are finitely many.
LEMMA KeysFinite == IsFiniteSet(Keys) /\ Keys \subseteq Nat /\ Nil \notin Keys
<1>1. MaxKeys \in Int /\ 1 \in Int
  BY IntakeAssumption
<1>2. IsFiniteSet(1..MaxKeys)
  BY <1>1, FS_Interval
<1>3. Keys \subseteq Nat
  BY <1>1 DEF Keys
<1>4. Nil \notin Nat
  BY IntakeAssumption
<1> QED
  BY <1>2, <1>3, <1>4 DEF Keys

\* A content has as many bytes as its size says.
LEMMA BytesSize ==
  ASSUME NEW owner, NEW c \in Contents
  PROVE  IsFiniteSet(BytesOf(owner, c)) /\ Cardinality(BytesOf(owner, c)) = SizeOf(c)
<1>1. SizeOf(c) \in Nat
  BY IntakeAssumption
<1>2. IsFiniteSet(1..SizeOf(c)) /\ Cardinality(1..SizeOf(c)) = SizeOf(c)
  BY <1>1, FS_Interval
<1>3. IsFiniteSet({owner}) /\ Cardinality({owner}) = 1
  BY FS_Singleton
<1> DEFINE T == 1..SizeOf(c)
           S == {owner}
<1>4. IsFiniteSet(T) /\ Cardinality(T) = SizeOf(c) /\ IsFiniteSet(S) /\ Cardinality(S) = 1
  BY <1>2, <1>3
<1>5. BytesOf(owner, c) = S \X T
  BY DEF BytesOf
<1> HIDE DEF S, T
<1>6. IsFiniteSet(S \X T) /\ Cardinality(S \X T) = Cardinality(S) * Cardinality(T)
  BY <1>4, FS_Product
<1> QED
  BY <1>1, <1>4, <1>5, <1>6

\* The stored bytes and those of the admitted uploads are finitely many.
LEMMA BytesFinite ==
  ASSUME IntakeTypeOK, RowsTogether
  PROVE  /\ IsFiniteSet(StoredBytes) /\ Cardinality(StoredBytes) \in Nat
         /\ IsFiniteSet(AdmittedBytes) /\ Cardinality(AdmittedBytes) \in Nat
<1>1. IsFiniteSet(1..MaxRaw) /\ IsFiniteSet(Requests) /\ IsFiniteSet(Keys)
  BY IntakeAssumption, FS_Interval, KeysFinite
<1>2. IsFiniteSet(Keys \X (1..MaxRaw)) /\ IsFiniteSet(Requests \X (1..MaxRaw))
  BY <1>1, FS_Product
<1>3. StoredBytes \subseteq Keys \X (1..MaxRaw)
  <2>1. ASSUME NEW k \in Quarantined PROVE BytesOf(k, content[k]) \subseteq Keys \X (1..MaxRaw)
    <3>1. k \in Keys /\ content[k] \in Contents /\ SizeOf(content[k]) <= MaxRaw
      BY DEF IntakeTypeOK, RowsTogether, Quarantined
    <3>2. SizeOf(content[k]) \in Nat /\ MaxRaw \in Nat
      BY <3>1, IntakeAssumption
    <3>3. 1..SizeOf(content[k]) \subseteq 1..MaxRaw
      BY <3>1, <3>2
    <3> QED
      BY <3>1, <3>3 DEF BytesOf
  <2> QED
    BY <2>1 DEF StoredBytes
<1>4. AdmittedBytes \subseteq Requests \X (1..MaxRaw)
  <2>1. ASSUME NEW r \in Admitted PROVE BytesOf(r, upload[r]) \subseteq Requests \X (1..MaxRaw)
    <3>1. r \in Requests /\ upload[r] \in Contents /\ SizeOf(upload[r]) <= MaxRaw
      BY DEF Admitted, RowsTogether
    <3>2. SizeOf(upload[r]) \in Nat /\ MaxRaw \in Nat
      BY <3>1, IntakeAssumption
    <3>3. 1..SizeOf(upload[r]) \subseteq 1..MaxRaw
      BY <3>1, <3>2
    <3> QED
      BY <3>1, <3>3 DEF BytesOf
  <2> QED
    BY <2>1 DEF AdmittedBytes
<1> QED
  BY <1>2, <1>3, <1>4, SubsetSize

-----------------------------------------------------------------------------
(* The initial state.                                                      *)

\* Nothing is stored and no request runs.
LEMMA InitHolds == IntakeInit => IntakeInv
<1> SUFFICES ASSUME IntakeInit PROVE IntakeInv
  OBVIOUS
<1>1. IntakeTypeOK
  BY KeysFinite DEF IntakeInit, IntakeTypeOK, NoDraft
<1>2. /\ Quarantined = {} /\ Doomed = {} /\ Leaked = {} /\ Admitted = {}
      /\ StoredBytes = {} /\ AdmittedBytes = {}
  BY DEF IntakeInit, Quarantined, Doomed, Leaked, Admitted, StoredBytes, AdmittedBytes
<1>3. KeyOwnership /\ RowsTogether /\ DraftsNext
  BY <1>2 DEF IntakeInit, KeyOwnership, RowsTogether, DraftsNext
<1>4. VersionsDense
  <2>1. ASSUME NEW d \in Keys PROVE VersionRows(d) = {} /\ VersionsOf(d) = {}
    BY KeysFinite DEF IntakeInit, VersionRows, VersionsOf
  <2>2. Cardinality({}) = 0 /\ 1..0 = {}
    BY FS_EmptySet
  <2> QED
    BY <2>1, <2>2 DEF VersionsDense
<1>5. Cardinality({}) = 0
  BY FS_EmptySet
<1>6. DanglingTracked /\ LeaksBounded
  BY <1>2, <1>5 DEF IntakeInit, DanglingTracked, LeaksBounded
<1>7. UsageTracked
  <2> DEFINE racing == Cardinality(Requests) - 1
  <2>1. racing \in Nat
    BY IntakeAssumption, FS_CardinalityType, FS_EmptySet
  <2>2. MaxFiles \in Nat /\ MaxBytes \in Nat /\ MaxRaw \in Nat
    BY IntakeAssumption
  <2> HIDE DEF racing
  <2>3. racing * MaxRaw \in Nat
    BY <2>1, <2>2
  <2>4. 0 <= MaxFiles + racing /\ 0 <= MaxBytes + racing * MaxRaw
    BY <2>1, <2>2, <2>3
  <2> QED
    BY <1>2, <1>5, <2>4 DEF UsageTracked, UsedBytes, racing
<1> QED
  BY <1>1, <1>3, <1>4, <1>6, <1>7 DEF IntakeInv

-----------------------------------------------------------------------------
(* What a step does to the bounds.                                         *)

\* A step that stores no row and admits no request keeps the usage.
LEMMA UsageKeeps ==
  ASSUME IntakeInv, content' = content, Admitted' \subseteq Admitted,
         \A r \in Admitted' : upload'[r] = upload[r]
  PROVE  UsageTracked'
<1>1. Quarantined' = Quarantined /\ StoredBytes' = StoredBytes /\ UsedBytes' = UsedBytes
  BY DEF Quarantined, StoredBytes, UsedBytes
<1>2. AdmittedBytes' \subseteq AdmittedBytes
  BY DEF AdmittedBytes
<1>3. IsFiniteSet(Admitted) /\ IsFiniteSet(AdmittedBytes)
  BY IntakeAssumption, SubsetSize, BytesFinite DEF Admitted, IntakeInv
<1>4. /\ Cardinality(Admitted') <= Cardinality(Admitted)
      /\ Cardinality(Admitted') \in Nat /\ Cardinality(Admitted) \in Nat
      /\ Cardinality(AdmittedBytes') <= Cardinality(AdmittedBytes)
      /\ Cardinality(AdmittedBytes') \in Nat /\ Cardinality(AdmittedBytes) \in Nat
  BY <1>2, <1>3, SubsetSize
<1>5. Cardinality(Quarantined) \in Nat /\ UsedBytes \in Nat
  BY KeysFinite, SubsetSize, BytesFinite DEF Quarantined, UsedBytes, IntakeInv
<1> DEFINE racing == Cardinality(Requests) - 1
<1>6. racing \in Int /\ racing * MaxRaw \in Int /\ MaxFiles \in Nat /\ MaxBytes \in Nat
  BY IntakeAssumption, FS_CardinalityType
<1>7. /\ Cardinality(Quarantined) + Cardinality(Admitted) <= MaxFiles + racing
      /\ UsedBytes + Cardinality(AdmittedBytes) <= MaxBytes + racing * MaxRaw
  BY DEF IntakeInv, UsageTracked
<1>8. /\ Cardinality(Quarantined') + Cardinality(Admitted') <= MaxFiles + racing
      /\ UsedBytes' + Cardinality(AdmittedBytes') <= MaxBytes + racing * MaxRaw
  <2> DEFINE total == racing * MaxRaw
  <2> HIDE DEF total, racing
  <2>1. /\ Cardinality(Quarantined) + Cardinality(Admitted') <= MaxFiles + racing
        /\ UsedBytes + Cardinality(AdmittedBytes') <= MaxBytes + total
    BY <1>4, <1>5, <1>6, <1>7 DEF total
  <2> QED
    BY <1>1, <2>1 DEF total
<1> QED
  BY <1>8 DEF UsageTracked

\* No intake is doomed anew.
LEMMA DoomedKeeps ==
  ASSUME IntakeInv, Doomed' \subseteq Doomed, lostAcks' = lostAcks
  PROVE  DanglingTracked'
<1>1. IsFiniteSet(Doomed)
  BY KeysFinite, SubsetSize DEF Doomed, Quarantined
<1>2. Cardinality(Doomed') \in Nat /\ Cardinality(Doomed) \in Nat
      /\ Cardinality(Doomed') <= Cardinality(Doomed)
  BY <1>1, SubsetSize
<1> QED
  BY <1>2 DEF IntakeInv, IntakeTypeOK, DanglingTracked

\* No object leaks, or one leaks and a fault is counted.
LEMMA LeaksKeep ==
  ASSUME IntakeInv, NEW x,
         \/ Leaked' \subseteq Leaked /\ intakeFaults' = intakeFaults
         \/ Leaked' \subseteq Leaked \cup {x} /\ intakeFaults' = intakeFaults + 1
  PROVE  LeaksBounded'
<1>1. IsFiniteSet(Leaked) /\ Cardinality(Leaked) \in Nat
  BY KeysFinite, SubsetSize DEF Leaked, IntakeInv, IntakeTypeOK
<1>2. Cardinality(Leaked) <= intakeFaults /\ intakeFaults \in Nat
  BY DEF IntakeInv, IntakeTypeOK, LeaksBounded
<1>3. CASE Leaked' \subseteq Leaked /\ intakeFaults' = intakeFaults
  <2>1. Cardinality(Leaked') \in Nat /\ Cardinality(Leaked') <= Cardinality(Leaked)
    BY <1>1, <1>3, SubsetSize
  <2> QED
    BY <1>1, <1>2, <1>3, <2>1 DEF LeaksBounded
<1>4. CASE Leaked' \subseteq Leaked \cup {x} /\ intakeFaults' = intakeFaults + 1
  <2>1. IsFiniteSet(Leaked \cup {x})
    BY <1>1, FS_AddElement
  <2>2. Cardinality(Leaked') \in Nat
    BY <1>4, <2>1, SubsetSize
  <2>3. Cardinality(Leaked') <= Cardinality(Leaked) + 1
    BY <1>1, <1>4, OneMoreSize
  <2> QED
    BY <1>1, <1>2, <1>4, <2>2, <2>3 DEF LeaksBounded
<1> QED
  BY <1>3, <1>4

\* Nothing about the rows changes with the tables as they are.
LEMMA RowsKeep ==
  ASSUME IntakeInv, UNCHANGED tables
  PROVE  /\ VersionsDense'
         /\ Quarantined' = Quarantined
         /\ \A d \in Keys : VersionRows(d)' = VersionRows(d) /\ VersionsOf(d)' = VersionsOf(d)
<1>1. \A d \in Keys : VersionRows(d)' = VersionRows(d) /\ VersionsOf(d)' = VersionsOf(d)
  BY DEF VersionRows, VersionsOf
<1> QED
  BY <1>1 DEF IntakeInv, VersionsDense, Quarantined

-----------------------------------------------------------------------------
(* The steps.                                                              *)

\* A request that answers forgets its key.  Its object goes with it, is that of
\* an intake, or is leaked by the fault that ends the request.
LEMMA RespondKeeps ==
  ASSUME IntakeInv, NEW r \in Requests, Respond(r), UNCHANGED tables, lostAcks' = lostAcks,
         jobs' \in SUBSET Keys, objects' \in SUBSET objects,
         \A k \in objects \ objects' : stage[r] = "deleting" /\ k = key[r],
         \/ intakeFaults' = intakeFaults /\ key[r] \notin objects' \ Quarantined
         \/ intakeFaults' = intakeFaults + 1
  PROVE  IntakeInv'
<1>1. /\ stage' = [stage EXCEPT ![r] = "idle"]
      /\ upload' = [upload EXCEPT ![r] = Nil]
      /\ filename' = [filename EXCEPT ![r] = Nil]
      /\ key' = [key EXCEPT ![r] = Nil]
      /\ draft' = [draft EXCEPT ![r] = NoDraft]
  BY DEF Respond
<1>2. IntakeTypeOK'
  <2>1. NoDraft \in [document : Keys \cup {Nil}, version : Nat, newPending : BOOLEAN]
    BY DEF NoDraft
  <2>2. draft' \in [Requests -> [document : Keys \cup {Nil}, version : Nat, newPending : BOOLEAN]]
    BY <1>1, <2>1 DEF IntakeInv, IntakeTypeOK
  <2>3. stage' \in [Requests -> RequestSteps]
    BY <1>1 DEF IntakeInv, IntakeTypeOK
  <2>4. /\ upload' \in [Requests -> Contents \cup {Nil}]
        /\ filename' \in [Requests -> Names \cup {Nil}]
        /\ key' \in [Requests -> Keys \cup {Nil}]
    BY <1>1 DEF IntakeInv, IntakeTypeOK
  <2>5. objects' \subseteq Keys /\ jobs' \subseteq Keys
    BY DEF IntakeInv, IntakeTypeOK
  <2>6. intakeFaults' \in Nat /\ lostAcks' \in Nat
    BY DEF IntakeInv, IntakeTypeOK
  <2> QED
    BY <2>2, <2>3, <2>4, <2>5, <2>6 DEF IntakeInv, IntakeTypeOK
<1>3. /\ stage'[r] = "idle" /\ key'[r] = Nil
      /\ \A s \in Requests : s # r => /\ stage'[s] = stage[s] /\ key'[s] = key[s]
                                      /\ upload'[s] = upload[s] /\ filename'[s] = filename[s]
                                      /\ draft'[s] = draft[s]
  BY <1>1 DEF IntakeInv, IntakeTypeOK
<1>4. Quarantined' = Quarantined /\ VersionsDense'
  BY RowsKeep
<1>5. \A d \in Keys : VersionRows(d)' = VersionRows(d)
  BY RowsKeep
<1>6. KeyOwnership'
  <2>1. ASSUME NEW s \in Requests, s # r, stage[s] \in {"creating", "committing"}
        PROVE  key[s] \in objects'
    <3>1. key[s] \in objects
      BY <2>1 DEF IntakeInv, KeyOwnership
    <3>2. stage[r] = "deleting" => key[s] # key[r]
      BY <2>1 DEF IntakeInv, KeyOwnership
    <3> QED
      BY <3>1, <3>2
  <2> QED
    BY <1>3, <1>4, <2>1 DEF IntakeInv, KeyOwnership
<1>7. RowsTogether'
  BY <1>3, <1>4 DEF IntakeInv, RowsTogether
<1>8. DraftsNext'
  BY <1>3, <1>5 DEF IntakeInv, DraftsNext
<1>9. DanglingTracked'
  <2>1. Doomed' \subseteq Doomed
    BY <1>3, <1>4 DEF Doomed
  <2> QED
    BY <2>1, DoomedKeeps
<1>10. LeaksBounded'
  <2>1. Leaked' \subseteq Leaked \cup {key[r]}
    BY <1>3, <1>4 DEF Leaked
  <2>2. intakeFaults' = intakeFaults => Leaked' \subseteq Leaked
    <3>1. intakeFaults # intakeFaults + 1
      BY DEF IntakeInv, IntakeTypeOK
    <3>2. Leaked' \subseteq objects' \ Quarantined
      BY <1>4 DEF Leaked
    <3> QED
      BY <2>1, <3>1, <3>2
  <2> QED
    BY <2>1, <2>2, LeaksKeep
<1>11. UsageTracked'
  <2>1. Admitted' \subseteq Admitted /\ \A s \in Admitted' : upload'[s] = upload[s]
    BY <1>3 DEF Admitted
  <2> QED
    BY <2>1, UsageKeeps
<1> QED
  BY <1>2, <1>4, <1>6, <1>7, <1>8, <1>9, <1>10, <1>11 DEF IntakeInv

\* A rejected upload holds no key.
LEMMA RecordRejectionKeeps ==
  ASSUME IntakeInv, NEW r \in Requests, RecordRejection(r)
  PROVE  IntakeInv'
<1>1. key[r] = Nil /\ objects \subseteq Keys /\ Nil \notin Keys /\ jobs \in SUBSET Keys
  BY KeysFinite DEF RecordRejection, IntakeInv, IntakeTypeOK, KeyOwnership
<1>2. /\ Respond(r) /\ UNCHANGED tables /\ lostAcks' = lostAcks /\ jobs' = jobs
      /\ objects' = objects /\ intakeFaults' = intakeFaults
  BY DEF RecordRejection
<1> QED
  BY <1>1, <1>2, RespondKeeps

\* The compensation removes the request's object.
LEMMA DeleteKeeps ==
  ASSUME IntakeInv, NEW r \in Requests, Delete(r)
  PROVE  IntakeInv'
<1>1. jobs \in SUBSET Keys
  BY DEF IntakeInv, IntakeTypeOK
<1>2. /\ Respond(r) /\ UNCHANGED tables /\ lostAcks' = lostAcks /\ jobs' = jobs
      /\ objects' = objects \ {key[r]} /\ intakeFaults' = intakeFaults /\ stage[r] = "deleting"
  BY DEF Delete
<1> QED
  BY <1>1, <1>2, RespondKeeps

\* The request's key is that of an intake.
LEMMA EnqueueKeeps ==
  ASSUME IntakeInv, NEW r \in Requests, Enqueue(r)
  PROVE  IntakeInv'
<1>1. key[r] \in Quarantined /\ Quarantined \subseteq Keys /\ jobs \subseteq Keys
  BY DEF Enqueue, IntakeInv, IntakeTypeOK, KeyOwnership, Quarantined
<1>2. /\ Respond(r) /\ UNCHANGED tables /\ lostAcks' = lostAcks /\ jobs' = jobs \cup {key[r]}
      /\ objects' = objects /\ intakeFaults' = intakeFaults
  BY DEF Enqueue
<1> QED
  BY <1>1, <1>2, RespondKeeps

\* A fault ends the request and leaves everything shared as it is.
LEMMA FaultKeeps ==
  ASSUME IntakeInv, NEW r \in Requests, Unavailable(r) \/ KillRequest(r)
  PROVE  IntakeInv'
<1>1. jobs \in SUBSET Keys
  BY DEF IntakeInv, IntakeTypeOK
<1>2. /\ Respond(r) /\ UNCHANGED tables /\ lostAcks' = lostAcks /\ jobs' = jobs
      /\ objects' = objects /\ intakeFaults' = intakeFaults + 1
  BY DEF Unavailable, KillRequest, IntakeFault
<1> QED
  BY <1>1, <1>2, RespondKeeps

\* A step of a request that changes nothing shared and admits nobody.
LEMMA LocalKeeps ==
  ASSUME IntakeInv, NEW r \in Requests, UNCHANGED <<tables, jobs, objects, lostAcks>>,
         NEW step, stage' = [stage EXCEPT ![r] = step], IntakeTypeOK', KeyOwnership', RowsTogether',
         DraftsNext',
         intakeFaults' = intakeFaults \/ intakeFaults' = intakeFaults + 1,
         step \notin {"putting", "deleting"},
         step \in {"creating", "committing"} => stage[r] \in {"creating", "committing"},
         \A s \in Requests : s # r \/ step \in {"creating", "committing"} => upload'[s] = upload[s],
         \A s \in Requests : key'[s] # key[s] => s = r /\ key[r] = Nil
  PROVE  IntakeInv'
<1>1. stage'[r] = step /\ \A s \in Requests : s # r => stage'[s] = stage[s]
  BY DEF IntakeInv, IntakeTypeOK
<1>2. Quarantined' = Quarantined /\ VersionsDense'
  BY RowsKeep
<1>3. DanglingTracked'
  <2>1. \A s \in Requests : stage'[s] = "deleting" => stage[s] = "deleting" /\ s # r
    BY <1>1
  <2>2. ASSUME NEW s \in Requests, stage'[s] = "deleting" PROVE key'[s] = key[s]
    BY <2>1, <2>2
  <2>3. Doomed' \subseteq Doomed
    BY <1>2, <2>1, <2>2 DEF Doomed
  <2> QED
    BY <2>3, DoomedKeeps
<1>4. LeaksBounded'
  <2>1. Nil \notin objects
    BY KeysFinite DEF IntakeInv, IntakeTypeOK
  <2>2. Leaked' \subseteq Leaked
    <3>1. ASSUME NEW x \in Leaked', NEW s \in Requests, x = key[s] PROVE FALSE
      <4>1. x \in objects /\ x # key'[s]
        BY <3>1 DEF Leaked
      <4>2. key[s] = Nil
        BY <3>1, <4>1
      <4> QED
        BY <2>1, <3>1, <4>1, <4>2
    <3> QED
      BY <1>2, <3>1 DEF Leaked
  <2> QED
    BY <2>2, LeaksKeep
<1>5. UsageTracked'
  <2>1. Admitted' \subseteq Admitted /\ \A s \in Admitted' : upload'[s] = upload[s]
    BY <1>1 DEF Admitted
  <2> QED
    BY <2>1, UsageKeeps
<1> QED
  BY <1>2, <1>3, <1>4, <1>5 DEF IntakeInv

\* An upload arrives and passes its own checks or not.
LEMMA ReceiveKeeps ==
  ASSUME IntakeInv, NEW r \in Requests, NEW n \in Names, NEW c \in Contents, Receive(r, n, c)
  PROVE  IntakeInv'
<1> DEFINE step == IF Admissible(c) THEN "finding" ELSE "rejecting"
<1>1. /\ stage[r] = "idle"
      /\ upload' = [upload EXCEPT ![r] = c]
      /\ filename' = [filename EXCEPT ![r] = n]
      /\ stage' = [stage EXCEPT ![r] = step]
      /\ UNCHANGED <<tables, jobs, objects, key, draft, intakeFaults, lostAcks>>
  BY DEF Receive, Proceed
<1>2. step \in {"finding", "rejecting"} /\ (step = "finding" => SizeOf(c) <= MaxRaw)
  BY DEF Admissible
<1> HIDE DEF step
<1>3. IntakeTypeOK'
  <2>1. stage' \in [Requests -> RequestSteps]
    BY <1>1, <1>2 DEF IntakeInv, IntakeTypeOK
  <2>2. upload' \in [Requests -> Contents \cup {Nil}] /\ filename' \in [Requests -> Names \cup {Nil}]
    BY <1>1 DEF IntakeInv, IntakeTypeOK
  <2> QED
    BY <1>1, <2>1, <2>2 DEF IntakeInv, IntakeTypeOK
<1>4. /\ stage'[r] = step /\ upload'[r] = c /\ filename'[r] = n
      /\ \A s \in Requests : s # r => /\ stage'[s] = stage[s] /\ upload'[s] = upload[s]
                                      /\ filename'[s] = filename[s]
  BY <1>1 DEF IntakeInv, IntakeTypeOK
<1>5. Quarantined' = Quarantined /\ \A d \in Keys : VersionRows(d)' = VersionRows(d)
  BY <1>1, RowsKeep
<1>6. KeyOwnership'
  BY <1>1, <1>2, <1>4, <1>5 DEF IntakeInv, KeyOwnership
<1>7. RowsTogether'
  BY <1>1, <1>2, <1>4, <1>5 DEF IntakeInv, RowsTogether
<1>8. DraftsNext'
  BY <1>1, <1>2, <1>4, <1>5 DEF IntakeInv, DraftsNext
<1> QED
  BY <1>1, <1>2, <1>3, <1>4, <1>6, <1>7, <1>8, LocalKeeps

\* A duplicate takes the key of the stored intake.
LEMMA FindHashKeeps ==
  ASSUME IntakeInv, NEW r \in Requests, FindHash(r)
  PROVE  IntakeInv'
<1>1. /\ stage[r] = "finding" /\ key[r] = Nil
      /\ UNCHANGED <<tables, jobs, objects, upload, filename, draft, intakeFaults, lostAcks>>
  BY DEF FindHash, IntakeInv, KeyOwnership
<1>2. PICK step \in {"counting", "enqueueing"}, k \in Keys \cup {Nil} :
        /\ stage' = [stage EXCEPT ![r] = step]
        /\ key' = [key EXCEPT ![r] = k]
        /\ step = "counting" => k = Nil
        /\ step = "enqueueing" => k \in Quarantined
  <2>1. CASE SameContent(upload[r]) = {}
    <3>1. stage' = [stage EXCEPT ![r] = "counting"] /\ key' = key
      BY <2>1 DEF FindHash, Proceed
    <3>2. key' = [key EXCEPT ![r] = Nil]
      BY <1>1, <3>1 DEF IntakeInv, IntakeTypeOK
    <3> QED
      BY <3>1, <3>2
  <2>2. CASE SameContent(upload[r]) # {}
    <3>1. PICK k \in SameContent(upload[r]) : key' = [key EXCEPT ![r] = k]
      BY <2>2 DEF FindHash
    <3>2. k \in Quarantined /\ k \in Keys
      BY DEF SameContent, Quarantined
    <3>3. stage' = [stage EXCEPT ![r] = "enqueueing"]
      BY <2>2 DEF FindHash, Proceed
    <3> QED
      BY <3>1, <3>2, <3>3
  <2> QED
    BY <2>1, <2>2
<1>3. IntakeTypeOK'
  <2>1. stage' \in [Requests -> RequestSteps]
    BY <1>2 DEF IntakeInv, IntakeTypeOK
  <2>2. key' \in [Requests -> Keys \cup {Nil}]
    BY <1>2 DEF IntakeInv, IntakeTypeOK
  <2> QED
    BY <1>1, <2>1, <2>2 DEF IntakeInv, IntakeTypeOK
<1>4. /\ stage'[r] = step /\ key'[r] = k
      /\ \A s \in Requests : s # r => stage'[s] = stage[s] /\ key'[s] = key[s]
  BY <1>2 DEF IntakeInv, IntakeTypeOK
<1>5. Quarantined' = Quarantined /\ \A d \in Keys : VersionRows(d)' = VersionRows(d)
  BY <1>1, RowsKeep
<1>6. KeyOwnership'
  BY <1>1, <1>2, <1>4, <1>5 DEF IntakeInv, KeyOwnership
<1>7. RowsTogether'
  BY <1>1, <1>2, <1>4, <1>5 DEF IntakeInv, RowsTogether
<1>8. DraftsNext'
  BY <1>1, <1>2, <1>4, <1>5 DEF IntakeInv, DraftsNext
<1> QED
  BY <1>1, <1>2, <1>3, <1>4, <1>6, <1>7, <1>8, LocalKeeps

\* The insert fails and the object is to be deleted: it is not an intake's.
LEMMA ToDeletingKeeps ==
  ASSUME IntakeInv, NEW r \in Requests, stage[r] \in {"creating", "committing"},
         stage' = [stage EXCEPT ![r] = "deleting"],
         UNCHANGED <<tables, jobs, objects, locals, lostAcks>>,
         intakeFaults' = intakeFaults \/ intakeFaults' = intakeFaults + 1
  PROVE  IntakeInv'
<1>1. stage'[r] = "deleting" /\ \A s \in Requests : s # r => stage'[s] = stage[s]
  BY DEF IntakeInv, IntakeTypeOK
<1>2. IntakeTypeOK'
  <2>1. stage' \in [Requests -> RequestSteps] /\ intakeFaults' \in Nat
    BY DEF IntakeInv, IntakeTypeOK
  <2> QED
    BY <2>1 DEF IntakeInv, IntakeTypeOK
<1>3. Quarantined' = Quarantined /\ VersionsDense' /\ \A d \in Keys : VersionRows(d)' = VersionRows(d)
  BY RowsKeep
<1>4. KeyOwnership'
  BY <1>1, <1>3 DEF IntakeInv, KeyOwnership
<1>5. RowsTogether' /\ DraftsNext'
  BY <1>1, <1>3 DEF IntakeInv, RowsTogether, DraftsNext
<1>6. DanglingTracked'
  <2>1. key[r] \notin Quarantined
    BY DEF IntakeInv, KeyOwnership
  <2>2. Doomed' \subseteq Doomed
    BY <1>1, <1>3, <2>1 DEF Doomed
  <2> QED
    BY <2>2, DoomedKeeps
<1>7. LeaksBounded'
  <2>1. Leaked' = Leaked
    BY <1>3 DEF Leaked
  <2> QED
    BY <2>1, LeaksKeep
<1>8. UsageTracked'
  <2>1. Admitted' \subseteq Admitted
    BY <1>1 DEF Admitted
  <2> QED
    BY <2>1, UsageKeeps
<1> QED
  BY <1>2, <1>3, <1>4, <1>5, <1>6, <1>7, <1>8 DEF IntakeInv

\* Admission: of the requests that may still insert, the one that counts now has
\* found room for itself.
LEMMA AdmissionBound ==
  ASSUME IntakeInv, NEW r \in Requests, stage[r] = "counting", HasRoom(upload[r]),
         stage' = [stage EXCEPT ![r] = "putting"],
         UNCHANGED <<tables, jobs, objects, locals, intakeFaults, lostAcks>>
  PROVE  UsageTracked'
<1> DEFINE racing == Cardinality(Requests) - 1
<1> DEFINE others == (Requests \ {r}) \X (1..MaxRaw)
<1> DEFINE own == BytesOf(r, upload[r])
<1>1. stage'[r] = "putting" /\ \A s \in Requests : s # r => stage'[s] = stage[s]
  BY DEF IntakeInv, IntakeTypeOK
<1>2. Quarantined' = Quarantined /\ StoredBytes' = StoredBytes /\ UsedBytes' = UsedBytes
  BY DEF Quarantined, StoredBytes, UsedBytes
<1>3. Admitted' \subseteq Requests
  BY DEF Admitted
<1>4. /\ Cardinality(Admitted') \in Nat /\ Cardinality(Requests) \in Nat
      /\ Cardinality(Admitted') <= Cardinality(Requests)
  BY <1>3, IntakeAssumption, SubsetSize
<1>5. /\ IsFiniteSet(Requests \ {r})
      /\ Cardinality(Requests \ {r}) = racing
  BY IntakeAssumption, FS_RemoveElement
<1>6. racing \in Nat
  BY <1>5, FS_CardinalityType
<1>7. MaxRaw \in Nat /\ MaxFiles \in Nat /\ MaxBytes \in Nat
  BY IntakeAssumption
<1>8. IsFiniteSet(1..MaxRaw) /\ Cardinality(1..MaxRaw) = MaxRaw
  BY <1>7, FS_Interval
<1>9. IsFiniteSet(others) /\ Cardinality(others) = racing * MaxRaw
  <2>1. /\ IsFiniteSet(others)
        /\ Cardinality(others) = Cardinality(Requests \ {r}) * Cardinality(1..MaxRaw)
    BY <1>5, <1>8, FS_Product
  <2> HIDE DEF others, racing
  <2> QED
    BY <1>5, <1>8, <2>1
<1>10. upload[r] \in Contents
  BY DEF IntakeInv, RowsTogether
<1>11. IsFiniteSet(own) /\ Cardinality(own) = SizeOf(upload[r]) /\ SizeOf(upload[r]) \in Nat
  BY <1>10, BytesSize, IntakeAssumption
<1>12. AdmittedBytes' \subseteq others \cup own
  <2>1. ASSUME NEW s \in Admitted' PROVE BytesOf(s, upload[s]) \subseteq others \cup own
    <3>1. s \in Requests
      BY DEF Admitted
    <3>2. CASE s = r
      BY <3>2
    <3>3. CASE s # r
      <4>1. stage[s] \in {"putting", "creating", "committing"}
        BY <1>1, <3>1, <3>3 DEF Admitted
      <4>2. upload[s] \in Contents /\ SizeOf(upload[s]) <= MaxRaw
        BY <3>1, <4>1 DEF IntakeInv, RowsTogether
      <4>3. SizeOf(upload[s]) \in Nat
        BY <4>2, IntakeAssumption
      <4>4. 1..SizeOf(upload[s]) \subseteq 1..MaxRaw
        BY <1>7, <4>2, <4>3
      <4>5. s \in Requests \ {r}
        BY <3>1, <3>3
      <4> QED
        BY <4>4, <4>5 DEF BytesOf
    <3> QED
      BY <3>2, <3>3
  <2> QED
    BY <2>1 DEF AdmittedBytes
<1>13. /\ IsFiniteSet(others \cup own)
       /\ Cardinality(others \cup own)
            = Cardinality(others) + Cardinality(own) - Cardinality(others \cap own)
  BY <1>9, <1>11, FS_Union
<1>14. Cardinality(others \cap own) \in Nat
  BY <1>11, SubsetSize
<1>15. /\ Cardinality(AdmittedBytes') \in Nat
       /\ Cardinality(AdmittedBytes') <= Cardinality(others \cup own)
  BY <1>12, <1>13, SubsetSize
<1>16. Cardinality(Quarantined) \in Nat /\ UsedBytes \in Nat
  BY KeysFinite, SubsetSize, BytesFinite DEF Quarantined, UsedBytes, IntakeInv
<1>17. Cardinality(Quarantined) < MaxFiles /\ UsedBytes + SizeOf(upload[r]) <= MaxBytes
  BY DEF HasRoom
<1>18. Cardinality(Quarantined) + Cardinality(Admitted') <= MaxFiles + racing
  BY <1>4, <1>7, <1>16, <1>17
<1> DEFINE total == racing * MaxRaw
<1>19. total \in Nat
  BY <1>6, <1>7
<1>20. Cardinality(others) = total
  BY <1>9
<1> HIDE DEF total, others, own
<1>21. UsedBytes + Cardinality(AdmittedBytes') <= MaxBytes + total
  BY <1>7, <1>11, <1>13, <1>14, <1>15, <1>16, <1>17, <1>19, <1>20
<1> QED
  BY <1>2, <1>18, <1>21 DEF UsageTracked, total

\* The count sends an upload on, or rejects it.
LEMMA CountUsageKeeps ==
  ASSUME IntakeInv, NEW r \in Requests, CountUsage(r)
  PROVE  IntakeInv'
<1> DEFINE step == IF HasRoom(upload[r]) THEN "putting" ELSE "rejecting"
<1>1. /\ stage[r] = "counting" /\ stage' = [stage EXCEPT ![r] = step]
      /\ UNCHANGED <<tables, jobs, objects, locals, intakeFaults, lostAcks>>
  BY DEF CountUsage, Proceed
<1>2. step \in {"putting", "rejecting"} /\ (step = "putting" => HasRoom(upload[r]))
  OBVIOUS
<1> HIDE DEF step
<1>3. IntakeTypeOK'
  <2>1. stage' \in [Requests -> RequestSteps]
    BY <1>1, <1>2 DEF IntakeInv, IntakeTypeOK
  <2> QED
    BY <1>1, <2>1 DEF IntakeInv, IntakeTypeOK
<1>4. stage'[r] = step /\ \A s \in Requests : s # r => stage'[s] = stage[s]
  BY <1>1 DEF IntakeInv, IntakeTypeOK
<1>5. Quarantined' = Quarantined /\ VersionsDense' /\ \A d \in Keys : VersionRows(d)' = VersionRows(d)
  BY <1>1, RowsKeep
<1>6. KeyOwnership'
  BY <1>1, <1>2, <1>4, <1>5 DEF IntakeInv, KeyOwnership
<1>7. RowsTogether' /\ DraftsNext'
  BY <1>1, <1>2, <1>4, <1>5 DEF IntakeInv, RowsTogether, DraftsNext
<1>8. CASE step = "rejecting"
  BY <1>1, <1>3, <1>6, <1>7, <1>8, LocalKeeps
<1>9. CASE step = "putting"
  <2>1. UsageTracked'
    BY <1>1, <1>2, <1>9, AdmissionBound
  <2>2. Doomed' \subseteq Doomed /\ Leaked' = Leaked
    BY <1>1, <1>4, <1>5, <1>9 DEF Doomed, Leaked
  <2>3. DanglingTracked'
    BY <1>1, <2>2, DoomedKeeps
  <2>4. LeaksBounded'
    BY <1>1, <2>2, LeaksKeep
  <2> QED
    BY <1>3, <1>5, <1>6, <1>7, <2>1, <2>3, <2>4 DEF IntakeInv
<1> QED
  BY <1>2, <1>8, <1>9

\* A put writes its object, or fails with or without it, under a key nobody has.
LEMMA PutKeeps ==
  ASSUME IntakeInv, NEW r \in Requests, Put(r) \/ PutFails(r)
  PROVE  IntakeInv'
<1>1. PICK k \in Keys, step \in {"creating", "deleting"} :
        /\ stage' = [stage EXCEPT ![r] = step]
        /\ key' = [key EXCEPT ![r] = k]
        /\ FreshKey(k)
        /\ objects' = objects \/ objects' = objects \cup {k}
        /\ step = "creating" => objects' = objects \cup {k}
        /\ intakeFaults' = intakeFaults \/ intakeFaults' = intakeFaults + 1
  <2>1. CASE Put(r)
    BY <2>1 DEF Put, Proceed
  <2>2. CASE PutFails(r)
    BY <2>2 DEF PutFails, Proceed, IntakeFault
  <2> QED
    BY <2>1, <2>2
<1>2. /\ stage[r] = "putting"
      /\ UNCHANGED <<tables, jobs, upload, filename, draft, lostAcks>>
  BY DEF Put, PutFails
<1>3. k \in Keys /\ k \notin Quarantined /\ k \notin objects /\ \A s \in Requests : key[s] # k
  BY <1>1 DEF FreshKey, FreshKeys
<1>4. IntakeTypeOK'
  <2>1. stage' \in [Requests -> RequestSteps]
    BY <1>1 DEF IntakeInv, IntakeTypeOK
  <2>2. key' \in [Requests -> Keys \cup {Nil}]
    BY <1>1 DEF IntakeInv, IntakeTypeOK
  <2>3. objects' \subseteq Keys /\ intakeFaults' \in Nat
    BY <1>1 DEF IntakeInv, IntakeTypeOK
  <2> QED
    BY <1>2, <2>1, <2>2, <2>3 DEF IntakeInv, IntakeTypeOK
<1>5. /\ stage'[r] = step /\ key'[r] = k
      /\ \A s \in Requests : s # r => stage'[s] = stage[s] /\ key'[s] = key[s]
  BY <1>1 DEF IntakeInv, IntakeTypeOK
<1>6. Quarantined' = Quarantined /\ VersionsDense' /\ \A d \in Keys : VersionRows(d)' = VersionRows(d)
  BY <1>2, RowsKeep
<1>7. KeyOwnership'
  BY <1>1, <1>3, <1>5, <1>6 DEF IntakeInv, KeyOwnership
<1>8. RowsTogether' /\ DraftsNext'
  BY <1>1, <1>2, <1>5, <1>6 DEF IntakeInv, RowsTogether, DraftsNext
<1>9. DanglingTracked'
  <2>1. Doomed' \subseteq Doomed
    BY <1>1, <1>3, <1>5, <1>6 DEF Doomed
  <2> QED
    BY <1>2, <2>1, DoomedKeeps
<1>10. LeaksBounded'
  <2>1. Nil \notin objects
    BY KeysFinite DEF IntakeInv, IntakeTypeOK
  <2>2. key[r] = Nil
    BY <1>2 DEF IntakeInv, KeyOwnership
  <2>3. Leaked' \subseteq Leaked
    BY <1>1, <1>5, <1>6, <2>1, <2>2 DEF Leaked
  <2> QED
    BY <1>1, <2>3, LeaksKeep
<1>11. UsageTracked'
  <2>1. Admitted' \subseteq Admitted
    BY <1>1, <1>2, <1>5 DEF Admitted
  <2> QED
    BY <1>2, <2>1, UsageKeeps
<1> QED
  BY <1>4, <1>6, <1>7, <1>8, <1>9, <1>10, <1>11 DEF IntakeInv

\* The numbers of a document are dense, so the next one is one more than its rows.
LEMMA NextNumber ==
  ASSUME IntakeInv, NEW d \in Keys, document[d] = d
  PROVE  LastVersion(d) = Cardinality(VersionRows(d)) /\ Cardinality(VersionRows(d)) \in Nat
<1> DEFINE n == Cardinality(VersionRows(d))
<1>1. IsFiniteSet(VersionRows(d)) /\ d \in VersionRows(d)
  BY KeysFinite, SubsetSize DEF VersionRows
<1>2. n \in Nat /\ n # 0
  BY <1>1, FS_CardinalityType, FS_EmptySet
<1>3. VersionsOf(d) = 1..n
  BY DEF IntakeInv, VersionsDense
<1> HIDE DEF n
<1>4. n \in VersionsOf(d) /\ \A u \in VersionsOf(d) : u <= n
  BY <1>2, <1>3
<1>5. \A v \in VersionsOf(d) : (\A u \in VersionsOf(d) : u <= v) => v = n
  <2>1. ASSUME NEW v \in VersionsOf(d), \A u \in VersionsOf(d) : u <= v PROVE v = n
    <3>1. n <= v
      BY <1>4, <2>1
    <3>2. v \in 1..n
      BY <1>3
    <3> QED
      BY <1>2, <3>1, <3>2
  <2> QED
    BY <2>1
<1>6. LastVersion(d) = n
  BY <1>4, <1>5 DEF LastVersion
<1> QED
  BY <1>2, <1>6 DEF n

\* The request draws the next number of its document.
LEMMA ReadForCreateKeeps ==
  ASSUME IntakeInv, NEW r \in Requests, ReadForCreate(r)
  PROVE  IntakeInv'
<1> DEFINE same == NamedDocuments(filename[r])
<1>1. /\ stage[r] = "creating" /\ stage' = [stage EXCEPT ![r] = "committing"]
      /\ UNCHANGED <<tables, jobs, objects, upload, filename, key, intakeFaults, lostAcks>>
  BY DEF ReadForCreate, Proceed
<1>2. PICK d \in IF same = {} THEN {key[r]} ELSE {k \in same : \A l \in same : born[k] <= born[l]} :
        draft' = [draft EXCEPT ![r] = [document |-> d,
                                       version |-> IF same = {} THEN 1 ELSE LastVersion(d) + 1,
                                       newPending |-> ~pending]]
  BY DEF ReadForCreate
<1> DEFINE v == IF same = {} THEN 1 ELSE LastVersion(d) + 1
<1>3. d \in Keys /\ v \in Nat /\ v \in 1..(Cardinality(VersionRows(d)) + 1)
  <2>1. CASE same = {}
    <3>1. d \in Keys /\ v = 1
      BY <1>1, <1>2, <2>1 DEF IntakeInv, KeyOwnership
    <3>2. IsFiniteSet(VersionRows(d)) /\ Cardinality(VersionRows(d)) \in Nat
      BY KeysFinite, SubsetSize DEF VersionRows
    <3> HIDE DEF v
    <3> QED
      BY <3>1, <3>2
  <2>2. CASE same # {}
    <3>1. d \in same /\ v = LastVersion(d) + 1
      BY <1>2, <2>2
    <3>2. filename[r] \in Names /\ Nil \notin Names
      BY <1>1, IntakeAssumption DEF IntakeInv, RowsTogether
    <3>3. d \in Keys /\ document[d] = d
      BY <3>1, <3>2 DEF NamedDocuments, IntakeInv, RowsTogether
    <3>4. LastVersion(d) = Cardinality(VersionRows(d)) /\ Cardinality(VersionRows(d)) \in Nat
      BY <3>3, NextNumber
    <3> HIDE DEF v
    <3> QED
      BY <3>1, <3>3, <3>4
  <2> QED
    BY <2>1, <2>2
<1> DEFINE drawn == [document |-> d, version |-> v, newPending |-> ~pending]
<1>4. draft' = [draft EXCEPT ![r] = drawn]
  BY <1>2
<1> HIDE DEF v
<1>5. /\ drawn \in [document : Keys \cup {Nil}, version : Nat, newPending : BOOLEAN]
      /\ drawn.document = d /\ drawn.version = v
  BY <1>3 DEF IntakeInv, IntakeTypeOK
<1> HIDE DEF drawn
<1>6. IntakeTypeOK'
  <2>1. stage' \in [Requests -> RequestSteps]
    BY <1>1 DEF IntakeInv, IntakeTypeOK
  <2>2. draft' \in [Requests -> [document : Keys \cup {Nil}, version : Nat, newPending : BOOLEAN]]
    BY <1>4, <1>5 DEF IntakeInv, IntakeTypeOK
  <2> QED
    BY <1>1, <2>1, <2>2 DEF IntakeInv, IntakeTypeOK
<1>7. /\ stage'[r] = "committing" /\ draft'[r] = drawn
      /\ \A s \in Requests : s # r => stage'[s] = stage[s] /\ draft'[s] = draft[s]
  BY <1>1, <1>4 DEF IntakeInv, IntakeTypeOK
<1>8. Quarantined' = Quarantined /\ \A e \in Keys : VersionRows(e)' = VersionRows(e)
  BY <1>1, RowsKeep
<1>9. KeyOwnership' /\ RowsTogether'
  BY <1>1, <1>7, <1>8 DEF IntakeInv, KeyOwnership, RowsTogether
<1>10. DraftsNext'
  <2>1. ASSUME NEW s \in Requests, stage'[s] = "committing"
        PROVE  /\ draft'[s].document \in Keys
               /\ draft'[s].version \in 1..(Cardinality(VersionRows(draft'[s].document)) + 1)
    <3>1. CASE s = r
      BY <1>3, <1>5, <1>7, <3>1
    <3>2. CASE s # r
      BY <1>7, <2>1, <3>2 DEF IntakeInv, DraftsNext
    <3> QED
      BY <3>1, <3>2
  <2> QED
    BY <1>8, <2>1 DEF DraftsNext
<1> QED
  BY <1>1, <1>6, <1>7, <1>9, <1>10, LocalKeeps

-----------------------------------------------------------------------------
(* The insert.                                                             *)

\* What the insert knows: the key is new, and the document and number are drawn.
LEMMA InsertFacts ==
  ASSUME IntakeInv, NEW r \in Requests, stage[r] = "committing", Insert(r)
  PROVE  /\ key[r] \in Keys /\ key[r] \in objects /\ key[r] \notin Quarantined
         /\ content[key[r]] = Nil /\ document[key[r]] = Nil /\ name[key[r]] = Nil
         /\ upload[r] \in Contents /\ filename[r] \in Names
         /\ draft[r].document \in Keys /\ draft[r].version \in Nat
         /\ Quarantined' = Quarantined \cup {key[r]}
         /\ content'[key[r]] = upload[r]
         /\ \A k \in Keys : k # key[r] => content'[k] = content[k]
<1>1. key[r] \in Keys /\ key[r] \in objects /\ key[r] \notin Quarantined
  BY DEF IntakeInv, KeyOwnership
<1>2. content[key[r]] = Nil
  BY <1>1 DEF Quarantined
<1>3. document[key[r]] = Nil
  BY <1>1, <1>2 DEF IntakeInv, RowsTogether
<1>4. name[key[r]] = Nil
  BY <1>1, <1>3, KeysFinite DEF IntakeInv, RowsTogether
<1>5. upload[r] \in Contents /\ filename[r] \in Names
  BY DEF IntakeInv, RowsTogether
<1>6. draft[r].document \in Keys /\ draft[r].version \in Nat
  BY DEF IntakeInv, IntakeTypeOK, DraftsNext
<1>7. content' = [content EXCEPT ![key[r]] = upload[r]]
  BY DEF Insert
<1>8. content'[key[r]] = upload[r] /\ \A k \in Keys : k # key[r] => content'[k] = content[k]
  BY <1>1, <1>7 DEF IntakeInv, IntakeTypeOK
<1>9. upload[r] # Nil
  BY <1>5, IntakeAssumption
<1>10. Quarantined' = Quarantined \cup {key[r]}
  BY <1>1, <1>8, <1>9 DEF Quarantined
<1> QED
  BY <1>1, <1>2, <1>3, <1>4, <1>5, <1>6, <1>8, <1>10

\* The unique constraint admits only the next number.
LEMMA InsertNumbers ==
  ASSUME IntakeInv, NEW r \in Requests, stage[r] = "committing", NoConflict(r), Insert(r)
  PROVE  /\ VersionsDense'
         /\ \A d \in Keys : /\ Cardinality(VersionRows(d)) \in Nat
                            /\ Cardinality(VersionRows(d)') \in Nat
                            /\ Cardinality(VersionRows(d)) <= Cardinality(VersionRows(d)')
<1> DEFINE k == key[r]
<1> DEFINE e == draft[r].document
<1> DEFINE v == draft[r].version
<1>1. k \in Keys /\ document[k] = Nil /\ e \in Keys /\ v \in Nat
  BY InsertFacts
<1>2. document' = [document EXCEPT ![k] = e] /\ version' = [version EXCEPT ![k] = v]
  BY DEF Insert
<1>3. /\ document'[k] = e /\ version'[k] = v
      /\ \A j \in Keys : j # k => document'[j] = document[j] /\ version'[j] = version[j]
  BY <1>1, <1>2 DEF IntakeInv, IntakeTypeOK
<1>4. v \in 1..(Cardinality(VersionRows(e)) + 1) /\ v \notin VersionsOf(e)
  BY DEF IntakeInv, DraftsNext, NoConflict
<1> HIDE DEF k, e, v
<1>5. \A d \in Keys : IsFiniteSet(VersionRows(d)) /\ Cardinality(VersionRows(d)) \in Nat
                      /\ IsFiniteSet(VersionRows(d)') /\ Cardinality(VersionRows(d)') \in Nat
  BY KeysFinite, SubsetSize DEF VersionRows
<1>6. \A d \in Keys : VersionsOf(d) = 1..Cardinality(VersionRows(d))
  BY DEF IntakeInv, VersionsDense
<1>7. ASSUME NEW d \in Keys
      PROVE  /\ VersionsOf(d)' = 1..Cardinality(VersionRows(d)')
             /\ Cardinality(VersionRows(d)) <= Cardinality(VersionRows(d)')
  <2> DEFINE n == Cardinality(VersionRows(d))
  <2>1. k \notin VersionRows(d)
    BY <1>1, KeysFinite DEF VersionRows
  <2>2. CASE d # e
    <3>1. VersionRows(d)' = VersionRows(d)
      BY <1>1, <1>3, <2>2, KeysFinite DEF VersionRows
    <3>2. VersionsOf(d)' = VersionsOf(d)
      BY <1>3, <2>1, <3>1 DEF VersionsOf, VersionRows
    <3> QED
      BY <1>5, <1>6, <3>1, <3>2
  <2>3. CASE d = e
    <3>1. VersionRows(d)' = VersionRows(d) \cup {k}
      BY <1>1, <1>3, <2>3 DEF VersionRows
    <3>2. VersionsOf(d)' = VersionsOf(d) \cup {v}
      <4>1. \A j \in VersionRows(d) : j \in Keys /\ j # k /\ version'[j] = version[j]
        BY <1>3, <2>1 DEF VersionRows
      <4> QED
        BY <1>3, <3>1, <4>1 DEF VersionsOf
    <3>3. Cardinality(VersionRows(d)') = n + 1
      BY <1>5, <2>1, <3>1, FS_AddElement
    <3>4. n \in Nat /\ VersionsOf(d) = 1..n /\ v \in 1..(n + 1) /\ v \notin VersionsOf(d)
      BY <1>4, <1>5, <1>6, <2>3
    <3> HIDE DEF n
    <3>5. v = n + 1
      BY <3>4
    <3>6. (1..n) \cup {n + 1} = 1..(n + 1)
      BY <3>4
    <3>7. VersionsOf(d)' = 1..(n + 1)
      BY <3>2, <3>4, <3>5, <3>6
    <3> QED
      BY <3>3, <3>4, <3>7 DEF n
  <2> QED
    BY <2>2, <2>3
<1> QED
  BY <1>5, <1>7 DEF VersionsDense

\* The insert moves one upload, with its bytes, from the admitted to the stored.
LEMMA InsertUsage ==
  ASSUME IntakeInv, NEW r \in Requests, stage[r] = "committing", Insert(r), upload' = upload,
         NEW step, step \in {"enqueueing", "deleting"}, stage' = [stage EXCEPT ![r] = step]
  PROVE  UsageTracked'
<1> DEFINE racing == Cardinality(Requests) - 1
<1> DEFINE c == upload[r]
<1> DEFINE own == BytesOf(r, c)
<1> DEFINE stored == BytesOf(key[r], c)
<1>1. stage'[r] = step /\ \A s \in Requests : s # r => stage'[s] = stage[s]
  BY DEF IntakeInv, IntakeTypeOK
<1>2. /\ key[r] \in Keys /\ key[r] \notin Quarantined /\ c \in Contents
      /\ Quarantined' = Quarantined \cup {key[r]} /\ content'[key[r]] = c
      /\ \A k \in Keys : k # key[r] => content'[k] = content[k]
  BY InsertFacts
<1>3. IsFiniteSet(Quarantined) /\ Cardinality(Quarantined) \in Nat
  BY KeysFinite, SubsetSize DEF Quarantined
<1>4. Cardinality(Quarantined') = Cardinality(Quarantined) + 1
  BY <1>2, <1>3, FS_AddElement
<1>5. r \in Admitted /\ Admitted' = Admitted \ {r}
  BY <1>1 DEF Admitted
<1>6. IsFiniteSet(Admitted) /\ Cardinality(Admitted) \in Nat
  BY IntakeAssumption, SubsetSize DEF Admitted
<1>7. Cardinality(Admitted') = Cardinality(Admitted) - 1
  BY <1>5, <1>6, FS_RemoveElement
<1>8. /\ IsFiniteSet(own) /\ Cardinality(own) = SizeOf(c)
      /\ IsFiniteSet(stored) /\ Cardinality(stored) = SizeOf(c) /\ SizeOf(c) \in Nat
  BY <1>2, BytesSize, IntakeAssumption
<1>9. /\ IsFiniteSet(StoredBytes) /\ Cardinality(StoredBytes) \in Nat
      /\ IsFiniteSet(AdmittedBytes) /\ Cardinality(AdmittedBytes) \in Nat
  BY BytesFinite DEF IntakeInv
<1>10. StoredBytes' = StoredBytes \cup stored
  <2>1. \A k \in Quarantined : k \in Keys /\ k # key[r] /\ content'[k] = content[k]
    BY <1>2 DEF Quarantined
  <2> HIDE DEF c
  <2>2. StoredBytes' = UNION {BytesOf(k, content'[k]) : k \in Quarantined'}
    BY DEF StoredBytes, BytesOf
  <2> QED
    BY <1>2, <2>1, <2>2 DEF StoredBytes
<1>11. /\ IsFiniteSet(StoredBytes \cup stored)
       /\ Cardinality(StoredBytes \cup stored)
            = Cardinality(StoredBytes) + Cardinality(stored) - Cardinality(StoredBytes \cap stored)
  BY <1>8, <1>9, FS_Union
<1>12. Cardinality(StoredBytes \cap stored) \in Nat
  BY <1>8, SubsetSize
<1>13. UsedBytes' \in Nat /\ UsedBytes' <= UsedBytes + SizeOf(c)
  <2>1. UsedBytes' = Cardinality(StoredBytes \cup stored)
    BY <1>10 DEF UsedBytes
  <2>2. Cardinality(StoredBytes \cup stored) \in Nat
    BY <1>11, FS_CardinalityType
  <2> HIDE DEF stored, c
  <2> QED
    BY <1>8, <1>9, <1>11, <1>12, <2>1, <2>2 DEF UsedBytes
<1>14. AdmittedBytes' \cup own = AdmittedBytes /\ AdmittedBytes' \cap own = {}
  <2>1. AdmittedBytes' = UNION {BytesOf(s, upload[s]) : s \in Admitted \ {r}}
    BY <1>5 DEF AdmittedBytes
  <2>2. AdmittedBytes' \cup own = AdmittedBytes
    BY <1>5, <2>1 DEF AdmittedBytes
  <2>3. \A s \in Admitted \ {r} : BytesOf(s, upload[s]) \cap own = {}
    BY DEF BytesOf
  <2> QED
    BY <2>1, <2>2, <2>3
<1>15. /\ IsFiniteSet(AdmittedBytes') /\ Cardinality(AdmittedBytes') \in Nat
  BY <1>9, <1>14, SubsetSize
<1>16. Cardinality(AdmittedBytes) = Cardinality(AdmittedBytes') + SizeOf(c)
  <2>1. Cardinality(AdmittedBytes' \cup own)
          = Cardinality(AdmittedBytes') + Cardinality(own) - Cardinality(AdmittedBytes' \cap own)
    BY <1>8, <1>15, FS_Union
  <2>2. Cardinality({}) = 0
    BY FS_EmptySet
  <2>3. Cardinality(AdmittedBytes) = Cardinality(AdmittedBytes') + Cardinality(own) - 0
    BY <1>14, <2>1, <2>2, Zenon
  <2> HIDE DEF own, c
  <2> QED
    BY <1>8, <1>15, <2>3
<1>17. racing \in Int /\ MaxFiles \in Nat /\ MaxBytes \in Nat /\ MaxRaw \in Nat
  BY IntakeAssumption, FS_CardinalityType
<1>18. /\ Cardinality(Quarantined) + Cardinality(Admitted) <= MaxFiles + racing
       /\ UsedBytes + Cardinality(AdmittedBytes) <= MaxBytes + racing * MaxRaw
  BY DEF IntakeInv, UsageTracked
<1> DEFINE total == racing * MaxRaw
<1>19. total \in Int
  BY <1>17
<1> HIDE DEF total, racing, c, own, stored
<1>20. Cardinality(Quarantined') + Cardinality(Admitted') <= MaxFiles + racing
  BY <1>3, <1>4, <1>6, <1>7, <1>17, <1>18
<1>21. UsedBytes' + Cardinality(AdmittedBytes') <= MaxBytes + total
  <2>1. UsedBytes \in Nat
    BY <1>9 DEF UsedBytes
  <2>2. UsedBytes + Cardinality(AdmittedBytes) <= MaxBytes + total
    BY <1>18 DEF total
  <2> QED
    BY <1>8, <1>13, <1>15, <1>16, <1>17, <1>19, <2>1, <2>2
<1> QED
  BY <1>20, <1>21 DEF UsageTracked, total, racing

\* The rows are stored: with the acknowledgement the key becomes the intake's;
\* without it the intake is doomed, and counted as such.
LEMMA InsertKeeps ==
  ASSUME IntakeInv, NEW r \in Requests, stage[r] = "committing", NoConflict(r), Insert(r),
         UNCHANGED <<jobs, objects, locals>>,
         NEW step, stage' = [stage EXCEPT ![r] = step],
         \/ step = "enqueueing" /\ intakeFaults' = intakeFaults /\ lostAcks' = lostAcks
         \/ step = "deleting" /\ intakeFaults' = intakeFaults + 1 /\ lostAcks' = lostAcks + 1
  PROVE  IntakeInv'
<1>1. stage'[r] = step /\ \A s \in Requests : s # r => stage'[s] = stage[s]
  BY DEF IntakeInv, IntakeTypeOK
<1>2. /\ key[r] \in Keys /\ key[r] \in objects /\ key[r] \notin Quarantined
      /\ content[key[r]] = Nil /\ document[key[r]] = Nil /\ name[key[r]] = Nil
      /\ upload[r] \in Contents /\ filename[r] \in Names
      /\ draft[r].document \in Keys /\ draft[r].version \in Nat
      /\ Quarantined' = Quarantined \cup {key[r]}
      /\ content'[key[r]] = upload[r]
      /\ \A k \in Keys : k # key[r] => content'[k] = content[k]
  BY InsertFacts
<1>3. /\ content' = [content EXCEPT ![key[r]] = upload[r]]
      /\ document' = [document EXCEPT ![key[r]] = draft[r].document]
      /\ version' = [version EXCEPT ![key[r]] = draft[r].version]
      /\ born' = [born EXCEPT ![key[r]] = Cardinality(Quarantined)]
      /\ pending' = TRUE
  BY DEF Insert
<1>4. name' = IF draft[r].document = key[r] THEN [name EXCEPT ![key[r]] = filename[r]] ELSE name
  BY DEF Insert
<1>5. IntakeTypeOK'
  <2>1. stage' \in [Requests -> RequestSteps] /\ intakeFaults' \in Nat /\ lostAcks' \in Nat
    BY DEF IntakeInv, IntakeTypeOK
  <2>2. Cardinality(Quarantined) \in Nat
    BY KeysFinite, SubsetSize DEF Quarantined
  <2>3. content' \in [Keys -> Contents \cup {Nil}]
    BY <1>2, <1>3 DEF IntakeInv, IntakeTypeOK
  <2>4. document' \in [Keys -> Keys \cup {Nil}]
    BY <1>2, <1>3 DEF IntakeInv, IntakeTypeOK
  <2>5. version' \in [Keys -> Nat]
    BY <1>2, <1>3 DEF IntakeInv, IntakeTypeOK
  <2>6. born' \in [Keys -> Nat]
    BY <1>2, <1>3, <2>2 DEF IntakeInv, IntakeTypeOK
  <2>7. name' \in [Keys -> Names \cup {Nil}]
    BY <1>2, <1>4 DEF IntakeInv, IntakeTypeOK
  <2> QED
    BY <1>3, <2>1, <2>3, <2>4, <2>5, <2>6, <2>7 DEF IntakeInv, IntakeTypeOK
<1>6. KeyOwnership'
  <2>1. ASSUME NEW s \in Requests, s # r, stage[s] \in {"creating", "committing"}
        PROVE  key[s] # key[r]
    BY <2>1 DEF IntakeInv, KeyOwnership
  <2> QED
    BY <1>1, <1>2, <2>1 DEF IntakeInv, KeyOwnership
<1>7. RowsTogether'
  <2>1. /\ document'[key[r]] = draft[r].document
        /\ \A k \in Keys : k # key[r] => document'[k] = document[k]
    BY <1>2, <1>3 DEF IntakeInv, IntakeTypeOK
  <2>2. /\ name'[key[r]] # Nil => draft[r].document = key[r]
        /\ \A k \in Keys : k # key[r] => name'[k] = name[k]
    BY <1>2, <1>4 DEF IntakeInv, IntakeTypeOK
  <2>3. Nil \notin Keys /\ Nil \notin Contents
    BY KeysFinite, IntakeAssumption
  <2>4. SizeOf(upload[r]) <= MaxRaw
    BY DEF IntakeInv, RowsTogether
  <2>5. \A s \in Requests : stage'[s] # "idle" => upload'[s] \in Contents /\ filename'[s] \in Names
    BY <1>1, <1>2 DEF IntakeInv, RowsTogether
  <2>6. \A s \in Requests : stage'[s] \notin {"idle", "rejecting"} => SizeOf(upload'[s]) <= MaxRaw
    BY <1>1, <2>4 DEF IntakeInv, RowsTogether
  <2>7. \A k \in Quarantined' : SizeOf(content'[k]) <= MaxRaw
    <3>1. ASSUME NEW k \in Quarantined' PROVE SizeOf(content'[k]) <= MaxRaw
      <4>1. CASE k = key[r]
        BY <1>2, <2>4, <4>1
      <4>2. CASE k # key[r]
        <5>1. k \in Quarantined /\ k \in Keys
          BY <1>2, <4>2 DEF Quarantined
        <5> QED
          BY <1>2, <4>2, <5>1 DEF IntakeInv, RowsTogether
      <4> QED
        BY <4>1, <4>2
    <3> QED
      BY <3>1
  <2>8. \A k \in Keys : content'[k] # Nil <=> document'[k] # Nil
    BY <1>2, <2>1, <2>3 DEF IntakeInv, RowsTogether
  <2>9. \A k \in Keys : name'[k] # Nil => document'[k] = k
    BY <1>2, <2>1, <2>2 DEF IntakeInv, RowsTogether
  <2> QED
    BY <2>5, <2>6, <2>7, <2>8, <2>9 DEF RowsTogether
<1>8. /\ VersionsDense'
      /\ \A d \in Keys : /\ Cardinality(VersionRows(d)) \in Nat
                         /\ Cardinality(VersionRows(d)') \in Nat
                         /\ Cardinality(VersionRows(d)) <= Cardinality(VersionRows(d)')
  BY InsertNumbers
<1>9. DraftsNext'
  <2>1. ASSUME NEW s \in Requests, stage'[s] = "committing", NEW d, d = draft[s].document
        PROVE  d \in Keys /\ draft[s].version \in 1..(Cardinality(VersionRows(d)') + 1)
    <3>1. stage[s] = "committing"
      BY <1>1, <2>1
    <3>2. d \in Keys /\ draft[s].version \in 1..(Cardinality(VersionRows(d)) + 1)
      BY <2>1, <3>1 DEF IntakeInv, DraftsNext
    <3> QED
      BY <1>8, <3>2
  <2> QED
    BY <2>1 DEF DraftsNext
<1>10. LeaksBounded'
  <2>1. Leaked' \subseteq Leaked
    BY <1>2 DEF Leaked
  <2> QED
    BY <2>1, LeaksKeep
<1>11. DanglingTracked'
  <2>1. CASE step = "enqueueing"
    <3>1. \A s \in Requests : stage'[s] = "deleting" => stage[s] = "deleting" /\ key[s] # key[r]
      BY <1>1, <2>1 DEF IntakeInv, KeyOwnership
    <3>2. Doomed' \subseteq Doomed
      BY <1>2, <3>1 DEF Doomed
    <3>3. lostAcks' = lostAcks
      BY <2>1
    <3> QED
      BY <3>2, <3>3, DoomedKeeps
  <2>2. CASE step = "deleting"
    <3>1. Doomed' \subseteq Doomed \cup {key[r]}
      BY <1>1, <1>2 DEF Doomed
    <3>2. IsFiniteSet(Doomed) /\ Cardinality(Doomed) \in Nat
      BY KeysFinite, SubsetSize DEF Doomed, Quarantined
    <3>3. Cardinality(Doomed') <= Cardinality(Doomed) + 1
      BY <3>1, <3>2, OneMoreSize
    <3>4. IsFiniteSet(Doomed \cup {key[r]})
      BY <3>2, FS_AddElement
    <3>5. Cardinality(Doomed') \in Nat
      BY <3>1, <3>4, SubsetSize
    <3>6. Cardinality(Doomed) <= lostAcks /\ lostAcks \in Nat /\ lostAcks' = lostAcks + 1
      BY <2>2 DEF IntakeInv, IntakeTypeOK, DanglingTracked
    <3> QED
      BY <3>2, <3>3, <3>5, <3>6 DEF DanglingTracked
  <2> QED
    BY <2>1, <2>2
<1>12. UsageTracked'
  BY InsertUsage
<1> QED
  BY <1>5, <1>6, <1>7, <1>8, <1>9, <1>10, <1>11, <1>12 DEF IntakeInv

\* The transaction commits, with or without its acknowledgement, or conflicts.
LEMMA CommitKeeps ==
  ASSUME IntakeInv, NEW r \in Requests, CommitCreate(r) \/ CreateAckLost(r) \/ CreateUnavailable(r)
  PROVE  IntakeInv'
<1>1. CASE CommitCreate(r) /\ NoConflict(r)
  <2>1. /\ stage[r] = "committing" /\ NoConflict(r) /\ Insert(r)
        /\ stage' = [stage EXCEPT ![r] = "enqueueing"]
        /\ UNCHANGED <<jobs, objects, locals>> /\ intakeFaults' = intakeFaults /\ lostAcks' = lostAcks
    BY <1>1 DEF CommitCreate, Proceed
  <2> QED
    BY <2>1, InsertKeeps
<1>2. CASE CommitCreate(r) /\ ~NoConflict(r)
  <2>1. /\ stage[r] = "committing" /\ stage' = [stage EXCEPT ![r] = "deleting"]
        /\ UNCHANGED <<tables, jobs, objects, locals, lostAcks>> /\ intakeFaults' = intakeFaults
    BY <1>2 DEF CommitCreate, Proceed
  <2> QED
    BY <2>1, ToDeletingKeeps
<1>3. CASE CreateAckLost(r)
  <2>1. /\ stage[r] = "committing" /\ NoConflict(r) /\ Insert(r)
        /\ stage' = [stage EXCEPT ![r] = "deleting"]
        /\ UNCHANGED <<jobs, objects, locals>>
        /\ intakeFaults' = intakeFaults + 1 /\ lostAcks' = lostAcks + 1
    BY <1>3 DEF CreateAckLost, Proceed, IntakeFault
  <2> QED
    BY <2>1, InsertKeeps
<1>4. CASE CreateUnavailable(r)
  <2>1. /\ stage[r] \in {"creating", "committing"} /\ stage' = [stage EXCEPT ![r] = "deleting"]
        /\ UNCHANGED <<tables, jobs, objects, locals, lostAcks>> /\ intakeFaults' = intakeFaults + 1
    BY <1>4 DEF CreateUnavailable, Proceed, IntakeFault
  <2> QED
    BY <2>1, ToDeletingKeeps
<1> QED
  BY <1>1, <1>2, <1>3, <1>4

-----------------------------------------------------------------------------
(* The theorems.                                                           *)

\* Every step keeps the invariant.
LEMMA NextKeeps == IntakeInv /\ [IntakeNext]_intakeVars => IntakeInv'
<1> SUFFICES ASSUME IntakeInv, [IntakeNext]_intakeVars PROVE IntakeInv'
  OBVIOUS
<1>1. CASE UNCHANGED intakeVars
  <2>1. UNCHANGED <<content, document, version, name, born, pending, jobs, objects, stage, upload,
                    filename, key, draft, intakeFaults, lostAcks>>
    BY <1>1 DEF intakeVars
  <2>2. Quarantined' = Quarantined /\ Leaked' = Leaked /\ Doomed' = Doomed /\ Admitted' = Admitted
    BY <2>1 DEF Quarantined, Leaked, Doomed, Admitted
  <2>3. VersionsDense' /\ \A d \in Keys : VersionRows(d)' = VersionRows(d)
    BY <2>1, RowsKeep
  <2>4. IntakeTypeOK' /\ KeyOwnership' /\ RowsTogether' /\ DraftsNext'
    BY <2>1, <2>2, <2>3 DEF IntakeInv, IntakeTypeOK, KeyOwnership, RowsTogether, DraftsNext
  <2>5. DanglingTracked' /\ LeaksBounded'
    BY <2>1, <2>2 DEF IntakeInv, DanglingTracked, LeaksBounded
  <2>6. UsageTracked'
    BY <2>1, <2>2, UsageKeeps
  <2> QED
    BY <2>3, <2>4, <2>5, <2>6 DEF IntakeInv
<1>2. ASSUME NEW r \in Requests,
             \/ \E n \in Names, c \in Contents : Receive(r, n, c)
             \/ Step(r)
             \/ IntakeFailure(r)
      PROVE  IntakeInv'
  <2>1. CASE \E n \in Names, c \in Contents : Receive(r, n, c)
    BY <2>1, ReceiveKeeps
  <2>2. CASE Step(r)
    BY <2>2, RecordRejectionKeeps, FindHashKeeps, CountUsageKeeps, PutKeeps, ReadForCreateKeeps,
       CommitKeeps, DeleteKeeps, EnqueueKeeps DEF Step
  <2>3. CASE IntakeFailure(r)
    BY <2>3, PutKeeps, CommitKeeps, FaultKeeps DEF IntakeFailure
  <2> QED
    BY <1>2, <2>1, <2>2, <2>3
<1> QED
  BY <1>1, <1>2 DEF IntakeNext

\* The inductive invariant of document intake holds in every behaviour of receive.
THEOREM Invariance == IntakeSpec => []IntakeInv
<1> QED
  BY InitHolds, NextKeeps, PTL DEF IntakeSpec

\* The tables, the bucket and the locals of receive keep their types.
THEOREM TypeCorrectness == IntakeSpec => []IntakeTypeOK
<1>1. IntakeInv => IntakeTypeOK
  BY DEF IntakeInv
<1> QED
  BY <1>1, Invariance, PTL

\* create_quarantined numbers the versions of a document 1 .. n: the unique
\* constraint turns down every number but the next one, whoever drew it.
THEOREM DenseVersions == IntakeSpec => []VersionsDense
<1>1. IntakeInv => VersionsDense
  BY DEF IntakeInv
<1> QED
  BY <1>1, Invariance, PTL

\* receive loses the object of a stored intake only when an acknowledgement of
\* create_quarantined was lost.
THEOREM DanglingOnlyByLostAck == IntakeSpec => []DanglingBounded
<1>1. IntakeInv => DanglingBounded
  <2> SUFFICES ASSUME IntakeInv PROVE DanglingBounded
    OBVIOUS
  <2>1. Quarantined \ objects \subseteq Doomed
    BY DEF Doomed
  <2>2. IsFiniteSet(Doomed)
    BY KeysFinite, SubsetSize DEF Doomed, Quarantined
  <2>3. /\ Cardinality(Quarantined \ objects) \in Nat /\ Cardinality(Doomed) \in Nat
        /\ Cardinality(Quarantined \ objects) <= Cardinality(Doomed)
    BY <2>1, <2>2, SubsetSize
  <2> QED
    BY <2>3 DEF IntakeInv, IntakeTypeOK, DanglingTracked, DanglingBounded
<1> QED
  BY <1>1, Invariance, PTL

\* receive leaves an orphaned quarantine object behind only when a fault ends a
\* request between the put and the answer.
THEOREM LeaksOnlyByFaults == IntakeSpec => []LeaksBounded
<1>1. IntakeInv => LeaksBounded
  BY DEF IntakeInv
<1> QED
  BY <1>1, Invariance, PTL

\* receive overshoots the project's file and byte limits by at most one upload
\* for every other request that races with the count.
THEOREM QuotaOvershoot == IntakeSpec => []OvershootBounded
<1>1. IntakeInv => OvershootBounded
  <2> SUFFICES ASSUME IntakeInv PROVE OvershootBounded
    OBVIOUS
  <2> DEFINE racing == Cardinality(Requests) - 1
  <2> DEFINE total == racing * MaxRaw
  <2>1. /\ Cardinality(Quarantined) + Cardinality(Admitted) <= MaxFiles + racing
        /\ UsedBytes + Cardinality(AdmittedBytes) <= MaxBytes + total
    BY DEF IntakeInv, UsageTracked
  <2>2. Cardinality(Quarantined) \in Nat /\ Cardinality(Admitted) \in Nat
    BY KeysFinite, IntakeAssumption, SubsetSize DEF Quarantined, Admitted
  <2>3. UsedBytes \in Nat /\ Cardinality(AdmittedBytes) \in Nat
    BY BytesFinite DEF IntakeInv, UsedBytes
  <2>4. racing \in Int /\ total \in Int /\ MaxFiles \in Nat /\ MaxBytes \in Nat
    BY IntakeAssumption, FS_CardinalityType
  <2> HIDE DEF racing, total
  <2>5. Cardinality(Quarantined) <= MaxFiles + racing /\ UsedBytes <= MaxBytes + total
    BY <2>1, <2>2, <2>3, <2>4
  <2> QED
    BY <2>5 DEF OvershootBounded, racing, total
<1> QED
  BY <1>1, Invariance, PTL

=============================================================================
