---------------------- MODULE EvaluationReviews_proofs ----------------------
(***************************************************************************)
(* Proofs about EvaluationReviews, for any sets of reviewers, versions,    *)
(* contents, paths and callers, and without the bounds of the runs.        *)
(***************************************************************************)
EXTENDS EvaluationReviews, WellFoundedInduction, TLAPS

-----------------------------------------------------------------------------
(* The inductive invariant.                                                *)

\* The labels a row is linked to have the right roles and other authors.
LinksOK(row) ==
    /\ row.role = "independent" =>
          /\ row.primary \in OfRole("primary")
          /\ row.reviewer # labels[row.primary].reviewer
    /\ row.role = "adjudicated" =>
          /\ row.independent \in OfRole("independent")
          /\ row.primary = labels[row.independent].primary
          /\ row.reviewer # labels[row.primary].reviewer
          /\ row.reviewer # labels[row.independent].reviewer

\* A row is the first of its chain or changes the revision before it.
ChainOK(row) ==
    IF row.revision = 1 THEN row.parent = 0
    ELSE /\ row.parent \in LabelIds
         /\ labels[row.parent].role = row.role
         /\ labels[row.parent].revision = row.revision - 1
         /\ labels[row.parent].content # row.content

RowsInv ==
    \A k \in LabelIds :
        /\ LinksOK(labels[k])
        /\ ChainOK(labels[k])
        /\ labels[k].parent < k
        /\ labels[k].revision \in 1..k

RevisionsUnique ==
    \A j, k \in LabelIds :
        (labels[j].role = labels[k].role /\ labels[j].revision = labels[k].revision) => j = k

\* The paths of S are the first of the differences of the comparison i: what an
\* interrupted recording leaves.
Initial(S, i) ==
    /\ S \subseteq PairDiffers(i)
    /\ \A p \in S, q \in PairDiffers(i) : q < p => q \in S

StoredInv == \A i \in OfRole("independent") : Initial(Stored(i), i)

\* A disagreement has one adjudication, made for its comparison.
AdjudicatedInv ==
    /\ \A i, l, m \in LabelIds, p \in Paths :
          <<i, p, l>> \in adjudications /\ <<i, p, m>> \in adjudications => l = m
    /\ \A i, l \in LabelIds, p \in Paths :
          <<i, p, l>> \in adjudications =>
             labels[l].role = "adjudicated" /\ labels[l].independent = i

\* An adjudicated label returned as final decides the first material difference
\* of its comparison: every listing that has a material one has that one.
DecidesFirst(i, l) ==
    /\ PairDiffers(i) \cap Material # {}
    /\ \A p \in PairDiffers(i) \cap Material :
          (\A q \in PairDiffers(i) \cap Material : p <= q) => <<i, p, l>> \in adjudications

ApprovedInv ==
    \A i, l \in LabelIds :
        <<i, l>> \in approved =>
           /\ i \in OfRole("independent")
           /\ labels[l].role = "adjudicated" => DecidesFirst(i, l)

\* What a caller has read stays true until its next step.
CallOK(x) ==
    /\ x.pc \in {"packet", "unadjudicated", "compose", "insert"} => x.draft \in LabelRows
    /\ x.pc = "packet" => x.draft.role = "independent" /\ x.draft.primary \in OfRole("primary")
    /\ x.pc = "unadjudicated" => x.draft.role = "adjudicated"
    /\ x.pc \in {"unadjudicated", "compose", "insert"} =>
          LinksOK(x.draft) /\ (x.draft.role = "adjudicated" => x.pair = x.draft.independent)
    /\ x.pc = "insert" => ChainOK(x.draft) /\ x.draft.revision # 0
    /\ x.pc = "resolve" =>
          /\ x.made \in OfRole("adjudicated")
          /\ labels[x.made].independent = x.pair
    /\ x.pc \in {"record", "resolve", "final"} => x.pair \in OfRole("independent")
    /\ x.pc = "record" =>
          /\ x.paths \subseteq PairDiffers(x.pair)
          /\ x.found = PairDiffers(x.pair) \ x.paths
          /\ x.found \subseteq Stored(x.pair)
    /\ x.pc = "final" => Initial(x.found, x.pair)

CallsInv == \A c \in Clients : CallOK(call[c])

ReviewInv ==
    /\ ReviewTypeOK
    /\ RowsInv
    /\ RevisionsUnique
    /\ StoredInv
    /\ AdjudicatedInv
    /\ ApprovedInv
    /\ CallsInv

-----------------------------------------------------------------------------
(* Least elements, rows and comparisons.                                   *)

\* A set of numbers that is not empty has a least one.
LEMMA LeastNumber ==
    ASSUME NEW S \in SUBSET Nat, S # {}
    PROVE  \E n \in S : \A m \in S : n <= m
<1>1. IsWellFoundedOn(OpToRel(<, Nat), Nat)
    BY NatLessThanWellFounded
<1>2. PICK n \in S : \A m \in S : ~ (<<m, n>> \in OpToRel(<, Nat))
    BY <1>1, WFMin
<1>3. \A m \in S : ~ (m < n)
    BY <1>2 DEF OpToRel
<1> QED
    BY <1>3

\* Min is that least one.
LEMMA MinIsLeast ==
    ASSUME NEW S \in SUBSET Nat, S # {}
    PROVE  Min(S) \in S /\ \A y \in S : Min(S) <= y
BY LeastNumber DEF Min

\* Rows are named by their positions.
LEMMA RowIds ==
    ASSUME ReviewTypeOK
    PROVE  /\ LabelIds = 1..Len(labels) /\ Len(labels) \in Nat
           /\ \A k \in LabelIds : labels[k] \in LabelRows /\ k \in Nat
BY DEF ReviewTypeOK, LabelIds

\* The fields of a row.
LEMMA RowFields ==
    ASSUME NEW row \in LabelRows
    PROVE  /\ row.role \in Roles /\ row.reviewer \in Reviewers /\ row.version \in Versions
           /\ row.content \in Contents /\ row.revision \in Nat /\ row.parent \in Nat
           /\ row.primary \in Nat /\ row.independent \in Nat
BY DEF LabelRows

\* The paths on which two contents differ are paths.
LEMMA DifferingPaths ==
    ASSUME NEW x \in Contents, NEW y \in Contents
    PROVE  Differing(x, y) \subseteq Paths
<1>1. DOMAIN x \subseteq Paths /\ DOMAIN y \subseteq Paths
    BY DEF Paths
<1> QED
    BY <1>1 DEF Differing

\* A comparison has its two labels.
LEMMA Compared ==
    ASSUME ReviewTypeOK, RowsInv, NEW i \in OfRole("independent")
    PROVE  /\ i \in LabelIds
           /\ labels[i].primary \in OfRole("primary")
           /\ labels[i].primary \in LabelIds
           /\ PairDiffers(i) \subseteq Paths
<1>1. i \in LabelIds /\ labels[i].role = "independent"
    BY DEF OfRole
<1>2. labels[i].primary \in OfRole("primary")
    BY <1>1 DEF RowsInv, LinksOK
<1>3. labels[i].primary \in LabelIds
    BY <1>2 DEF OfRole
<1>4. labels[i].content \in Contents /\ labels[labels[i].primary].content \in Contents
    BY <1>1, <1>3, RowIds, RowFields
<1> QED
    BY <1>1, <1>2, <1>3, <1>4, DifferingPaths DEF PairDiffers

\* _latest_label answers with a label of the role when there is one.
LEMMA LatestExists ==
    ASSUME ReviewTypeOK, RowsInv, RevisionsUnique, NEW role, OfRole(role) # {}
    PROVE  Latest(role) \in OfRole(role)
<1> DEFINE n == Len(labels)
           S == {n - labels[k].revision : k \in OfRole(role)}
<1>1. /\ LabelIds = 1..n /\ n \in Nat
      /\ \A k \in OfRole(role) : k \in LabelIds /\ labels[k].role = role
    BY RowIds DEF OfRole
<1>2. \A k \in OfRole(role) : labels[k].revision \in 1..n
    <2> SUFFICES ASSUME NEW k \in OfRole(role) PROVE labels[k].revision \in 1..n
        OBVIOUS
    <2>1. k \in 1..n /\ labels[k].revision \in 1..k
        BY <1>1 DEF RowsInv
    <2> QED
        BY <1>1, <2>1
<1>3. S \in SUBSET Nat /\ S # {}
    BY <1>1, <1>2
<1>4. PICK d \in S : \A e \in S : d <= e
    <2> HIDE DEF S
    <2> QED
        BY <1>3, LeastNumber
<1>5. PICK k \in OfRole(role) : d = n - labels[k].revision
    BY <1>4
<1>6. ASSUME NEW j \in OfRole(role)
      PROVE  \/ labels[j].revision < labels[k].revision
             \/ labels[j].revision = labels[k].revision /\ j <= k
    <2>1. n - labels[k].revision <= n - labels[j].revision
        BY <1>4, <1>5
    <2>2. labels[j].revision \in Nat /\ labels[k].revision \in Nat
        BY <1>2
    <2>3. labels[j].revision <= labels[k].revision
        BY <1>1, <2>1, <2>2
    <2>4. CASE labels[j].revision = labels[k].revision
        <3>1. j = k
            BY <1>1, <2>4 DEF RevisionsUnique
        <3> QED
            BY <1>1, <2>4, <3>1
    <2> QED
        BY <2>2, <2>3, <2>4
<1> QED
    BY <1>6 DEF Latest

-----------------------------------------------------------------------------
(* What stays true while rows are added.                                   *)

\* No row is changed or removed.
RowsKept == \A k \in LabelIds : k \in LabelIds' /\ labels'[k] = labels[k]

\* Roles, links and chains stay.
LEMMA LinksKept ==
    ASSUME RowsKept, NEW row
    PROVE  /\ \A role : \A k \in OfRole(role) : k \in OfRole(role)'
           /\ LinksOK(row) /\ RowsInv => LinksOK(row)'
           /\ ChainOK(row) => ChainOK(row)'
<1>1. \A role : \A k \in OfRole(role) : k \in OfRole(role)'
    BY DEF RowsKept, OfRole
<1>2. ASSUME LinksOK(row), RowsInv
      PROVE  LinksOK(row)'
    <2>1. ASSUME row.role = "independent"
          PROVE  row.primary \in OfRole("primary")' /\ row.reviewer # labels'[row.primary].reviewer
        BY <1>1, <1>2, <2>1 DEF LinksOK, OfRole, RowsKept
    <2>2. ASSUME row.role = "adjudicated"
          PROVE  /\ row.independent \in OfRole("independent")'
                 /\ row.primary = labels'[row.independent].primary
                 /\ row.reviewer # labels'[row.primary].reviewer
                 /\ row.reviewer # labels'[row.independent].reviewer
        <3>1. /\ row.independent \in OfRole("independent")
              /\ row.primary = labels[row.independent].primary
              /\ row.reviewer # labels[row.primary].reviewer
              /\ row.reviewer # labels[row.independent].reviewer
            BY <1>2, <2>2 DEF LinksOK
        <3>2. row.independent \in LabelIds /\ labels[row.independent].role = "independent"
            BY <3>1 DEF OfRole
        <3>3. row.primary \in LabelIds
            BY <1>2, <3>1, <3>2 DEF RowsInv, LinksOK, OfRole
        <3> QED
            BY <1>1, <3>1, <3>2, <3>3 DEF RowsKept
    <2> QED
        BY <2>1, <2>2 DEF LinksOK
<1>3. ChainOK(row) => ChainOK(row)'
    BY DEF ChainOK, RowsKept
<1> QED
    BY <1>1, <1>2, <1>3

\* A comparison keeps its differences.
LEMMA DiffersKept ==
    ASSUME ReviewTypeOK, RowsInv, RowsKept, NEW i \in OfRole("independent")
    PROVE  /\ PairDiffers(i)' = PairDiffers(i)
           /\ Differing(labels'[labels'[i].primary].content, labels'[i].content) = PairDiffers(i)
<1>1. i \in LabelIds /\ labels[i].primary \in LabelIds
    BY Compared
<1>2. labels'[i] = labels[i] /\ labels'[labels[i].primary] = labels[labels[i].primary]
    BY <1>1 DEF RowsKept
<1> QED
    BY <1>2 DEF PairDiffers

\* What another caller has read stays true.
LEMMA CallKept ==
    ASSUME ReviewTypeOK, RowsInv, RowsKept, disagreements \subseteq disagreements',
           NEW c \in Clients, CallOK(call[c]), call'[c] = call[c]
    PROVE  CallOK(call[c])'
<1> DEFINE x == call[c]
<1>1. /\ \A role : \A k \in OfRole(role) : k \in OfRole(role)'
      /\ LinksOK(x.draft) => LinksOK(call[c].draft)'
      /\ ChainOK(x.draft) => ChainOK(call[c].draft)'
    <2>1. \A row : /\ LinksOK(row) => LinksOK(row)'
                   /\ ChainOK(row) => ChainOK(row)'
        BY LinksKept
    <2>2. \A role : \A k \in OfRole(role) : k \in OfRole(role)'
        BY LinksKept
    <2> QED
        BY <2>1, <2>2 DEF LinksOK, ChainOK
<1>2. ASSUME x.pc \in {"record", "resolve", "final"}
      PROVE  /\ x.pair \in OfRole("independent") /\ x.pair \in OfRole("independent")'
             /\ PairDiffers(call[c].pair)' = PairDiffers(x.pair)
    <2>1. x.pair \in OfRole("independent")
        BY <1>2 DEF CallOK
    <2>2. Differing(labels'[labels'[x.pair].primary].content, labels'[x.pair].content)
            = PairDiffers(x.pair)
        BY <2>1, DiffersKept
    <2> QED
        BY <1>1, <2>1, <2>2 DEF PairDiffers
<1>3. Stored(x.pair) \subseteq Stored(call[c].pair)'
    BY DEF Stored
<1>4. ASSUME x.pc = "resolve"
      PROVE  /\ x.made \in OfRole("adjudicated")'
             /\ labels'[x.made].independent = x.pair
    BY <1>1, <1>4 DEF CallOK, OfRole, RowsKept
<1>5. ASSUME x.pc = "final"
      PROVE  Initial(call[c].found, call[c].pair)'
    <2>1. Initial(x.found, x.pair)
        BY <1>5 DEF CallOK
    <2> QED
        BY <1>2, <1>5, <2>1 DEF Initial
<1>6. ASSUME x.pc = "record"
      PROVE  /\ x.paths \subseteq PairDiffers(call[c].pair)'
             /\ x.found = PairDiffers(call[c].pair)' \ x.paths
             /\ x.found \subseteq Stored(call[c].pair)'
    <2>1. /\ x.paths \subseteq PairDiffers(x.pair)
          /\ x.found = PairDiffers(x.pair) \ x.paths
          /\ x.found \subseteq Stored(x.pair)
        BY <1>6 DEF CallOK
    <2> QED
        BY <1>2, <1>3, <1>6, <2>1
<1>7. x.pc \in {"record", "resolve", "final"} => x.pair \in OfRole("independent")'
    BY <1>2
<1>8. x.pc \in {"unadjudicated", "compose", "insert"} => LinksOK(call[c].draft)'
    BY <1>1 DEF CallOK
<1>9. x.pc = "insert" => ChainOK(call[c].draft)'
    BY <1>1 DEF CallOK
<1>10. x.pc = "packet" => x.draft.primary \in OfRole("primary")'
    BY <1>1 DEF CallOK
<1> QED
    BY <1>4, <1>5, <1>6, <1>7, <1>8, <1>9, <1>10 DEF CallOK

\* Tables that only grow keep what is known of rows that were there.
LEMMA StoredKept ==
    ASSUME ReviewTypeOK, RowsInv, RowsKept, StoredInv, disagreements' = disagreements
    PROVE  StoredInv'
<1> SUFFICES ASSUME NEW i \in OfRole("independent")' PROVE Initial(Stored(i), i)'
    BY DEF StoredInv
<1>1. Stored(i)' = Stored(i)
    BY DEF Stored
<1>2. CASE i \in LabelIds
    <2>1. i \in OfRole("independent")
        BY <1>2 DEF OfRole, RowsKept
    <2>2. PairDiffers(i)' = PairDiffers(i)
        BY <2>1, DiffersKept
    <2> QED
        BY <1>1, <2>1, <2>2 DEF StoredInv, Initial
<1>3. CASE i \notin LabelIds
    <2>1. Stored(i) = {}
        BY <1>3 DEF ReviewTypeOK, Stored
    <2> QED
        BY <1>1, <2>1 DEF Initial
<1> QED
    BY <1>2, <1>3

\* The adjudications of a table that only gains labels stay unique.
LEMMA AdjudicatedKept ==
    ASSUME ReviewTypeOK, RowsKept, AdjudicatedInv, adjudications' = adjudications
    PROVE  AdjudicatedInv'
<1>1. \A i, l, p : <<i, p, l>> \in adjudications => i \in LabelIds /\ l \in LabelIds /\ p \in Paths
    BY DEF ReviewTypeOK
<1>2. (\A i, l, m \in LabelIds, p \in Paths :
          <<i, p, l>> \in adjudications /\ <<i, p, m>> \in adjudications => l = m)'
    BY <1>1 DEF AdjudicatedInv
<1>3. (\A i, l \in LabelIds, p \in Paths :
          <<i, p, l>> \in adjudications =>
             labels[l].role = "adjudicated" /\ labels[l].independent = i)'
    BY <1>1 DEF AdjudicatedInv, RowsKept
<1> QED
    BY <1>2, <1>3 DEF AdjudicatedInv

\* A label that was returned as final still decides the first difference.
LEMMA ApprovedKept ==
    ASSUME ReviewTypeOK, RowsInv, RowsKept, ApprovedInv, approved' = approved,
           adjudications \subseteq adjudications'
    PROVE  ApprovedInv'
<1> SUFFICES ASSUME NEW i \in LabelIds', NEW l \in LabelIds', <<i, l>> \in approved
             PROVE  /\ i \in OfRole("independent")'
                    /\ labels'[l].role = "adjudicated" => DecidesFirst(i, l)'
    BY DEF ApprovedInv
<1>1. i \in LabelIds /\ l \in LabelIds
    BY DEF ReviewTypeOK
<1>2. /\ i \in OfRole("independent")
      /\ labels[l].role = "adjudicated" => DecidesFirst(i, l)
    BY <1>1 DEF ApprovedInv
<1>3. PairDiffers(i)' = PairDiffers(i)
    BY <1>2, DiffersKept
<1>4. DecidesFirst(i, l) => DecidesFirst(i, l)'
    BY <1>3 DEF DecidesFirst
<1> QED
    BY <1>1, <1>2, <1>4, LinksKept DEF RowsKept

-----------------------------------------------------------------------------
(* Steps that write no table.                                              *)

\* The step of one caller leaves the calls of the others.
OthersKept(c) == \A d \in Clients : d # c => call'[d] = call[d]

\* Reading keeps the invariant when what was read is true.
LEMMA ReadingKeeps ==
    ASSUME ReviewInv, UNCHANGED <<labels, disagreements, adjudications, approved>>,
           attestations' \subseteq Attesting,
           NEW c \in Clients, OthersKept(c),
           call' \in [Clients -> Calls], CallOK(call'[c])
    PROVE  ReviewInv'
<1>1. LabelIds' = LabelIds /\ RowsKept
    BY DEF LabelIds, RowsKept
<1>2. ReviewTypeOK /\ RowsInv /\ RevisionsUnique /\ StoredInv /\ AdjudicatedInv /\ ApprovedInv
      /\ CallsInv
    BY DEF ReviewInv
<1>3. ReviewTypeOK'
    BY <1>1, <1>2 DEF ReviewTypeOK
<1>4. RowsInv' /\ RevisionsUnique'
    BY <1>1, <1>2 DEF RowsInv, RevisionsUnique, LinksOK, ChainOK, OfRole
<1>5. StoredInv' /\ AdjudicatedInv' /\ ApprovedInv'
    BY <1>1, <1>2, StoredKept, AdjudicatedKept, ApprovedKept
<1>6. ASSUME NEW d \in Clients
      PROVE  CallOK(call[d])'
    <2>1. CASE d # c
        BY <1>1, <1>2, <2>1, CallKept DEF CallsInv, OthersKept
    <2>2. CASE d = c
        <3>1. CallOK(call'[c])
            OBVIOUS
        <3> QED
            BY <1>1, <2>2, <3>1
               DEF CallOK, LinksOK, ChainOK, OfRole, PairDiffers, Stored, Initial
    <2> QED
        BY <2>1, <2>2
<1>7. CallsInv'
    BY <1>6 DEF CallsInv
<1> QED
    BY <1>3, <1>4, <1>5, <1>7 DEF ReviewInv

\* An ended call is true of anything.
LEMMA IdleCallOK ==
    /\ IdleCall \in Calls
    /\ CallOK(IdleCall)
    /\ IdleCall.pc = "idle"
BY DEF IdleCall, Calls, CallOK, Steps

\* The end of a call.
LEMMA FinishEffect ==
    ASSUME ReviewTypeOK, NEW c \in Clients, FinishCall(c)
    PROVE  /\ call' \in [Clients -> Calls]
           /\ call'[c] = IdleCall
           /\ OthersKept(c)
BY IdleCallOK DEF ReviewTypeOK, FinishCall, OthersKept

\* A call that ends without writing keeps the invariant.
LEMMA FinishKeeps ==
    ASSUME ReviewInv, UNCHANGED <<attestations, labels, disagreements, adjudications, approved>>,
           NEW c \in Clients, FinishCall(c)
    PROVE  ReviewInv'
<1>1. ReviewTypeOK
    BY DEF ReviewInv
<1>2. call' \in [Clients -> Calls] /\ call'[c] = IdleCall /\ OthersKept(c)
    BY <1>1, FinishEffect
<1>3. attestations' \subseteq Attesting
    BY <1>1 DEF ReviewTypeOK
<1>4. CallOK(call'[c])
    BY <1>2, IdleCallOK
<1> QED
    BY <1>2, <1>3, <1>4, ReadingKeeps

\* A new value of one call.
LEMMA CallEffect ==
    ASSUME ReviewTypeOK, NEW c \in Clients, NEW x \in Calls, call' = [call EXCEPT ![c] = x]
    PROVE  call' \in [Clients -> Calls] /\ call'[c] = x /\ OthersKept(c)
BY DEF ReviewTypeOK, OthersKept

\* A call that has read something true keeps the invariant.
LEMMA CallReads ==
    ASSUME ReviewInv, UNCHANGED <<attestations, labels, disagreements, adjudications, approved>>,
           NEW c \in Clients, NEW x \in Calls, call' = [call EXCEPT ![c] = x], CallOK(x)
    PROVE  ReviewInv'
<1>1. ReviewTypeOK
    BY DEF ReviewInv
<1>2. call' \in [Clients -> Calls] /\ call'[c] = x /\ OthersKept(c)
    BY <1>1, CallEffect
<1>3. attestations' \subseteq Attesting
    BY <1>1 DEF ReviewTypeOK
<1>4. CallOK(call'[c])
    BY <1>2
<1> QED
    BY <1>2, <1>3, <1>4, ReadingKeeps

\* record_attestation keeps the invariant.
LEMMA AttestationKeeps ==
    ASSUME ReviewInv, NEW a \in Attesting, RecordAttestation(a)
    PROVE  ReviewInv'
<1>1. /\ UNCHANGED <<labels, disagreements, adjudications, approved, call>>
      /\ attestations' \subseteq Attesting
    BY DEF RecordAttestation, ReviewInv, ReviewTypeOK
<1>2. LabelIds' = LabelIds /\ RowsKept
    BY <1>1 DEF LabelIds, RowsKept
<1>3. ReviewTypeOK /\ RowsInv /\ RevisionsUnique /\ StoredInv /\ AdjudicatedInv /\ ApprovedInv
      /\ CallsInv
    BY DEF ReviewInv
<1>4. ReviewTypeOK'
    BY <1>1, <1>2, <1>3 DEF ReviewTypeOK
<1>5. RowsInv' /\ RevisionsUnique'
    BY <1>1, <1>2, <1>3 DEF RowsInv, RevisionsUnique, LinksOK, ChainOK, OfRole
<1>6. StoredInv' /\ AdjudicatedInv' /\ ApprovedInv'
    BY <1>1, <1>2, <1>3, StoredKept, AdjudicatedKept, ApprovedKept
<1>7. CallsInv'
    BY <1>1, <1>2, <1>3, CallKept DEF CallsInv
<1> QED
    BY <1>4, <1>5, <1>6, <1>7 DEF ReviewInv

\* A draft is a row, not yet numbered.
LEMMA DraftRow ==
    ASSUME NEW role \in Roles, NEW r \in Reviewers, NEW v \in Versions, NEW x \in Contents,
           NEW p \in Nat, NEW i \in Nat
    PROVE  /\ Draft(role, r, v, x, p, i) \in LabelRows
           /\ Draft(role, r, v, x, p, i).role = role
           /\ Draft(role, r, v, x, p, i).reviewer = r
           /\ Draft(role, r, v, x, p, i).primary = p
           /\ Draft(role, r, v, x, p, i).independent = i
BY DEF Draft, LabelRows

\* submit_primary keeps the invariant.
LEMMA PrimaryKeeps ==
    ASSUME ReviewInv, NEW c \in Clients, NEW r \in Reviewers, NEW v \in Versions,
           NEW x \in Contents, NEW h \in BOOLEAN, NEW k \in BOOLEAN,
           SubmitPrimary(c, r, v, x, h, k)
    PROVE  ReviewInv'
<1> DEFINE d == Draft("primary", r, v, x, 0, 0)
           y == [call[c] EXCEPT !.pc = "compose", !.draft = d]
<1>1. d \in LabelRows /\ d.role = "primary"
    BY DraftRow DEF Roles
<1>2. call \in [Clients -> Calls] /\ call[c] \in Calls
    BY DEF ReviewInv, ReviewTypeOK
<1> HIDE DEF d
<1>3. y \in Calls /\ y.pc = "compose" /\ y.draft = d
    BY <1>1, <1>2 DEF Calls, Steps
<1>4. call' = [call EXCEPT ![c] = y]
    BY <1>2 DEF SubmitPrimary, d
<1> HIDE DEF y
<1>5. CallOK(y)
    BY <1>1, <1>3 DEF CallOK, LinksOK
<1>6. UNCHANGED <<attestations, labels, disagreements, adjudications, approved>>
    BY DEF SubmitPrimary, tables
<1> QED
    BY <1>3, <1>4, <1>5, <1>6, CallReads

\* blind_independent_review_packet keeps the invariant.
LEMMA PacketKeeps ==
    ASSUME ReviewInv, NEW c \in Clients, NEW r \in Reviewers, NEW x \in Contents,
           ReadPacket(c, r, x)
    PROVE  ReviewInv'
<1> DEFINE p == Latest("primary")
           d == Draft("independent", r, labels[p].version, x, p, 0)
           y == [call[c] EXCEPT !.pc = "packet", !.draft = d]
<1>1. p \in OfRole("primary")
    BY LatestExists DEF ReviewInv, ReadPacket
<1>2. p \in Nat /\ labels[p].version \in Versions
    BY <1>1, RowIds, RowFields DEF OfRole, ReviewInv
<1>3. d \in LabelRows /\ d.role = "independent" /\ d.primary = p
    BY <1>2, DraftRow DEF Roles
<1>4. call \in [Clients -> Calls] /\ call[c] \in Calls
    BY DEF ReviewInv, ReviewTypeOK
<1> HIDE DEF d
<1>5. y \in Calls /\ y.pc = "packet" /\ y.draft = d
    BY <1>3, <1>4 DEF Calls, Steps
<1>6. call' = [call EXCEPT ![c] = y]
    BY <1>4 DEF ReadPacket, d
<1> HIDE DEF y
<1>7. CallOK(y)
    BY <1>1, <1>3, <1>5 DEF CallOK
<1>8. UNCHANGED <<attestations, labels, disagreements, adjudications, approved>>
    BY DEF ReadPacket, tables
<1> QED
    BY <1>5, <1>6, <1>7, <1>8, CallReads

\* submit_independent keeps the invariant: the reviewer is compared with the
\* author of the label that the row is linked to.
LEMMA IndependentKeeps ==
    ASSUME ReviewInv, NEW c \in Clients, NEW k \in BOOLEAN, SubmitIndependent(c, k)
    PROVE  ReviewInv'
<1> DEFINE p == Latest("primary")
           d == call[c].draft
           e == [d EXCEPT !.primary = p]
           y == [call[c] EXCEPT !.pc = "compose", !.draft = e]
<1>1. call \in [Clients -> Calls] /\ call[c] \in Calls /\ CallOK(call[c])
    BY DEF ReviewInv, ReviewTypeOK, CallsInv
<1>2. d \in LabelRows /\ d.role = "independent" /\ OfRole("primary") # {}
    BY <1>1 DEF SubmitIndependent, At, CallOK
<1>3. UNCHANGED <<attestations, labels, disagreements, adjudications, approved>>
    BY DEF SubmitIndependent, tables
<1>4. CASE FinishCall(c)
    BY <1>3, <1>4, FinishKeeps
<1>5. CASE d.reviewer # labels[p].reviewer
           /\ call' = [call EXCEPT ![c].pc = "compose", ![c].draft.primary = p]
    <2>1. p \in OfRole("primary")
        BY <1>2, LatestExists DEF ReviewInv
    <2>2. p \in Nat
        BY <2>1, RowIds DEF OfRole, ReviewInv
    <2> HIDE DEF p
    <2>3. /\ e \in LabelRows /\ e.role = "independent" /\ e.primary = p
          /\ e.reviewer = d.reviewer
        BY <1>2, <2>2 DEF LabelRows
    <2>4. y \in Calls /\ y.pc = "compose" /\ y.draft = e
        BY <1>1, <2>3 DEF Calls, Steps
    <2>5. call' = [call EXCEPT ![c] = y]
        BY <1>1, <1>5
    <2> HIDE DEF y, e
    <2>6. CallOK(y)
        BY <1>5, <2>1, <2>3, <2>4 DEF CallOK, LinksOK
    <2> QED
        BY <1>3, <2>4, <2>5, <2>6, CallReads
<1> QED
    BY <1>4, <1>5 DEF SubmitIndependent

\* _create_label, before the insert, keeps the invariant: the row names the
\* revision that it changes.
LEMMA ComposeKeeps ==
    ASSUME ReviewInv, NEW c \in Clients, Compose(c)
    PROVE  ReviewInv'
<1> DEFINE d == call[c].draft
           prior == IF OfRole(d.role) = {} THEN 0 ELSE Latest(d.role)
           row == [d EXCEPT !.parent = prior,
                            !.revision = IF prior = 0 THEN 1 ELSE labels[prior].revision + 1]
           y == [call[c] EXCEPT !.pc = "insert", !.draft = row]
<1>1. call \in [Clients -> Calls] /\ call[c] \in Calls /\ CallOK(call[c])
    BY DEF ReviewInv, ReviewTypeOK, CallsInv
<1>2. /\ d \in LabelRows /\ LinksOK(d)
      /\ d.role = "adjudicated" => call[c].pair = d.independent
    BY <1>1 DEF Compose, At, CallOK
<1>3. UNCHANGED <<attestations, labels, disagreements, adjudications, approved>>
    BY DEF Compose, tables
<1>4. CASE FinishCall(c)
    BY <1>3, <1>4, FinishKeeps
<1>5. CASE /\ ~(prior # 0 /\ labels[prior].content = d.content)
           /\ call' = [call EXCEPT ![c].pc = "insert", ![c].draft = row]
    <2>1. prior # 0 => prior \in OfRole(d.role)
        BY LatestExists DEF ReviewInv
    <2>2. prior # 0 => /\ prior \in LabelIds /\ prior \in Nat /\ labels[prior].role = d.role
                       /\ labels[prior].revision \in Nat \ {0}
        <3>1. ReviewTypeOK /\ RowsInv
            BY DEF ReviewInv
        <3>2. \A k \in LabelIds : k \in Nat /\ labels[k].revision \in 1..k
            BY <3>1, RowIds DEF RowsInv
        <3>3. \A k \in LabelIds : k \in Nat /\ labels[k].revision \in Nat \ {0}
            BY <3>2
        <3> QED
            BY <2>1, <3>3 DEF OfRole
    <2> HIDE DEF prior
    <2> DEFINE n == IF prior = 0 THEN 1 ELSE labels[prior].revision + 1
    <2>3. n \in Nat /\ n # 0 /\ (n = 1 <=> prior = 0) /\ (prior # 0 => labels[prior].revision = n - 1)
        BY <2>2
    <2>4. prior \in Nat
        BY <2>2
    <2> HIDE DEF n
    <2>5. row = [d EXCEPT !.parent = prior, !.revision = n]
        BY DEF n
    <2>6. /\ row \in LabelRows /\ row.parent = prior /\ row.revision = n
          /\ row.role = d.role /\ row.content = d.content /\ row.reviewer = d.reviewer
          /\ row.primary = d.primary /\ row.independent = d.independent
        BY <1>2, <2>3, <2>4, <2>5 DEF LabelRows
    <2> HIDE DEF row
    <2>7. y \in Calls /\ y.pc = "insert" /\ y.draft = row /\ y.pair = call[c].pair
        BY <1>1, <2>6 DEF Calls, Steps
    <2>8. call' = [call EXCEPT ![c] = y]
        BY <1>1, <1>5
    <2> HIDE DEF y
    <2>9. LinksOK(row)
        BY <1>2, <2>6 DEF LinksOK
    <2>10. ChainOK(row)
        BY <1>5, <2>2, <2>3, <2>6 DEF ChainOK
    <2>11. CallOK(y)
        BY <1>2, <2>3, <2>6, <2>7, <2>9, <2>10 DEF CallOK
    <2> QED
        BY <1>3, <2>7, <2>8, <2>11, CallReads
<1> QED
    BY <1>4, <1>5 DEF Compose

\* record_material_disagreements, its listing, keeps the invariant: what is
\* stored of a comparison is the first of its differences.
LEMMA ListingKeeps ==
    ASSUME ReviewInv, NEW c \in Clients, NEW i \in LabelIds, NEW then \in {"idle", "final"},
           ListDisagreements(c, i, then)
    PROVE  ReviewInv'
<1>1. ReviewTypeOK /\ RowsInv /\ StoredInv
    BY DEF ReviewInv
<1>2. i \in OfRole("independent") /\ i \in Nat
    BY <1>1, RowIds DEF ListDisagreements, OfRole
<1>3. PairDiffers(i) \subseteq Paths /\ Initial(Stored(i), i) /\ Stored(i) \subseteq Paths
    BY <1>1, <1>2, Compared DEF StoredInv, Stored
<1>4. UNCHANGED <<attestations, labels, disagreements, adjudications, approved>>
    BY DEF ListDisagreements, tables
<1>5. CASE Return(c, i, then, Stored(i))
    <2> DEFINE y == IF then = "idle" THEN IdleCall
                    ELSE [IdleCall EXCEPT !.pc = then, !.pair = i, !.found = Stored(i)]
    <2>1. call' = [call EXCEPT ![c] = y]
        BY <1>5 DEF Return
    <2>2. CASE then = "idle"
        <3>1. y = IdleCall
            BY <2>2
        <3> QED
            BY <1>4, <2>1, <3>1, IdleCallOK, CallReads
    <2>3. CASE then = "final"
        <3>1. y = [IdleCall EXCEPT !.pc = "final", !.pair = i, !.found = Stored(i)]
            BY <2>3
        <3>2. y \in Calls /\ y.pc = "final" /\ y.pair = i /\ y.found = Stored(i)
            BY <1>2, <1>3, <3>1 DEF IdleCall, Calls, Steps
        <3> HIDE DEF y
        <3>3. CallOK(y)
            BY <1>2, <1>3, <3>2 DEF CallOK
        <3> QED
            BY <1>4, <2>1, <3>2, <3>3, CallReads
    <2> QED
        BY <2>2, <2>3
<1>6. CASE call' = [call EXCEPT ![c] = [IdleCall EXCEPT !.pc = "record", !.then = then,
                                                      !.pair = i, !.paths = PairDiffers(i)]]
    <2> DEFINE y == [IdleCall EXCEPT !.pc = "record", !.then = then, !.pair = i,
                                     !.paths = PairDiffers(i)]
    <2>1. y \in Calls /\ y.pc = "record" /\ y.pair = i /\ y.paths = PairDiffers(i) /\ y.found = {}
        BY <1>2, <1>3 DEF IdleCall, Calls, Steps
    <2>2. call' = [call EXCEPT ![c] = y]
        BY <1>6
    <2> HIDE DEF y
    <2>3. CallOK(y)
        BY <1>2, <2>1 DEF CallOK
    <2> QED
        BY <1>4, <2>1, <2>2, <2>3, CallReads
<1> QED
    BY <1>5, <1>6 DEF ListDisagreements

\* adjudicate, up to its listing, keeps the invariant: a third reviewer decides.
LEMMA AdjudicateKeeps ==
    ASSUME ReviewInv, NEW c \in Clients, NEW i \in LabelIds, NEW r \in Reviewers,
           NEW x \in Contents, NEW b \in SUBSET Material, Adjudicate(c, i, r, x, b)
    PROVE  ReviewInv'
<1> DEFINE p == labels[i].primary
           material == Stored(i) \cap Material
           d == Draft("adjudicated", r, labels[p].version, x, p, i)
           y == [IdleCall EXCEPT !.pc = "unadjudicated", !.paths = material, !.blank = b,
                                 !.pair = i, !.draft = d]
<1>1. ReviewTypeOK /\ RowsInv
    BY DEF ReviewInv
<1>2. i \in OfRole("independent") /\ i \in Nat
    BY <1>1, RowIds DEF Adjudicate, OfRole
<1>3. p \in LabelIds /\ p \in Nat /\ labels[p].version \in Versions
    BY <1>1, <1>2, Compared, RowIds, RowFields
<1>4. /\ d \in LabelRows /\ d.role = "adjudicated" /\ d.reviewer = r
      /\ d.primary = p /\ d.independent = i
    BY <1>2, <1>3, DraftRow DEF Roles
<1>5. r # labels[p].reviewer /\ r # labels[i].reviewer
    BY DEF Adjudicate
<1>6. material \subseteq Paths /\ b \subseteq Paths
    BY ReviewAssumption DEF Stored
<1>7. call' = [call EXCEPT ![c] = y]
    BY DEF Adjudicate
<1> HIDE DEF d, material
<1>8. y \in Calls /\ y.pc = "unadjudicated" /\ y.draft = d /\ y.pair = i
    BY <1>2, <1>4, <1>6 DEF IdleCall, Calls, Steps
<1> HIDE DEF y
<1>9. LinksOK(d)
    BY <1>2, <1>4, <1>5 DEF LinksOK
<1>10. CallOK(y)
    BY <1>4, <1>8, <1>9 DEF CallOK
<1>11. UNCHANGED <<attestations, labels, disagreements, adjudications, approved>>
    BY DEF Adjudicate, tables
<1> QED
    BY <1>7, <1>8, <1>10, <1>11, CallReads

\* adjudicate, its check of the listing, keeps the invariant.
LEMMA CheckKeeps ==
    ASSUME ReviewInv, NEW c \in Clients, CheckUnadjudicated(c)
    PROVE  ReviewInv'
<1> DEFINE y == [call[c] EXCEPT !.pc = "compose"]
<1>1. call \in [Clients -> Calls] /\ call[c] \in Calls /\ CallOK(call[c])
    BY DEF ReviewInv, ReviewTypeOK, CallsInv
<1>2. call[c].pc = "unadjudicated"
    BY DEF CheckUnadjudicated, At
<1>3. UNCHANGED <<attestations, labels, disagreements, adjudications, approved>>
    BY DEF CheckUnadjudicated, tables
<1>4. CASE FinishCall(c)
    BY <1>3, <1>4, FinishKeeps
<1>5. CASE call' = [call EXCEPT ![c].pc = "compose"]
    <2>1. /\ y \in Calls /\ y.pc = "compose" /\ y.draft = call[c].draft
          /\ y.pair = call[c].pair
        BY <1>1 DEF Calls, Steps
    <2>2. call' = [call EXCEPT ![c] = y]
        BY <1>1, <1>5
    <2> HIDE DEF y
    <2>3. CallOK(y)
        BY <1>1, <1>2, <2>1 DEF CallOK
    <2> QED
        BY <1>3, <2>1, <2>2, <2>3, CallReads
<1> QED
    BY <1>4, <1>5 DEF CheckUnadjudicated

\* An interrupted call keeps the invariant.
LEMMA InterruptKeeps ==
    ASSUME ReviewInv, NEW c \in Clients, Interrupt(c)
    PROVE  ReviewInv'
BY FinishKeeps DEF Interrupt, tables

-----------------------------------------------------------------------------
(* Steps that write a table.                                               *)

\* What an appended row leaves and adds.
LEMMA AppendedRow ==
    ASSUME ReviewTypeOK, NEW row \in LabelRows, labels' = Append(labels, row)
    PROVE  /\ labels' \in Seq(LabelRows)
           /\ LabelIds' = LabelIds \cup {Len(labels) + 1}
           /\ Len(labels) + 1 \notin LabelIds
           /\ labels'[Len(labels) + 1] = row
           /\ RowsKept
<1>1. labels \in Seq(LabelRows) /\ Len(labels) \in Nat
    BY DEF ReviewTypeOK
<1>2. /\ labels' \in Seq(LabelRows) /\ Len(labels') = Len(labels) + 1
      /\ labels'[Len(labels) + 1] = row
      /\ \A k \in 1..Len(labels) : labels'[k] = labels[k]
    BY <1>1
<1>3. LabelIds = 1..Len(labels) /\ LabelIds' = 1..(Len(labels) + 1)
    BY <1>1, <1>2 DEF LabelIds
<1> QED
    BY <1>1, <1>2, <1>3 DEF RowsKept

\* create_label with a free revision number keeps the rows linked and chained.
LEMMA RowsGrow ==
    ASSUME ReviewTypeOK, RowsInv, RevisionsUnique, NEW row \in LabelRows,
           LinksOK(row), ChainOK(row), row.revision # 0, RevisionFree(row),
           labels' = Append(labels, row)
    PROVE  RowsInv' /\ RevisionsUnique'
<1> DEFINE n == Len(labels) + 1
<1>1. /\ LabelIds' = LabelIds \cup {n} /\ n \notin LabelIds /\ labels'[n] = row /\ RowsKept
    BY AppendedRow
<1>2. /\ LabelIds = 1..Len(labels) /\ Len(labels) \in Nat
      /\ \A k \in LabelIds : labels[k] \in LabelRows /\ k \in Nat
    BY RowIds
<1>3. row.parent < n /\ row.revision \in 1..n
    <2>1. row.parent \in Nat /\ row.revision \in Nat
        BY RowFields
    <2>2. CASE row.revision = 1
        BY <1>2, <2>1, <2>2 DEF ChainOK
    <2>3. CASE row.revision # 1
        <3>1. row.parent \in LabelIds /\ labels[row.parent].revision = row.revision - 1
            BY <2>3 DEF ChainOK
        <3>2. labels[row.parent].revision \in 1..row.parent
            BY <3>1 DEF RowsInv
        <3>3. row.parent \in 1..Len(labels)
            BY <1>2, <3>1
        <3>4. row.revision - 1 \in 1..row.parent
            BY <3>1, <3>2
        <3> QED
            BY <1>2, <2>1, <3>3, <3>4
    <2> QED
        BY <2>2, <2>3
<1>4. LinksOK(row)' /\ ChainOK(row)'
    BY <1>1, LinksKept
<1> HIDE DEF n
<1>5. ASSUME NEW k \in LabelIds
      PROVE  (LinksOK(labels[k]) /\ ChainOK(labels[k]) /\ labels[k].parent < k
                /\ labels[k].revision \in 1..k)'
    <2>1. /\ LinksOK(labels[k]) /\ ChainOK(labels[k]) /\ labels[k].parent < k
          /\ labels[k].revision \in 1..k
        BY DEF RowsInv
    <2>2. labels'[k] = labels[k]
        BY <1>1 DEF RowsKept
    <2>3. PICK old : old = labels[k]
        OBVIOUS
    <2>4. LinksOK(old) /\ ChainOK(old)
        BY <2>1, <2>3
    <2>5. LinksOK(old)' /\ ChainOK(old)'
        BY <1>1, <2>4, LinksKept
    <2>6. (LinksOK(labels[k]) /\ ChainOK(labels[k]))'
        BY <2>2, <2>3, <2>5 DEF LinksOK, ChainOK
    <2> QED
        BY <2>1, <2>2, <2>6
<1>6. RowsInv'
    <2> SUFFICES ASSUME NEW k \in LabelIds'
                 PROVE  (LinksOK(labels[k]) /\ ChainOK(labels[k]) /\ labels[k].parent < k
                           /\ labels[k].revision \in 1..k)'
        BY DEF RowsInv
    <2>1. CASE k \in LabelIds
        BY <1>5, <2>1
    <2>2. CASE k = n
        <3>1. labels'[k] = row
            BY <1>1, <2>2
        <3>2. (LinksOK(labels[k]) /\ ChainOK(labels[k]))'
            BY <1>4, <3>1 DEF LinksOK, ChainOK
        <3> QED
            BY <1>3, <2>2, <3>1, <3>2
    <2> QED
        BY <1>1, <2>1, <2>2
<1>7. RevisionsUnique'
    <2> SUFFICES ASSUME NEW j \in LabelIds', NEW k \in LabelIds',
                        labels'[j].role = labels'[k].role,
                        labels'[j].revision = labels'[k].revision
                 PROVE  j = k
        BY DEF RevisionsUnique
    <2>1. \A i \in LabelIds : /\ labels'[i] = labels[i]
                              /\ ~(labels[i].role = row.role /\ labels[i].revision = row.revision)
        BY <1>1 DEF RowsKept, RevisionFree
    <2>2. CASE j \in LabelIds /\ k \in LabelIds
        BY <2>1, <2>2 DEF RevisionsUnique
    <2>3. CASE j = n \/ k = n
        <3>1. labels'[n] = row
            BY <1>1
        <3> QED
            BY <1>1, <2>1, <2>3, <3>1
    <2> QED
        BY <1>1, <2>2, <2>3
<1> QED
    BY <1>6, <1>7

\* create_label keeps the invariant.
LEMMA InsertKeeps ==
    ASSUME ReviewInv, NEW c \in Clients, Insert(c)
    PROVE  ReviewInv'
<1> DEFINE row == call[c].draft
           n == Len(labels) + 1
<1>1. ReviewTypeOK /\ RowsInv /\ RevisionsUnique /\ StoredInv /\ AdjudicatedInv /\ ApprovedInv
      /\ CallsInv
    BY DEF ReviewInv
<1>2. call \in [Clients -> Calls] /\ call[c] \in Calls /\ CallOK(call[c]) /\ call[c].pc = "insert"
    BY <1>1 DEF ReviewTypeOK, CallsInv, Insert, At
<1>3. /\ row \in LabelRows /\ LinksOK(row) /\ ChainOK(row) /\ row.revision # 0
      /\ row.role = "adjudicated" => call[c].pair = row.independent
    BY <1>2 DEF CallOK
<1>4. UNCHANGED <<attestations, disagreements, adjudications, approved>>
    BY DEF Insert
<1>5. CASE ~RevisionFree(row)
    <2>1. FinishCall(c) /\ labels' = labels
        BY <1>5 DEF Insert
    <2> QED
        BY <1>4, <2>1, FinishKeeps
<1>6. CASE RevisionFree(row)
    <2>1. labels' = Append(labels, row)
        BY <1>6 DEF Insert
    <2> HIDE DEF row
    <2>2. RowsInv' /\ RevisionsUnique'
        BY <1>1, <1>3, <1>6, <2>1, RowsGrow
    <2>3. /\ labels' \in Seq(LabelRows) /\ LabelIds' = LabelIds \cup {n} /\ labels'[n] = row
          /\ RowsKept
        BY <1>1, <1>3, <2>1, AppendedRow
    <2>4. StoredInv' /\ AdjudicatedInv' /\ ApprovedInv'
        BY <1>1, <1>4, <2>3, StoredKept, AdjudicatedKept, ApprovedKept
    <2>5. call' \in [Clients -> Calls] /\ OthersKept(c) /\ CallOK(call[c])'
        <3>1. CASE row.role # "adjudicated"
            <4>1. FinishCall(c)
                BY <1>6, <3>1 DEF Insert, row
            <4>2. call' \in [Clients -> Calls] /\ OthersKept(c) /\ call'[c] = IdleCall
                BY <1>1, <4>1, FinishEffect
            <4>3. call'[c].pc = "idle"
                BY <4>2, IdleCallOK
            <4>4. CallOK(call[c])'
                BY <4>3 DEF CallOK
            <4> QED
                BY <4>2, <4>4
        <3>2. CASE row.role = "adjudicated"
            <4> DEFINE y == [call[c] EXCEPT !.pc = "resolve", !.made = n]
            <4>1. call' = [call EXCEPT ![c].pc = "resolve", ![c].made = n]
                BY <1>6, <3>2 DEF Insert, row
            <4>2. call' = [call EXCEPT ![c] = y]
                BY <1>2, <4>1
            <4>3. n \in Nat
                BY <1>1, RowIds
            <4> HIDE DEF n
            <4>4. y \in Calls /\ y.pc = "resolve" /\ y.made = n /\ y.pair = call[c].pair
                BY <1>2, <4>3 DEF Calls, Steps
            <4> HIDE DEF y
            <4>5. call' \in [Clients -> Calls] /\ OthersKept(c) /\ call'[c] = y
                BY <1>1, <4>2, <4>4, CallEffect
            <4>6. row.independent \in OfRole("independent")
                BY <1>3, <3>2 DEF LinksOK
            <4>7. row.independent \in OfRole("independent")'
                BY <2>3, <4>6, LinksKept
            <4>8. n \in OfRole("adjudicated")' /\ labels'[n].independent = row.independent
                BY <2>3, <3>2 DEF OfRole
            <4>9. CallOK(call[c])'
                BY <1>3, <3>2, <4>4, <4>5, <4>7, <4>8 DEF CallOK
            <4> QED
                BY <4>5, <4>9
        <3> QED
            BY <3>1, <3>2
    <2>6. CallsInv'
        <3> SUFFICES ASSUME NEW d \in Clients PROVE CallOK(call[d])'
            BY DEF CallsInv
        <3>1. CASE d = c
            BY <2>5, <3>1
        <3>2. CASE d # c
            <4>1. call'[d] = call[d] /\ CallOK(call[d])
                BY <1>1, <2>5, <3>2 DEF OthersKept, CallsInv
            <4> QED
                BY <1>1, <1>4, <2>3, <4>1, CallKept
        <3> QED
            BY <3>1, <3>2
    <2>7. ReviewTypeOK'
        <3>1. LabelIds \subseteq LabelIds'
            BY <2>3
        <3>2. /\ disagreements' \subseteq LabelIds' \X Paths
              /\ adjudications' \subseteq LabelIds' \X Paths \X LabelIds'
              /\ approved' \subseteq LabelIds' \X LabelIds'
            BY <1>1, <1>4, <3>1 DEF ReviewTypeOK
        <3> QED
            BY <1>1, <1>4, <2>3, <2>5, <3>2 DEF ReviewTypeOK
    <2> QED
        BY <2>2, <2>4, <2>6, <2>7 DEF ReviewInv
<1> QED
    BY <1>5, <1>6

\* create_disagreement keeps the invariant: the differences are stored in path
\* order, so that what is stored of a comparison is always its first ones.
LEMMA RecordKeeps ==
    ASSUME ReviewInv, NEW c \in Clients, RecordDisagreement(c)
    PROVE  ReviewInv'
<1> DEFINE x == call[c]
           i == x.pair
           p == Min(x.paths)
<1>1. ReviewTypeOK /\ RowsInv /\ RevisionsUnique /\ StoredInv /\ AdjudicatedInv /\ ApprovedInv
      /\ CallsInv
    BY DEF ReviewInv
<1>2. call \in [Clients -> Calls] /\ x \in Calls /\ CallOK(x) /\ x.pc = "record"
    BY <1>1 DEF ReviewTypeOK, CallsInv, RecordDisagreement, At
<1>3. /\ i \in OfRole("independent") /\ x.paths \subseteq PairDiffers(i)
      /\ x.found = PairDiffers(i) \ x.paths /\ x.found \subseteq Stored(i)
    BY <1>2 DEF CallOK
<1>4. i \in LabelIds /\ PairDiffers(i) \subseteq Paths /\ i \in Nat
    BY <1>1, <1>3, Compared, RowIds
<1>5. UNCHANGED <<attestations, labels, adjudications, approved>>
    BY DEF RecordDisagreement
<1>6. x.paths \in SUBSET Paths /\ x.found \in SUBSET Paths /\ x.then \in {"idle", "final"}
    BY <1>2 DEF Calls
<1>7. CASE x.paths = {}
    <2> DEFINE y == IF x.then = "idle" THEN IdleCall
                    ELSE [IdleCall EXCEPT !.pc = x.then, !.pair = i, !.found = x.found]
    <2>1. call' = [call EXCEPT ![c] = y] /\ disagreements' = disagreements
        BY <1>7 DEF RecordDisagreement, Return
    <2>2. CASE x.then = "idle"
        <3>1. y = IdleCall
            BY <2>2
        <3> QED
            BY <1>5, <2>1, <3>1, IdleCallOK, CallReads
    <2>3. CASE x.then = "final"
        <3>1. y = [IdleCall EXCEPT !.pc = "final", !.pair = i, !.found = x.found]
            BY <2>3
        <3>2. y \in Calls /\ y.pc = "final" /\ y.pair = i /\ y.found = x.found
            BY <1>4, <1>6, <3>1 DEF IdleCall, Calls, Steps
        <3>3. Initial(x.found, i)
            BY <1>3, <1>7 DEF Initial
        <3> HIDE DEF y
        <3>4. CallOK(y)
            BY <1>3, <3>2, <3>3 DEF CallOK
        <3> QED
            BY <1>5, <2>1, <3>2, <3>4, CallReads
    <2> QED
        BY <1>6, <2>2, <2>3
<1>8. CASE x.paths # {} /\ <<i, p>> \in disagreements
    <2>1. FinishCall(c) /\ disagreements' = disagreements
        BY <1>8 DEF RecordDisagreement
    <2> QED
        BY <1>5, <2>1, FinishKeeps
<1>9. CASE x.paths # {} /\ <<i, p>> \notin disagreements
    <2> DEFINE y == [x EXCEPT !.paths = x.paths \ {p}, !.found = x.found \cup {p}]
    <2>1. /\ disagreements' = disagreements \cup {<<i, p>>}
          /\ call' = [call EXCEPT ![c].paths = @ \ {p}, ![c].found = @ \cup {p}]
        BY <1>9 DEF RecordDisagreement
    <2>2. p \in x.paths /\ \A q \in x.paths : p <= q
        <3>1. x.paths \in SUBSET Nat
            BY <1>6, ReviewAssumption
        <3> QED
            BY <1>9, <3>1, MinIsLeast
    <2>3. p \in PairDiffers(i) /\ p \in Paths /\ p \in Nat
        BY <1>3, <1>4, <2>2, ReviewAssumption
    <2> HIDE DEF p
    <2>4. call' = [call EXCEPT ![c] = y]
        BY <1>2, <2>1
    <2>5. /\ y \in Calls /\ y.pc = "record" /\ y.pair = i
          /\ y.paths = x.paths \ {p} /\ y.found = x.found \cup {p}
        BY <1>2, <1>6, <2>3 DEF Calls
    <2> HIDE DEF y
    <2>6. call' \in [Clients -> Calls] /\ call'[c] = y /\ OthersKept(c)
        BY <1>1, <2>4, <2>5, CallEffect
    <2>7. LabelIds' = LabelIds /\ RowsKept
        BY <1>5 DEF LabelIds, RowsKept
    <2>8. \A j : Stored(j)' = IF j = i THEN Stored(j) \cup {p} ELSE Stored(j)
        <3> HIDE DEF i
        <3> QED
            BY <2>1, <2>3 DEF Stored
    <2>9. \A j : PairDiffers(j)' = PairDiffers(j)
        BY <1>5 DEF PairDiffers
    <2>10. Initial(Stored(i) \cup {p}, i)
        <3>1. Stored(i) \subseteq PairDiffers(i)
              /\ \A s \in Stored(i), q \in PairDiffers(i) : q < s => q \in Stored(i)
            BY <1>1, <1>3 DEF StoredInv, Initial
        <3>2. ASSUME NEW q \in PairDiffers(i), q < p
              PROVE  q \in Stored(i)
            <4>1. q \in Nat
                BY <1>4, ReviewAssumption
            <4>2. q \notin x.paths
                BY <2>2, <2>3, <3>2, <4>1
            <4> QED
                BY <1>3, <4>2
        <3> QED
            BY <2>3, <3>1, <3>2 DEF Initial
    <2>11. StoredInv'
        <3> SUFFICES ASSUME NEW j \in OfRole("independent")' PROVE Initial(Stored(j), j)'
            BY DEF StoredInv
        <3>1. j \in OfRole("independent")
            BY <1>5 DEF OfRole, LabelIds
        <3>2. Initial(Stored(j), j)
            BY <1>1, <3>1 DEF StoredInv
        <3> HIDE DEF i
        <3>3. CASE j = i
            BY <2>8, <2>9, <2>10, <3>3 DEF Initial
        <3>4. CASE j # i
            BY <2>8, <2>9, <3>2, <3>4 DEF Initial
        <3> QED
            BY <3>3, <3>4
    <2>12. ReviewTypeOK'
        BY <1>1, <1>4, <1>5, <2>1, <2>3, <2>6, <2>7 DEF ReviewTypeOK
    <2>13. RowsInv' /\ RevisionsUnique'
        BY <1>1, <1>5, <2>7 DEF RowsInv, RevisionsUnique, LinksOK, ChainOK, OfRole
    <2>14. AdjudicatedInv' /\ ApprovedInv'
        BY <1>1, <1>5, <2>7, AdjudicatedKept, ApprovedKept
    <2>15. ASSUME NEW d \in Clients
           PROVE  CallOK(call[d])'
        <3>1. CASE d # c
            <4>1. call'[d] = call[d] /\ CallOK(call[d])
                BY <1>1, <2>6, <3>1 DEF OthersKept, CallsInv
            <4> QED
                BY <1>1, <2>1, <2>7, <4>1, CallKept
        <3>2. CASE d = c
            <4>1. call'[d] = y
                BY <2>6, <3>2
            <4>2. /\ y.paths \subseteq PairDiffers(i)
                  /\ y.found = PairDiffers(i) \ y.paths
                  /\ y.found \subseteq Stored(i) \cup {p}
                BY <1>3, <2>3, <2>5
            <4>3. PairDiffers(call[d].pair)' = PairDiffers(i)
                BY <1>5, <2>5, <4>1 DEF PairDiffers
            <4>4. Stored(call[d].pair)' = Stored(i) \cup {p}
                <5>1. call'[d].pair = i
                    BY <2>5, <4>1
                <5>2. {q \in Paths : <<i, q>> \in disagreements'} = Stored(i) \cup {p}
                    <6> HIDE DEF i
                    <6> QED
                        BY <2>1, <2>3 DEF Stored
                <5>3. Stored(call[d].pair)' = {q \in Paths : <<i, q>> \in disagreements'}
                    BY <5>1 DEF Stored
                <5> QED
                    BY <5>2, <5>3
            <4>5. call'[d].pair \in OfRole("independent")'
                BY <1>3, <1>5, <2>5, <4>1 DEF OfRole, LabelIds
            <4> QED
                BY <2>5, <4>1, <4>2, <4>3, <4>4, <4>5 DEF CallOK
        <3> QED
            BY <3>1, <3>2
    <2>16. CallsInv'
        BY <2>15 DEF CallsInv
    <2> QED
        BY <2>11, <2>12, <2>13, <2>14, <2>16 DEF ReviewInv
<1> QED
    BY <1>7, <1>8, <1>9

\* create_adjudication keeps the invariant.
LEMMA ResolveKeeps ==
    ASSUME ReviewInv, NEW c \in Clients, Resolve(c)
    PROVE  ReviewInv'
<1> DEFINE x == call[c]
           i == x.pair
           p == Min(x.paths)
           l == x.made
<1>1. ReviewTypeOK /\ RowsInv /\ RevisionsUnique /\ StoredInv /\ AdjudicatedInv /\ ApprovedInv
      /\ CallsInv
    BY DEF ReviewInv
<1>2. call \in [Clients -> Calls] /\ x \in Calls /\ CallOK(x) /\ x.pc = "resolve"
    BY <1>1 DEF ReviewTypeOK, CallsInv, Resolve, At
<1>3. i \in OfRole("independent") /\ l \in OfRole("adjudicated") /\ labels[l].independent = i
    BY <1>2 DEF CallOK
<1>4. i \in LabelIds /\ l \in LabelIds /\ labels[l].role = "adjudicated"
    BY <1>3 DEF OfRole
<1>5. UNCHANGED <<attestations, labels, disagreements, approved>>
    BY DEF Resolve
<1>6. CASE FinishCall(c) /\ adjudications' = adjudications
    BY <1>5, <1>6, FinishKeeps
<1>7. CASE /\ x.paths # {} /\ Unresolved(i, p)
           /\ adjudications' = adjudications \cup {<<i, p, l>>}
           /\ call' = [call EXCEPT ![c].paths = @ \ {p}]
    <2> DEFINE y == [x EXCEPT !.paths = x.paths \ {p}]
    <2>1. p \in x.paths /\ x.paths \subseteq Paths
        <3>1. x.paths \in SUBSET Nat /\ x.paths \subseteq Paths
            BY <1>2, ReviewAssumption DEF Calls
        <3> QED
            BY <1>7, <3>1, MinIsLeast
    <2> HIDE DEF p
    <2>2. call' = [call EXCEPT ![c] = y]
        BY <1>2, <1>7
    <2>3. /\ y \in Calls /\ y.pc = "resolve" /\ y.pair = i /\ y.made = l
        BY <1>2, <2>1 DEF Calls
    <2> HIDE DEF y
    <2>4. call' \in [Clients -> Calls] /\ call'[c] = y /\ OthersKept(c)
        BY <1>1, <2>2, <2>3, CallEffect
    <2>5. LabelIds' = LabelIds /\ RowsKept
        BY <1>5 DEF LabelIds, RowsKept
    <2>6. ReviewTypeOK'
        <3>1. adjudications' \subseteq LabelIds \X Paths \X LabelIds
            BY <1>1, <1>4, <1>7, <2>1 DEF ReviewTypeOK
        <3> QED
            BY <1>1, <1>5, <2>4, <2>5, <3>1 DEF ReviewTypeOK
    <2>7. RowsInv' /\ RevisionsUnique'
        BY <1>1, <1>5, <2>5 DEF RowsInv, RevisionsUnique, LinksOK, ChainOK, OfRole
    <2>8. StoredInv' /\ ApprovedInv'
        BY <1>1, <1>5, <1>7, <2>5, StoredKept, ApprovedKept
    <2>9. AdjudicatedInv'
        <3>1. \A m \in LabelIds : <<i, p, m>> \notin adjudications
            BY <1>7 DEF Unresolved, AdjudicationOf
        <3> HIDE DEF i, l
        <3>2. \A j, k \in LabelIds, q \in Paths :
                 <<j, q, k>> \in adjudications' =>
                    <<j, q, k>> \in adjudications \/ (j = i /\ q = p /\ k = l)
            BY <1>7
        <3>3. (\A j, k, m \in LabelIds, q \in Paths :
                 <<j, q, k>> \in adjudications /\ <<j, q, m>> \in adjudications => k = m)'
            BY <1>1, <2>5, <3>1, <3>2 DEF AdjudicatedInv
        <3>4. (\A j, k \in LabelIds, q \in Paths :
                 <<j, q, k>> \in adjudications =>
                    labels[k].role = "adjudicated" /\ labels[k].independent = j)'
            BY <1>1, <1>3, <1>4, <1>5, <2>5, <3>2 DEF AdjudicatedInv
        <3> QED
            BY <3>3, <3>4 DEF AdjudicatedInv
    <2>10. ASSUME NEW d \in Clients
           PROVE  CallOK(call[d])'
        <3>1. CASE d # c
            <4>1. call'[d] = call[d] /\ CallOK(call[d])
                BY <1>1, <2>4, <3>1 DEF OthersKept, CallsInv
            <4> QED
                BY <1>1, <1>5, <2>5, <4>1, CallKept
        <3>2. CASE d = c
            <4>1. call'[d] = y
                BY <2>4, <3>2
            <4>2. i \in OfRole("independent")' /\ l \in OfRole("adjudicated")'
                BY <1>3, <1>5 DEF OfRole, LabelIds
            <4> QED
                BY <1>3, <1>5, <2>3, <4>1, <4>2 DEF CallOK
        <3> QED
            BY <3>1, <3>2
    <2>11. CallsInv'
        BY <2>10 DEF CallsInv
    <2> QED
        BY <2>6, <2>7, <2>8, <2>9, <2>11 DEF ReviewInv
<1> QED
    BY <1>6, <1>7 DEF Resolve

\* approved_final_label keeps the invariant: what it was given is the first of
\* the differences, so a material one among them is after the first material
\* one, which is then adjudicated to the same label.
LEMMA ApproveKeeps ==
    ASSUME ReviewInv, NEW c \in Clients, ApproveFinal(c)
    PROVE  ReviewInv'
<1> DEFINE x == call[c]
           i == x.pair
           material == x.found \cap Material
           final == IF material = {} THEN {labels[i].primary}
                    ELSE {l \in LabelIds : \A p \in material : l \in AdjudicationOf(i, p)}
<1>1. ReviewTypeOK /\ RowsInv /\ RevisionsUnique /\ StoredInv /\ AdjudicatedInv /\ ApprovedInv
      /\ CallsInv
    BY DEF ReviewInv
<1>2. CallOK(x) /\ x.pc = "final"
    BY <1>1 DEF CallsInv, ApproveFinal, At
<1>3. i \in OfRole("independent") /\ Initial(x.found, i)
    BY <1>2 DEF CallOK
<1>4. i \in LabelIds /\ labels[i].primary \in OfRole("primary") /\ labels[i].primary \in LabelIds
      /\ PairDiffers(i) \subseteq Paths
    BY <1>1, <1>3, Compared
<1>5. UNCHANGED <<attestations, labels, disagreements, adjudications>> /\ FinishCall(c)
    BY DEF ApproveFinal, tables
<1>6. CASE approved' = approved
    BY <1>5, <1>6, FinishKeeps
<1>7. ASSUME NEW l \in final, approved' = approved \cup {<<i, l>>}
      PROVE  ReviewInv'
    <2>1. /\ l \in LabelIds
          /\ labels[l].role = "adjudicated" => DecidesFirst(i, l)
        <3>1. CASE material = {}
            <4>1. l = labels[i].primary
                BY <1>7, <3>1
            <4>2. labels[l].role = "primary"
                BY <1>4, <4>1 DEF OfRole
            <4> QED
                BY <1>4, <4>1, <4>2
        <3>2. CASE material # {}
            <4>1. l \in LabelIds /\ \A p \in material : <<i, p, l>> \in adjudications
                BY <1>7, <3>2 DEF AdjudicationOf
            <4>2. material \subseteq PairDiffers(i) \cap Material
                BY <1>3 DEF Initial
            <4>3. ASSUME NEW p \in PairDiffers(i) \cap Material,
                         \A q \in PairDiffers(i) \cap Material : p <= q
                  PROVE  p \in material
                <5>1. PICK q \in material : TRUE
                    BY <3>2
                <5>2. p <= q /\ p \in Nat /\ q \in Nat
                    BY <1>4, <4>2, <4>3, <5>1, ReviewAssumption
                <5>3. CASE p = q
                    BY <5>1, <5>3
                <5>4. CASE p < q
                    BY <1>3, <5>1, <5>4 DEF Initial
                <5> QED
                    BY <5>2, <5>3, <5>4
            <4> HIDE DEF material
            <4>4. DecidesFirst(i, l)
                BY <3>2, <4>1, <4>2, <4>3 DEF DecidesFirst
            <4> QED
                BY <4>1, <4>4
        <3> QED
            BY <3>1, <3>2
    <2> HIDE DEF i, final
    <2>2. LabelIds' = LabelIds /\ RowsKept
        BY <1>5 DEF LabelIds, RowsKept
    <2>3. call' \in [Clients -> Calls] /\ call'[c] = IdleCall /\ OthersKept(c)
        BY <1>1, <1>5, FinishEffect
    <2>4. ReviewTypeOK'
        BY <1>1, <1>4, <1>5, <1>7, <2>1, <2>2, <2>3 DEF ReviewTypeOK
    <2>5. RowsInv' /\ RevisionsUnique'
        BY <1>1, <1>5, <2>2 DEF RowsInv, RevisionsUnique, LinksOK, ChainOK, OfRole
    <2>6. StoredInv' /\ AdjudicatedInv'
        BY <1>1, <1>5, <2>2, StoredKept, AdjudicatedKept
    <2>7. ApprovedInv'
        <3> SUFFICES ASSUME NEW j \in LabelIds, NEW m \in LabelIds, <<j, m>> \in approved'
                     PROVE  /\ j \in OfRole("independent")'
                            /\ labels'[m].role = "adjudicated" => DecidesFirst(j, m)'
            BY <2>2 DEF ApprovedInv
        <3>1. DecidesFirst(j, m)' <=> DecidesFirst(j, m)
            BY <1>5 DEF DecidesFirst, PairDiffers
        <3>2. OfRole("independent")' = OfRole("independent")
            BY <1>5, <2>2 DEF OfRole
        <3>3. CASE <<j, m>> \in approved
            BY <1>1, <1>5, <3>1, <3>2, <3>3 DEF ApprovedInv
        <3>4. CASE j = i /\ m = l
            BY <1>3, <1>5, <2>1, <3>1, <3>2, <3>4
        <3> QED
            BY <1>7, <3>3, <3>4
    <2>8. ASSUME NEW d \in Clients
          PROVE  CallOK(call[d])'
        <3>1. CASE d # c
            <4>1. call'[d] = call[d] /\ CallOK(call[d])
                BY <1>1, <2>3, <3>1 DEF OthersKept, CallsInv
            <4> QED
                BY <1>1, <1>5, <2>2, <4>1, CallKept
        <3>2. CASE d = c
            <4>1. call'[d].pc = "idle"
                BY <2>3, <3>2, IdleCallOK
            <4> QED
                BY <4>1 DEF CallOK
        <3> QED
            BY <3>1, <3>2
    <2>9. CallsInv'
        BY <2>8 DEF CallsInv
    <2> QED
        BY <2>4, <2>5, <2>6, <2>7, <2>9 DEF ReviewInv
<1> QED
    BY <1>6, <1>7 DEF ApproveFinal

-----------------------------------------------------------------------------
(* The invariant of the review workflow and what follows from it.          *)

\* The empty tables, with every caller idle, satisfy the invariant.
LEMMA ReviewInitInv == ReviewInit => ReviewInv
<1> SUFFICES ASSUME ReviewInit PROVE ReviewInv
    OBVIOUS
<1>1. /\ attestations = {} /\ labels = << >> /\ disagreements = {} /\ adjudications = {}
      /\ call = [c \in Clients |-> IdleCall] /\ approved = {}
    BY DEF ReviewInit
<1>2. LabelIds = {} /\ labels \in Seq(LabelRows)
    BY <1>1 DEF LabelIds
<1>3. IdleCall \in Calls /\ IdleCall.pc = "idle"
    BY IdleCallOK
<1>4. call \in [Clients -> Calls] /\ \A c \in Clients : call[c].pc = "idle"
    BY <1>1, <1>3
<1>5. ReviewTypeOK
    BY <1>1, <1>2, <1>4 DEF ReviewTypeOK
<1>6. RowsInv /\ RevisionsUnique /\ AdjudicatedInv /\ ApprovedInv
    BY <1>2 DEF RowsInv, RevisionsUnique, AdjudicatedInv, ApprovedInv
<1>7. StoredInv
    BY <1>2 DEF StoredInv, OfRole
<1>8. CallsInv
    BY <1>4 DEF CallsInv, CallOK
<1> QED
    BY <1>5, <1>6, <1>7, <1>8 DEF ReviewInv

\* Every step of every caller, and every stuttering step, keeps the invariant.
LEMMA ReviewStepInv == ReviewInv /\ [ReviewNext]_reviewVars => ReviewInv'
<1> SUFFICES ASSUME ReviewInv, [ReviewNext]_reviewVars PROVE ReviewInv'
    OBVIOUS
<1>1. CASE UNCHANGED reviewVars
    <2>1. UNCHANGED <<attestations, labels, disagreements, adjudications, call, approved>>
        BY <1>1 DEF reviewVars
    <2>2. LabelIds' = LabelIds /\ RowsKept
        BY <2>1 DEF LabelIds, RowsKept
    <2>3. ReviewTypeOK /\ RowsInv /\ RevisionsUnique /\ StoredInv /\ AdjudicatedInv /\ ApprovedInv
          /\ CallsInv
        BY DEF ReviewInv
    <2>4. ReviewTypeOK'
        BY <2>1, <2>2, <2>3 DEF ReviewTypeOK
    <2>5. RowsInv' /\ RevisionsUnique'
        BY <2>1, <2>2, <2>3 DEF RowsInv, RevisionsUnique, LinksOK, ChainOK, OfRole
    <2>6. StoredInv' /\ AdjudicatedInv' /\ ApprovedInv'
        BY <2>1, <2>2, <2>3, StoredKept, AdjudicatedKept, ApprovedKept
    <2>7. CallsInv'
        BY <2>1, <2>2, <2>3, CallKept DEF CallsInv
    <2> QED
        BY <2>4, <2>5, <2>6, <2>7 DEF ReviewInv
<1>2. CASE \E a \in Attesting : RecordAttestation(a)
    BY <1>2, AttestationKeeps
<1>3. ASSUME NEW c \in Clients,
             \/ \E r \in Reviewers, v \in Versions, x \in Contents, h, k \in BOOLEAN :
                    SubmitPrimary(c, r, v, x, h, k)
             \/ \E r \in Reviewers, x \in Contents : ReadPacket(c, r, x)
             \/ \E k \in BOOLEAN : SubmitIndependent(c, k)
             \/ Compose(c)
             \/ Insert(c)
      PROVE  ReviewInv'
    BY <1>3, PrimaryKeeps, PacketKeeps, IndependentKeeps, ComposeKeeps, InsertKeeps
<1>4. ASSUME NEW c \in Clients,
             \/ \E i \in LabelIds, then \in {"idle", "final"} : ListDisagreements(c, i, then)
             \/ RecordDisagreement(c)
             \/ \E i \in LabelIds, r \in Reviewers, x \in Contents, b \in SUBSET Material :
                    Adjudicate(c, i, r, x, b)
             \/ CheckUnadjudicated(c)
             \/ Resolve(c)
             \/ ApproveFinal(c)
             \/ Interrupt(c)
      PROVE  ReviewInv'
    BY <1>4, ListingKeeps, RecordKeeps, AdjudicateKeeps, CheckKeeps, ResolveKeeps,
       ApproveKeeps, InterruptKeeps
<1> QED
    BY <1>1, <1>2, <1>3, <1>4 DEF ReviewNext

\* Whatever the interleaving of callers and wherever they are interrupted, the
\* rows, the recorded disagreements and what each caller has read agree
\* (evaluation_reviews.py, every operation).
THEOREM ReviewInvariance == ReviewSpec => []ReviewInv
<1>1. ReviewInit => ReviewInv
    BY ReviewInitInv
<1>2. ReviewInv /\ [ReviewNext]_reviewVars => ReviewInv'
    BY ReviewStepInv
<1> QED
    BY <1>1, <1>2, PTL DEF ReviewSpec

\* No revision number of a role is given twice and each revision changes the
\* one it names as its parent, although the number is computed in an earlier
\* transaction (_create_label, uq_evaluation_review_labels_revision).
THEOREM RevisionsChained == ReviewSpec => []RevisionChains
<1>1. ReviewInv => RevisionChains
    <2> SUFFICES ASSUME ReviewInv PROVE RevisionChains
        OBVIOUS
    <2>1. RowsInv /\ RevisionsUnique
        BY DEF ReviewInv
    <2>2. ASSUME NEW k \in LabelIds
          PROVE  IF labels[k].revision = 1 THEN labels[k].parent = 0
                 ELSE /\ labels[k].parent \in LabelIds
                      /\ labels[k].parent < k
                      /\ labels[labels[k].parent].role = labels[k].role
                      /\ labels[labels[k].parent].revision = labels[k].revision - 1
                      /\ labels[labels[k].parent].content # labels[k].content
        <3>1. ChainOK(labels[k]) /\ labels[k].parent < k
            BY <2>1 DEF RowsInv
        <3> QED
            BY <3>1 DEF ChainOK
    <2> QED
        BY <2>1, <2>2 DEF RevisionChains, RevisionsUnique
<1> QED
    BY <1>1, ReviewInvariance, PTL

\* The reviewers behind a comparison and its adjudication are three different
\* people, for the primary label the row is really linked to
\* (submit_independent's second read, adjudicate).
THEOREM ReviewersDistinct == ReviewSpec => []PartiesDistinct
<1>1. ReviewInv => PartiesDistinct
    <2> SUFFICES ASSUME ReviewInv, NEW k \in LabelIds
                 PROVE  /\ labels[k].role = "independent" =>
                              labels[k].reviewer # labels[labels[k].primary].reviewer
                        /\ labels[k].role = "adjudicated" =>
                              labels[k].reviewer \notin
                                 {labels[labels[k].primary].reviewer,
                                  labels[labels[k].independent].reviewer}
        BY DEF PartiesDistinct
    <2>1. LinksOK(labels[k])
        BY DEF ReviewInv, RowsInv
    <2> QED
        BY <2>1 DEF LinksOK
<1> QED
    BY <1>1, ReviewInvariance, PTL

\* approved_final_label never returns two different adjudicated labels for one
\* comparison, and what it returns was made for that comparison: each such
\* label holds the only adjudication of the first material difference.
THEOREM FinalLabelUnique == ReviewSpec => []OneAdjudicatedFinal
<1>1. ASSUME ReviewInv, NEW a \in approved, labels[a[2]].role = "adjudicated"
      PROVE  /\ a[1] \in LabelIds /\ a[2] \in LabelIds
             /\ \E p \in Paths :
                   /\ p \in PairDiffers(a[1]) \cap Material
                   /\ \A q \in PairDiffers(a[1]) \cap Material : p <= q
             /\ DecidesFirst(a[1], a[2])
             /\ PairDiffers(a[1]) \subseteq Paths
    <2>1. a[1] \in LabelIds /\ a[2] \in LabelIds /\ a = <<a[1], a[2]>>
        BY <1>1 DEF ReviewInv, ReviewTypeOK
    <2>2. a[1] \in OfRole("independent") /\ DecidesFirst(a[1], a[2])
        BY <1>1, <2>1 DEF ReviewInv, ApprovedInv
    <2>3. PairDiffers(a[1]) \subseteq Paths
        BY <1>1, <2>2, Compared DEF ReviewInv
    <2>4. PairDiffers(a[1]) \cap Material # {}
        BY <2>2 DEF DecidesFirst
    <2>5. PairDiffers(a[1]) \cap Material \in SUBSET Nat
        BY <2>3, ReviewAssumption
    <2>6. \E p \in PairDiffers(a[1]) \cap Material :
             \A q \in PairDiffers(a[1]) \cap Material : p <= q
        BY <2>4, <2>5, LeastNumber
    <2> QED
        BY <2>1, <2>2, <2>3, <2>6
<1>2. ASSUME ReviewInv, NEW a \in approved, labels[a[2]].role = "adjudicated"
      PROVE  labels[a[2]].independent = a[1]
    <2>1. PICK p \in Paths : /\ p \in PairDiffers(a[1]) \cap Material
                             /\ \A q \in PairDiffers(a[1]) \cap Material : p <= q
        BY <1>1, <1>2
    <2>2. <<a[1], p, a[2]>> \in adjudications
        BY <1>1, <1>2, <2>1 DEF DecidesFirst
    <2> QED
        BY <1>1, <1>2, <2>2 DEF ReviewInv, AdjudicatedInv
<1>3. ASSUME ReviewInv, NEW a \in approved, NEW b \in approved, a[1] = b[1],
             labels[a[2]].role = "adjudicated", labels[b[2]].role = "adjudicated"
      PROVE  a[2] = b[2]
    <2>1. PICK p \in Paths : /\ p \in PairDiffers(a[1]) \cap Material
                             /\ \A q \in PairDiffers(a[1]) \cap Material : p <= q
        BY <1>1, <1>3
    <2>2. <<a[1], p, a[2]>> \in adjudications
        BY <1>1, <1>3, <2>1 DEF DecidesFirst
    <2>3. <<a[1], p, b[2]>> \in adjudications
        <3>1. DecidesFirst(a[1], b[2])
            BY <1>1, <1>3
        <3> QED
            BY <2>1, <3>1 DEF DecidesFirst
    <2>4. a[1] \in LabelIds /\ a[2] \in LabelIds /\ b[2] \in LabelIds
        BY <1>1, <1>3
    <2> QED
        BY <1>3, <2>2, <2>3, <2>4 DEF ReviewInv, AdjudicatedInv
<1>4. ReviewInv => OneAdjudicatedFinal
    BY <1>2, <1>3 DEF OneAdjudicatedFinal
<1> QED
    BY <1>4, ReviewInvariance, PTL

=============================================================================
