------------------------- MODULE EvaluationReviews -------------------------
(***************************************************************************)
(* The immutable human-review workflow of evaluation labels                *)
(* (evaluation_reviews.py) for one subject of one case: attestation,       *)
(* primary review, blind independent review, recording of disagreements,   *)
(* adjudication and the approved final label.                              *)
(*                                                                         *)
(* Every repository call is a transaction of its own, so an operation is a *)
(* sequence of steps of its caller, with the values read before kept in    *)
(* "call".  Between two steps another caller may act and the caller may be *)
(* interrupted.                                                            *)
(*                                                                         *)
(* A label's content is a function from the field paths it has to values:  *)
(* what _flatten_labels computes.  Paths are numbers, in their sorted      *)
(* order.  A dataset version stands for the pair of dataset and rubric     *)
(* versions.                                                               *)
(***************************************************************************)
EXTENDS Integers, FiniteSets, Sequences, FiniteSetsExt

CONSTANTS Reviewers,       \* reviewer ids
          Versions,        \* dataset and rubric versions
          Attesting,       \* the attestations reviewers give, of Attestations
          Contents,        \* validated label contents
          Material,        \* paths whose disagreement must be adjudicated
          Clients,         \* concurrent callers of the service
          MaxRevision      \* bound: revisions of each role

Roles == {"primary", "independent", "adjudicated"}

Attestations == [reviewer: Reviewers, version: Versions,
                 eligible: BOOLEAN, independent: BOOLEAN]

Paths == UNION {DOMAIN x : x \in Contents}

ASSUME ReviewAssumption ==
    /\ Paths \subseteq Nat
    /\ Material \subseteq Paths
    /\ Attesting \subseteq Attestations
    /\ MaxRevision \in [Roles -> Nat]

\* One row of evaluation_review_labels.  A row is named by its position in the
\* table; 0 stands for NULL.
LabelRows == [role: Roles, reviewer: Reviewers, version: Versions,
              content: Contents, revision: Nat, parent: Nat,
              primary: Nat, independent: Nat]

VARIABLES
    attestations,  \* rows of evaluation_reviewer_attestations
    labels,        \* rows of evaluation_review_labels, in insertion order
    disagreements, \* rows <<independent label, path>>
    adjudications, \* rows <<independent label, path, adjudicated label>>
    call,          \* what each caller is doing, with the values it has read
    approved       \* history: <<independent label, label returned as final>>

tables == <<attestations, labels, disagreements, adjudications>>
reviewVars == <<attestations, labels, disagreements, adjudications, call, approved>>

Steps == {"idle", "packet", "unadjudicated", "compose", "insert", "record",
          "resolve", "final"}

NoLabel == [role |-> "none"]

\* pc is the next step, then the step that follows the shared recording loop;
\* draft is the label being made and made its row; pair is the independent
\* label under comparison; paths the disagreements still to store or resolve;
\* found those a listing answered; blank the rationales left empty.
Calls == [pc: Steps, then: {"idle", "final"}, draft: LabelRows \cup {NoLabel},
          pair: Nat, made: Nat,
          paths: SUBSET Paths, found: SUBSET Paths, blank: SUBSET Paths]

IdleCall == [pc |-> "idle", then |-> "idle", draft |-> NoLabel, pair |-> 0, made |-> 0,
         paths |-> {}, found |-> {}, blank |-> {}]

ReviewInit ==
    /\ attestations = {}
    /\ labels = << >>
    /\ disagreements = {}
    /\ adjudications = {}
    /\ call = [c \in Clients |-> IdleCall]
    /\ approved = {}

At(c, step) == call[c].pc = step

FinishCall(c) == call' = [call EXCEPT ![c] = IdleCall]

-----------------------------------------------------------------------------
(* What an operation reads.                                                *)

LabelIds == DOMAIN labels

OfRole(role) == {k \in LabelIds : labels[k].role = role}

\* The bound on the rows of a role, as a guard of the operations that add one.
Room(role) == Cardinality(OfRole(role)) < MaxRevision[role]

\* _latest_label: the greatest revision, later rows winning a tie.
Latest(role) ==
    CHOOSE k \in OfRole(role) :
        \A j \in OfRole(role) :
            \/ labels[j].revision < labels[k].revision
            \/ labels[j].revision = labels[k].revision /\ j <= k

\* _attestation_for
Attested(reviewer, version, requireIndependent) ==
    \E a \in attestations :
        /\ a.eligible
        /\ a.reviewer = reviewer
        /\ a.version = version
        /\ requireIndependent => a.independent

\* The paths on which two contents differ, a missing path included.
Differing(x, y) ==
    {p \in DOMAIN x \cup DOMAIN y :
        ~(p \in DOMAIN x /\ p \in DOMAIN y /\ x[p] = y[p])}

PairDiffers(i) == Differing(labels[labels[i].primary].content, labels[i].content)

Stored(i) == {p \in Paths : <<i, p>> \in disagreements}

\* _create_label: which captured hashes a role must and must not carry.
CaptureShape(role, candidateHash, packetHash) ==
    CASE role = "primary"     -> candidateHash /\ packetHash
      [] role = "independent" -> ~candidateHash /\ packetHash
      [] OTHER                -> ~candidateHash /\ ~packetHash

-----------------------------------------------------------------------------
(* Attestation and the two reviews.                                        *)

\* record_attestation, create_attestation
RecordAttestation(a) ==
    /\ a \notin attestations
    /\ attestations' = attestations \cup {a}
    /\ UNCHANGED <<labels, disagreements, adjudications, call, approved>>

\* _create_label, up to the insert: the revision follows the latest label of
\* the role as read now, and must change its content.
Compose(c) ==
    /\ At(c, "compose")
    /\ LET draft == call[c].draft
           prior == IF OfRole(draft.role) = {} THEN 0 ELSE Latest(draft.role)
           row   == [draft EXCEPT !.parent = prior,
                                  !.revision = IF prior = 0 THEN 1
                                               ELSE labels[prior].revision + 1]
       IN IF prior # 0 /\ labels[prior].content = draft.content
          THEN FinishCall(c)
          ELSE call' = [call EXCEPT ![c].pc = "insert", ![c].draft = row]
    /\ UNCHANGED <<tables, approved>>

RevisionFree_Unchecked(row) == TRUE

\* uq_evaluation_review_labels_revision
RevisionFree(row) ==
    \A k \in LabelIds : labels[k].role = row.role => labels[k].revision # row.revision

\* create_label: a taken revision number is reported as unavailability.  An
\* adjudication goes on to store its resolutions.
Insert(c) ==
    /\ At(c, "insert")
    /\ LET row == call[c].draft IN
       IF RevisionFree(row)
       THEN /\ row.revision <= MaxRevision[row.role]
            /\ labels' = Append(labels, row)
            /\ IF row.role = "adjudicated"
               THEN call' = [call EXCEPT ![c].pc = "resolve",
                                         ![c].made = Len(labels) + 1]
               ELSE FinishCall(c)
       ELSE FinishCall(c) /\ UNCHANGED labels
    /\ UNCHANGED <<attestations, disagreements, adjudications, approved>>

Draft(role, r, v, x, p, i) ==
    [role |-> role, reviewer |-> r, version |-> v, content |-> x,
     revision |-> 0, parent |-> 0, primary |-> p, independent |-> i]

\* submit_primary
SubmitPrimary(c, r, v, x, candidateHash, packetHash) ==
    /\ At(c, "idle")
    /\ Room("primary")
    /\ Attested(r, v, FALSE)
    /\ CaptureShape("primary", candidateHash, packetHash)
    /\ call' = [call EXCEPT ![c].pc = "compose",
                            ![c].draft = Draft("primary", r, v, x, 0, 0)]
    /\ UNCHANGED <<tables, approved>>

\* submit_independent, first read: blind_independent_review_packet fixes the
\* case and the versions of the label.
ReadPacket(c, r, x) ==
    /\ At(c, "idle")
    /\ Room("independent")
    /\ OfRole("primary") # {}
    /\ LET v == labels[Latest("primary")].version IN
       call' = [call EXCEPT ![c].pc = "packet",
                            ![c].draft = Draft("independent", r, v, x, Latest("primary"), 0)]
    /\ UNCHANGED <<tables, approved>>

SubmitIndependent_PacketReviewer(c, packetHash) ==
    /\ At(c, "packet")
    /\ LET draft == call[c].draft
           p     == Latest("primary")
       IN IF /\ draft.reviewer # labels[draft.primary].reviewer
             /\ Attested(draft.reviewer, draft.version, TRUE)
             /\ CaptureShape("independent", FALSE, packetHash)
          THEN call' = [call EXCEPT ![c].pc = "compose", ![c].draft.primary = p]
          ELSE FinishCall(c)
    /\ UNCHANGED <<tables, approved>>

\* submit_independent, second read: the primary label it is linked to, the
\* reviewer comparison and the independence attestation.
SubmitIndependent(c, packetHash) ==
    /\ At(c, "packet")
    /\ LET draft == call[c].draft
           p     == Latest("primary")
       IN IF /\ draft.reviewer # labels[p].reviewer
             /\ Attested(draft.reviewer, draft.version, TRUE)
             /\ CaptureShape("independent", FALSE, packetHash)
          THEN call' = [call EXCEPT ![c].pc = "compose", ![c].draft.primary = p]
          ELSE FinishCall(c)
    /\ UNCHANGED <<tables, approved>>

-----------------------------------------------------------------------------
(* Disagreements.                                                          *)

\* The recorded disagreements go to the caller or to approved_final_label.
Return(c, i, then, found) ==
    call' = [call EXCEPT ![c] =
               IF then = "idle" THEN IdleCall
               ELSE [IdleCall EXCEPT !.pc = then, !.pair = i, !.found = found]]

\* record_material_disagreements, called by itself or by approved_final_label:
\* a non-empty listing is taken for the whole comparison.
ListDisagreements(c, i, then) ==
    /\ At(c, "idle")
    /\ labels[i].role = "independent"
    /\ IF Stored(i) # {} THEN Return(c, i, then, Stored(i))
       ELSE call' = [call EXCEPT ![c] = [IdleCall EXCEPT !.pc = "record", !.then = then,
                                                    !.pair = i, !.paths = PairDiffers(i)]]
    /\ UNCHANGED <<tables, approved>>

\* record_material_disagreements, its loop: one create_disagreement per
\* differing path, in path order; a row of another caller is unavailability.
RecordDisagreement(c) ==
    /\ At(c, "record")
    /\ LET i == call[c].pair IN
       IF call[c].paths = {}
       THEN /\ Return(c, i, call[c].then, call[c].found)
            /\ UNCHANGED disagreements
       ELSE LET p == Min(call[c].paths) IN
            IF <<i, p>> \in disagreements
            THEN FinishCall(c) /\ UNCHANGED disagreements
            ELSE /\ disagreements' = disagreements \cup {<<i, p>>}
                 /\ call' = [call EXCEPT ![c].paths = @ \ {p}, ![c].found = @ \cup {p}]
    /\ UNCHANGED <<attestations, labels, adjudications, approved>>

-----------------------------------------------------------------------------
(* Adjudication and the final label.                                       *)

\* adjudicate, up to the listing of the disagreements: a third reviewer with a
\* rationale, possibly blank, for exactly the material ones.
Adjudicate(c, i, r, x, blank) ==
    /\ At(c, "idle")
    /\ Room("adjudicated")
    /\ labels[i].role = "independent"
    /\ LET p        == labels[i].primary
           material == Stored(i) \cap Material
       IN /\ r \notin {labels[p].reviewer, labels[i].reviewer}
          /\ Attested(r, labels[p].version, FALSE)
          /\ material # {}
          /\ blank \subseteq material
          /\ call' = [call EXCEPT ![c] =
                        [IdleCall EXCEPT !.pc = "unadjudicated", !.paths = material,
                                     !.blank = blank, !.pair = i,
                                     !.draft = Draft("adjudicated", r,
                                                     labels[p].version, x, p, i)]]
    /\ UNCHANGED <<tables, approved>>

AdjudicationOf(i, p) == {l \in LabelIds : <<i, p, l>> \in adjudications}

\* adjudicate: none of the disagreements may have evidence yet.
CheckUnadjudicated(c) ==
    /\ At(c, "unadjudicated")
    /\ IF \A p \in call[c].paths : AdjudicationOf(call[c].pair, p) = {}
       THEN call' = [call EXCEPT ![c].pc = "compose"]
       ELSE FinishCall(c)
    /\ UNCHANGED <<tables, approved>>

Unresolved_Unchecked(i, p) == TRUE

\* uq_evaluation_review_adjudications_disagreement
Unresolved(i, p) == AdjudicationOf(i, p) = {}

\* adjudicate, its loop: the rationale is required only when its row is made.
Resolve(c) ==
    /\ At(c, "resolve")
    /\ LET i == call[c].pair
           p == Min(call[c].paths)
       IN IF call[c].paths = {} \/ p \in call[c].blank \/ ~Unresolved(i, p)
          THEN FinishCall(c) /\ UNCHANGED adjudications
          ELSE /\ adjudications' = adjudications \cup {<<i, p, call[c].made>>}
               /\ call' = [call EXCEPT ![c].paths = @ \ {p}]
    /\ UNCHANGED <<attestations, labels, disagreements, approved>>

\* approved_final_label, once the disagreements are recorded or listed.
ApproveFinal(c) ==
    /\ At(c, "final")
    /\ LET i        == call[c].pair
           material == call[c].found \cap Material
           final    == IF material = {} THEN {labels[i].primary}
                       ELSE {l \in LabelIds :
                               \A p \in material : l \in AdjudicationOf(i, p)}
       IN IF final = {} THEN UNCHANGED approved
          ELSE \E l \in final : approved' = approved \cup {<<i, l>>}
    /\ FinishCall(c)
    /\ UNCHANGED tables

\* The caller dies or loses the database between two transactions.
Interrupt(c) ==
    /\ ~At(c, "idle")
    /\ FinishCall(c)
    /\ UNCHANGED <<tables, approved>>

-----------------------------------------------------------------------------
ReviewNext ==
    \/ \E a \in Attesting : RecordAttestation(a)
    \/ \E c \in Clients :
        \/ \E r \in Reviewers, v \in Versions, x \in Contents, h, k \in BOOLEAN :
               SubmitPrimary(c, r, v, x, h, k)
        \/ \E r \in Reviewers, x \in Contents : ReadPacket(c, r, x)
        \/ \E k \in BOOLEAN : SubmitIndependent(c, k)
        \/ Compose(c)
        \/ Insert(c)
        \/ \E i \in LabelIds, then \in {"idle", "final"} : ListDisagreements(c, i, then)
        \/ RecordDisagreement(c)
        \/ \E i \in LabelIds, r \in Reviewers, x \in Contents, b \in SUBSET Material :
               Adjudicate(c, i, r, x, b)
        \/ CheckUnadjudicated(c)
        \/ Resolve(c)
        \/ ApproveFinal(c)
        \/ Interrupt(c)

ReviewSpec == ReviewInit /\ [][ReviewNext]_reviewVars

-----------------------------------------------------------------------------
(* Properties.                                                             *)

\* Every variable has the type of the rows and calls it stands for
\* (documents.py, the evaluation review tables).
ReviewTypeOK ==
    /\ attestations \subseteq Attesting
    /\ labels \in Seq(LabelRows)
    /\ disagreements \subseteq LabelIds \X Paths
    /\ adjudications \subseteq LabelIds \X Paths \X LabelIds
    /\ call \in [Clients -> Calls]
    /\ approved \subseteq LabelIds \X LabelIds

\* The revisions of a role form one chain although the number is computed from
\* a label read in an earlier transaction: no number is given twice, and each
\* revision changes the one it names as its parent (_create_label and
\* uq_evaluation_review_labels_revision).
RevisionChains ==
    /\ \A j, k \in LabelIds :
          (labels[j].role = labels[k].role /\ labels[j].revision = labels[k].revision)
             => j = k
    /\ \A k \in LabelIds :
          LET q == labels[k].parent IN
          IF labels[k].revision = 1 THEN q = 0
          ELSE /\ q \in LabelIds
               /\ q < k
               /\ labels[q].role = labels[k].role
               /\ labels[q].revision = labels[k].revision - 1
               /\ labels[q].content # labels[k].content

\* Whatever the interleaving, the people behind one comparison are distinct:
\* the independent reviewer is not the author of the primary label the row is
\* linked to, and the adjudicator is neither (submit_independent, adjudicate).
PartiesDistinct ==
    \A k \in LabelIds :
        /\ labels[k].role = "independent" =>
              labels[k].reviewer # labels[labels[k].primary].reviewer
        /\ labels[k].role = "adjudicated" =>
              labels[k].reviewer \notin {labels[labels[k].primary].reviewer,
                                         labels[labels[k].independent].reviewer}

\* approved_final_label never returns two different adjudicated labels for one
\* comparison, however many adjudications were started for it, and what it
\* returns was made for that comparison.
OneAdjudicatedFinal ==
    \A a, b \in approved :
        /\ labels[a[2]].role = "adjudicated" => labels[a[2]].independent = a[1]
        /\ (/\ a[1] = b[1]
            /\ labels[a[2]].role = "adjudicated"
            /\ labels[b[2]].role = "adjudicated") => a[2] = b[2]

\* "Unresolved disagreement cannot be represented as an approved final label"
\* (docs/BACKLOG.md): a label returned as final leaves no material difference
\* of its pair without an adjudication to that label (approved_final_label).
UnresolvedNeverApproved ==
    \A a \in approved :
        \A p \in PairDiffers(a[1]) \cap Material : <<a[1], p, a[2]>> \in adjudications

=============================================================================
