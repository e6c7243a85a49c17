----------------------------- MODULE MCDocuments -----------------------------
(***************************************************************************)
(* Small instances, for TLC, of the two ends of a document's way into a    *)
(* project: the uploads that quarantine it and the indexing of the version *)
(* the parser accepted.  Between them lies the parser, so they share no    *)
(* state: a behaviour is one of a single end, chosen by the initial state, *)
(* while the other rests and owes nothing.                                 *)
(***************************************************************************)
EXTENDS MCDocumentIntake, MCIndexingPipeline

VARIABLE end

DocumentsInit == end \in {"upload", "index"} /\ IntakeInit /\ Init

DocumentsNext ==
    /\ UNCHANGED end
    /\ \/ end = "upload" /\ IntakeNext /\ UNCHANGED vars
       \/ end = "index" /\ Next /\ UNCHANGED intakeVars

\* IntakeFairness and Fairness, of the end that moves
DocumentsFairness ==
    /\ \A r \in Requests : WF_intakeVars(end = "upload" /\ Step(r))
    /\ \A c \in {d \in Contents : Admissible(d)} :
         SF_intakeVars(end = "upload" /\ \E r \in Requests, n \in Names : Receive(r, n, c))
    /\ WF_vars(end = "index" /\ Tick)
    /\ \A w \in Workers : WF_vars(end = "index" /\ WorkerStep(w))

DocumentsSpec ==
    DocumentsInit /\ [][DocumentsNext]_<<end, intakeVars, vars>> /\ DocumentsFairness

=============================================================================
