--------------------------- MODULE HybridRetrieval ---------------------------
(***************************************************************************)
(* Retrieval: which chunks a query may return, how the lexical and the     *)
(* semantic ranking are fused, and which of the traced candidates may be   *)
(* cited.                                                                  *)
(***************************************************************************)
EXTENDS Naturals, FiniteSets, Sequences, SequencesExt

CONSTANTS Chunk,        \* chunk |-> [project, version, type, chunking, ordinal, embedding]
          RankOffset,   \* RECIPROCAL_RANK_OFFSET
          MaxResults    \* MAX_HYBRID_RESULT_LIMIT

Chunks == DOMAIN Chunk

\* HybridRetrievalFilters.validate; {} stands for a filter that is not given.
FiltersValid(filters) == filters.embedding # ""

\* HybridRetrievalService.retrieve
QueryValid(query) ==
    /\ query.searchable                                    \* some letter or digit
    /\ query.dimensions \in 1..2000 /\ query.finite        \* _validate_query_embedding
    /\ query.result_limit \in 1..MaxResults
    /\ query.candidate_limit \in query.result_limit..MaxResults
    /\ FiltersValid(query.filters)

\* _candidate_statement
Candidates(project, filters) ==
    {x \in Chunks : /\ Chunk[x].project = project
                    /\ filters.versions = {} \/ Chunk[x].version \in filters.versions
                    /\ filters.types = {} \/ Chunk[x].type \in filters.types
                    /\ Chunk[x].chunking = filters.chunking}

\* The rankings PostgreSQL may return of a set of chunks, cut at the limit
RankingsOf(chunks, limit) ==
    UNION {SetToSeqs(s) : s \in {t \in SUBSET chunks : Cardinality(t) <= limit}}

\* _lexical_candidates: those of the candidates that match the query text
LexicalRankings(project, query) ==
    RankingsOf(Candidates(project, query.filters), query.candidate_limit)

\* _semantic_candidates: those with an embedding of the filters' model, all
\* of them up to the limit
Embedded(project, filters) ==
    {x \in Candidates(project, filters) : Chunk[x].embedding = filters.embedding}

SemanticRankings(project, query) ==
    {r \in RankingsOf(Embedded(project, query.filters), query.candidate_limit) :
       Len(r) = query.candidate_limit \/ ToSet(r) = Embedded(project, query.filters)}

\* One candidate per chunk, with the rank it has in each ranking, 0 for none
\* (_candidate_from_row and the merge in _fuse_candidates)
RankIn(x, ranking) ==
    IF Contains(ranking, x) THEN CHOOSE i \in DOMAIN ranking : ranking[i] = x ELSE 0

Merged(lexical, semantic) ==
    [x \in ToSet(lexical) \cup ToSet(semantic) |->
       [lexical |-> RankIn(x, lexical), semantic |-> RankIn(x, semantic)]]

\* _reciprocal_rank_score: 1/(60 + lexical) + 1/(60 + semantic), compared
\* exactly by cross-multiplication
ScoreParts(c) ==
    LET Part(rank) == IF rank = 0 THEN <<0, 1>> ELSE <<1, RankOffset + rank>>
        l == Part(c.lexical)
        s == Part(c.semantic)
    IN  <<l[1] * s[2] + s[1] * l[2], l[2] * s[2]>>

Higher(c, d) == ScoreParts(c)[1] * ScoreParts(d)[2] > ScoreParts(d)[1] * ScoreParts(c)[2]

\* _fuse_candidates: the best fused scores first, then document order; the
\* chunk id breaks what ties are left.
Fuse(lexical, semantic, limit) ==
    LET merged == Merged(lexical, semantic)
        Before(x, y) ==
            \/ Higher(merged[x], merged[y])
            \/ /\ ~Higher(merged[y], merged[x])
               /\ \/ Chunk[x].ordinal < Chunk[y].ordinal
                  \/ Chunk[x].ordinal = Chunk[y].ordinal /\ x < y
        ordered == SetToSortSeq(DOMAIN merged, Before)
    IN  SubSeq(ordered, 1, IF Len(ordered) < limit THEN Len(ordered) ELSE limit)

\* _selected_candidate_statement: a candidate of a trace of the project with a
\* final rank, whose document is the project's
Selected(trace, project) ==
    {x \in trace.selected : trace.project = project /\ Chunk[x].project = project}

\* The CitationRecord of a selected candidate
CitationOf(n, trace, x) ==
    [trace |-> n, chunk |-> x, project |-> trace.project, version |-> Chunk[x].version]

\* _citation_statement: the citation joins the chunk and the document it names.
CitationReadable(k) == Chunk[k.chunk].version = k.version /\ Chunk[k.chunk].project = k.project

\* The linkage retrieve checks before it answers
Linked(k, n, x, project) == k.project = project /\ k.trace = n /\ k.chunk = x
=============================================================================
