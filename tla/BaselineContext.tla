-------------------------- MODULE BaselineContext --------------------------
(***************************************************************************)
(* build_baseline_context (crates/ts-daemon): the candidates that a        *)
(* chunked scan finds for the terms and path hints of a query are scored,  *)
(* those that match nothing are left out unless nothing matches, and       *)
(* build_context packs the rest.                                           *)
(*                                                                         *)
(* A source names a file or a span of one, so that its path decides        *)
(* whether the query names it; the terms it has are those of its content.  *)
(***************************************************************************)
EXTENDS ContextBundle

CONSTANTS
    TermCounts  \* numbers of query terms that a content may have

\* A root has finitely many files.
ASSUME BaselineAssumption == IsFiniteSet(Sources) /\ TermCounts \subseteq Nat

VARIABLES
    named,      \* the sources whose path a hint of the query names
    terms,      \* the number of terms each content has
    found       \* the content of each source that the scan found

baselineVars == <<vars, named, terms, found>>

\* term_match_count is a u8.
MaxTermCount == 255

\* The relevance that candidate_from_path and chunk_candidate give a source:
\* the repository provider knows no diagnostics and no freshness.
Signals(s) ==
    LET n == terms[found[s]]
    IN  [exact |-> n > 0, count |-> IF n < MaxTermCount THEN n ELSE MaxTermCount,
         path |-> s \in named, diagnostic |-> FALSE, freshness |-> 0]

\* Mutant: a named path counts for as much as an exact match.
PathAsExact(r) ==
    (IF r.exact THEN 800 ELSE 0) + 100 * r.count + (IF r.path THEN 800 ELSE 0)
        + (IF r.diagnostic THEN 1000 ELSE 0) + r.freshness

\* RelevanceSignals::score
Score(r) ==
    (IF r.exact THEN 800 ELSE 0) + 100 * r.count + (IF r.path THEN 4000 ELSE 0)
        + (IF r.diagnostic THEN 1000 ELSE 0) + r.freshness

\* RelevanceSignals::breakdown: what an item says its score is made of.
Breakdown(r) ==
    LET Part(present, kind, value) ==
            IF present THEN <<[kind |-> kind, value |-> value]>> ELSE <<>>
    IN  Part(r.exact, "exact_match", 800)
        \o Part(r.count > 0, "query_coverage", 100 * r.count)
        \o Part(r.path, "path_match", 4000)
        \o Part(r.diagnostic, "diagnostic_priority", 1000)
        \o Part(r.freshness > 0, "freshness", r.freshness)

\* The sources that match something, or else all.
Relevant ==
    LET matching == {s \in DOMAIN found : Score(Signals(s)) > 0}
    IN  IF matching = {} THEN DOMAIN found ELSE matching

\* A scan returns its candidates in the order of their paths.
Scanned(sources) ==
    [k \in 1 .. Cardinality(sources) |->
        LET s == CHOOSE s \in sources : Cardinality({p \in sources : p < s}) = k - 1
        IN  [source |-> s, hash |-> found[s], score |-> Score(Signals(s))]]

BaselineInit ==
    /\ named \in SUBSET Sources
    /\ terms \in [Hashes -> TermCounts]
    /\ \E s \in SUBSET Sources : found \in [s -> Hashes]
    /\ candidates = Scanned(Relevant)
    /\ tokens \in [Hashes -> Tokens]
    /\ budget \in Budgets
    /\ next = 1
    /\ winners = <<>> /\ ranked = {} /\ items = <<>> /\ omissions = <<>> /\ used = 0

BaselineNext == Next /\ UNCHANGED <<named, terms, found>>

BaselineSpec == BaselineInit /\ [][BaselineNext]_baselineVars

-----------------------------------------------------------------------------
(* Properties.                                                              *)

\* crates/ts-context/src/lib.rs:300: "An explicitly named path is mandatory
\* evidence for the request. Keep it above the maximum normal query-coverage
\* score so broad prose cannot crowd it out of the budget."  What a named
\* path holds is left out of the bundle only when other named paths, or the
\* budget itself, leave no room for it.
NamedPathNeverCrowdedOut ==
    Done => \A k \in DOMAIN omissions :
        LET i == omissions[k].index
            other == {j \in Packed \ {i} : candidates[j].source \in named}
        IN  omissions[k].reason = "budget" /\ candidates[i].source \in named =>
                TokensOf(HashesOf(other)) + Size(i) > budget

\* As long as no content has more than 31 of the query's terms, the weights of
\* score keep what a named path holds from being crowded out.
NamedPathKept ==
    (\A h \in Hashes : terms[h] <= 31) => NamedPathNeverCrowdedOut

\* Budget is spent on what the query does not mention only when the scan found
\* nothing that it does mention (build_baseline_context, build_context).
BudgetGoesToMatches ==
    Done => \A i \in Packed :
        \/ candidates[i].source \in named \/ terms[candidates[i].hash] > 0
        \/ \A s \in DOMAIN found : s \notin named /\ terms[found[s]] = 0

Total(parts) ==
    LET sum[k \in 0 .. Len(parts)] == IF k = 0 THEN 0 ELSE sum[k - 1] + parts[k].value
    IN  sum[Len(parts)]

\* An item's score is explained: its parts are what the query found in it, none
\* of them is for nothing, and they add up to the score it was ranked by.
ScoresExplained ==
    Done => \A i \in {j \in Packed : candidates[j].source \in DOMAIN found} :
        LET c == candidates[i]
            parts == Breakdown(Signals(c.source))
        IN  /\ Total(parts) = c.score
            /\ \A k \in DOMAIN parts : parts[k].value > 0

\* What the budget is spent on follows from the ranks of what the query names
\* or mentions: it is counted, it is the selection that the ranks make in
\* whatever order the candidates came, named paths come first, and nothing
\* unmentioned when the scan found what is mentioned.
BudgetFollowsRanks ==
    /\ CountIsOfItems /\ PackingIsSelection /\ OrderIndependent
    /\ NamedPathKept /\ BudgetGoesToMatches /\ ScoresExplained
=============================================================================
