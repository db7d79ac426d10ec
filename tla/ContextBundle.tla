--------------------------- MODULE ContextBundle ---------------------------
(***************************************************************************)
(* build_context (crates/ts-context): candidates of equal content are      *)
(* reduced to one winner, the winners are ranked, and the ranked ones are  *)
(* packed greedily into the token budget.  Every candidate ends as an item *)
(* or as an explained omission.                                            *)
(*                                                                         *)
(* A content is named by its hash; source ids and hashes are numbers in    *)
(* their lexicographic order.  Two candidates may have the same source id. *)
(***************************************************************************)
EXTENDS Naturals, FiniteSets, Sequences, SequencesExt

CONSTANTS
    Sources,    \* source ids
    Hashes,     \* contents
    Scores,     \* relevance scores
    Tokens,     \* token counts a content may have
    Budgets,    \* effective request budgets
    MaxLength   \* bound on the number of candidates

ASSUME ContextAssumption ==
    /\ Sources \subseteq Nat /\ Hashes \subseteq Nat /\ Scores \subseteq Nat
    /\ Tokens \subseteq Nat /\ Budgets \subseteq Nat \ {0} /\ MaxLength \in Nat

VARIABLES
    candidates, \* the input, in the order the providers returned it
    tokens,     \* the count of each content, by the request's counter
    budget,     \* the limit
    next,       \* the round of the first two loops, one after the other
    winners,    \* the index of the best candidate seen of each content
    ranked,     \* the winners not yet packed
    items,      \* the indexes of the packed candidates, in order
    omissions,  \* the omitted candidates, in order
    used        \* tokens of the items

input == <<candidates, tokens, budget>>
vars == <<input, next, winners, ranked, items, omissions, used>>

Candidate == [source : Sources, hash : Hashes, score : Scores]
Indexes == DOMAIN candidates
Considering == next <= Len(candidates)
Recording == next \in Len(candidates) + 1 .. 2 * Len(candidates)
Packing == next > 2 * Len(candidates)

\* The indexes of the winners.
Winning == {winners[h] : h \in DOMAIN winners}

Omission(i, reason, kept) == [index |-> i, reason |-> reason, kept |-> kept]

TypeOK ==
    /\ candidates \in UNION {[1 .. n -> Candidate] : n \in 0 .. MaxLength}
    /\ tokens \in [Hashes -> Tokens]
    /\ budget \in Budgets
    /\ next \in 1 .. 2 * Len(candidates) + 1
    /\ DOMAIN winners \subseteq Hashes /\ Winning \subseteq Indexes
    /\ ranked \subseteq Indexes
    /\ \A k \in DOMAIN items : items[k] \in Indexes
    /\ \A k \in DOMAIN omissions :
          /\ omissions[k].index \in Indexes
          /\ omissions[k].reason \in {"duplicate", "budget"}
          /\ omissions[k].kept \in Indexes
    /\ used \in Nat

Init ==
    /\ candidates \in UNION {[1 .. n -> Candidate] : n \in 0 .. MaxLength}
    /\ tokens \in [Hashes -> Tokens]
    /\ budget \in Budgets
    /\ next = 1
    /\ winners = <<>>
    /\ ranked = {}
    /\ items = <<>>
    /\ omissions = <<>>
    /\ used = 0

-----------------------------------------------------------------------------
\* Mutant: the score alone decides, so that the first of equals wins.
BeatsByScore(c, d) == c.score > d.score

\* A candidate replaces the winner of its content.
Beats(c, d) == \/ c.score > d.score
               \/ c.score = d.score /\ c.source < d.source

WithWinner(i) ==
    LET c == candidates[i]
        best == IF c.hash \in DOMAIN winners /\ ~Beats(c, candidates[winners[c.hash]])
                THEN winners[c.hash] ELSE i
    IN  [h \in DOMAIN winners \cup {c.hash} |-> IF h = c.hash THEN best ELSE winners[h]]

\* The first loop.
Consider ==
    /\ Considering
    /\ winners' = WithWinner(next)
    /\ next' = next + 1
    /\ UNCHANGED <<input, ranked, items, omissions, used>>

\* The second loop: all but the winners are duplicates.  The winners are what
\* is ranked then.
Record ==
    LET i == next - Len(candidates)
        winner == winners[candidates[i].hash]
    IN  /\ Recording
        /\ omissions' = IF winner = i THEN omissions
                        ELSE Append(omissions, Omission(i, "duplicate", winner))
        /\ next' = next + 1
        /\ ranked' = IF i = Len(candidates) THEN Winning ELSE ranked
        /\ UNCHANGED <<input, winners, items, used>>

\* The order of the packing: a stable sort, by score and source id, of
\* winners that come in the order of their hashes.
Precedes(c, d) ==
    \/ c.score > d.score
    \/ c.score = d.score /\ c.source < d.source
    \/ c.score = d.score /\ c.source = d.source /\ c.hash < d.hash

Size(i) == tokens[candidates[i].hash]

Fits(i) == used + Size(i) <= budget

\* The third loop; a candidate that does not fit does not end it.
Pack ==
    /\ Packing
    /\ \E i \in ranked :
          /\ \A j \in ranked \ {i} : Precedes(candidates[i], candidates[j])
          /\ ranked' = ranked \ {i}
          /\ \/ /\ Fits(i)
                /\ used' = used + Size(i)
                /\ items' = Append(items, i)
                /\ UNCHANGED omissions
             \/ /\ ~Fits(i)
                /\ omissions' = Append(omissions, Omission(i, "budget", i))
                /\ UNCHANGED <<used, items>>
    /\ UNCHANGED <<input, next, winners>>

Done == Packing /\ ranked = {}

\* hash_bundle: what the digest of a bundle is made of.
Digested(c) ==
    [source |-> c.source, hash |-> c.hash, score |-> c.score, count |-> tokens[c.hash]]

BundleHash == [k \in DOMAIN items |-> Digested(candidates[items[k]])]

\* ContextTrace: the counters, of which two follow from the others.
Trace ==
    LET duplicates ==
            Cardinality({k \in DOMAIN omissions : omissions[k].reason = "duplicate"})
    IN  [candidate |-> Len(candidates), duplicate |-> duplicates, included |-> Len(items),
         overBudget |-> Len(omissions) - duplicates, used |-> used]

\* select_within_budget: what each round has selected of a sequence of
\* candidates, and what it uses.
Selections(cs, count, limit) ==
    LET chosen[k \in 0 .. Len(cs)] ==
            IF k = 0 THEN [used |-> 0, selected |-> <<>>]
            ELSE LET last == chosen[k - 1]
                     sum == last.used + count[cs[k].hash]
                 IN  IF sum > limit THEN last
                     ELSE [used |-> sum, selected |-> Append(last.selected, cs[k])]
    IN  chosen

Selection(cs) == Selections(cs, tokens, budget)[Len(cs)]

Next == Consider \/ Record \/ Pack

Spec == Init /\ [][Next]_vars

-----------------------------------------------------------------------------
(* Properties.                                                              *)

Packed == {items[k] : k \in DOMAIN items}
Omitted == {omissions[k].index : k \in DOMAIN omissions}

\* The tokens of contents, each a place in one of them.
TokensOf(hashes) == Cardinality(UNION {{h} \X (1 .. tokens[h]) : h \in hashes})

HashesOf(is) == {candidates[i].hash : i \in is}

\* The count the bundle reports is that of its items.
CountIsOfItems == used = TokensOf(HashesOf(Packed))

\* In the end every candidate is packed or omitted, exactly once: nothing the
\* providers found is dropped without an explanation.
EveryCandidateExplained ==
    Done => /\ Packed \cup Omitted = Indexes
            /\ Trace.candidate = Trace.duplicate + Trace.included + Trace.overBudget

\* A duplicate points at another candidate of the same content that is no
\* worse, and that one is packed unless it did not fit the budget.
OverBudget ==
    {omissions[k].index : k \in {k \in DOMAIN omissions : omissions[k].reason = "budget"}}

DuplicatesTraceable ==
    Done => \A k \in DOMAIN omissions :
        LET o == omissions[k]
        IN  o.reason = "duplicate" =>
                /\ o.kept # o.index
                /\ candidates[o.kept].hash = candidates[o.index].hash
                /\ ~Beats(candidates[o.index], candidates[o.kept])
                /\ o.kept \in Packed \cup OverBudget

\* Nothing that was omitted for the budget would have fitted into what the
\* budget has left in the end.
NoRoomWasLeft ==
    Done => \A k \in DOMAIN omissions :
        omissions[k].reason = "budget" => used + Size(omissions[k].index) > budget

\* Candidates of different contents in the order of their ranks.
InOrder(set) ==
    [k \in 1 .. Cardinality(set) |->
        CHOOSE c \in set : Cardinality({d \in set : Precedes(d, c)}) = k - 1]

\* Packing is the selection that select_within_budget makes of the winners in
\* the order of their ranks.
PackingIsSelection ==
    Done => Selection(InOrder({candidates[i] : i \in Winning})) =
                [used |-> used, selected |-> [k \in DOMAIN items |-> candidates[items[k]]]]

BestOf(set) ==
    {c \in set : \A d \in set : d.hash = c.hash =>
        d.score < c.score \/ (d.score = c.score /\ d.source >= c.source)}

\* What wins does not depend on the order of the candidates.
WinnersAreBest ==
    ~Considering => {candidates[i] : i \in Winning} = BestOf({candidates[i] : i \in Indexes})

\* The bundle does not depend on the order in which providers return the
\* candidates: the set of candidates determines which are packed, namely, of
\* the best of each content, those for which the better ones left room; and
\* the digest, which names them in the order of their ranks.
OrderIndependent ==
    Done => LET packed == {candidates[i] : i \in Packed}
                Ahead(c) == TokensOf({d.hash : d \in {d \in packed : Precedes(d, c)}})
                order == InOrder(packed)
            IN  /\ packed = {c \in BestOf({candidates[i] : i \in Indexes}) :
                                Ahead(c) + tokens[c.hash] <= budget}
                /\ BundleHash = [k \in DOMAIN order |-> Digested(order[k])]

\* Whatever the providers found is in the bundle or left out for a reason that
\* holds, within the budget, and the order in which they found it has no part
\* in what wins (build_context).
BundleExplained ==
    /\ used <= budget
    /\ EveryCandidateExplained /\ DuplicatesTraceable /\ NoRoomWasLeft
    /\ WinnersAreBest
=============================================================================
