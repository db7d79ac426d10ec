---------------------------- MODULE Compression ----------------------------
(***************************************************************************)
(* The built-in compressors of crates/ts-compress: the extraction of the   *)
(* important lines of a source within a budget, and the summary of a       *)
(* program's output.                                                       *)
(*                                                                         *)
(* A line of a source is its importance and its cost; a text is a sequence *)
(* of "n" for a newline, "r" for a carriage return, "e" for what makes a   *)
(* line evidence (an error word, a file and line) and "x" for the rest.    *)
(***************************************************************************)
EXTENDS Naturals, FiniteSets, Sequences, SequencesExt, Bags, TLC

CONSTANTS
    SourceLines,    \* bound: lines of a source
    TextLength      \* bound: length of an output

-----------------------------------------------------------------------------
(* compress_context.                                                        *)

\* The priorities: matched or diagnostic, definition, heading; 3 is a line
\* around one of them, and of a source's own line says it is not important.
Surrounding == 3

\* Mutant: a line that was wanted as surrounding stays it.
FirstMark(lines, around, wanted, i) ==
    IF lines[i].priority = Surrounding THEN wanted
    ELSE wanted @@ (i :> lines[i].priority)
                @@ [j \in {k \in DOMAIN lines : k <= i + around /\ i <= k + around}
                       |-> Surrounding]

\* The loop over the lines: an important line is wanted with its priority, the
\* lines around it at least as surrounding.
Marked(lines, around, wanted, i) ==
    IF lines[i].priority = Surrounding THEN wanted
    ELSE (i :> lines[i].priority) @@ wanted
           @@ [j \in {k \in DOMAIN lines : k <= i + around /\ i <= k + around}
                  |-> Surrounding]

Wanted(lines, around) ==
    FoldLeft(LAMBDA wanted, i : Marked(lines, around, wanted, i), <<>>,
             [i \in DOMAIN lines |-> i])

\* By priority and then by position, whatever still fits.
Selected(lines, around, limit) ==
    LET wanted == Wanted(lines, around)
        order == SetToSortSeq(DOMAIN wanted,
                     LAMBDA i, j : \/ wanted[i] < wanted[j]
                                   \/ wanted[i] = wanted[j] /\ i < j)
        Take(chosen, i) ==
            IF chosen.used + lines[i].cost <= limit
            THEN [ids |-> chosen.ids \cup {i}, used |-> chosen.used + lines[i].cost]
            ELSE chosen
    IN  FoldLeft(Take, [ids |-> {}, used |-> 0], order)

\* ranges: the runs of consecutive indices.
Ranges(indices) ==
    LET Extend(runs, i) ==
            IF runs # <<>> /\ i = Last(runs)[2] + 1
            THEN Front(runs) \o <<<<Last(runs)[1], i>>>>
            ELSE Append(runs, <<i, i>>)
    IN  FoldLeft(Extend, <<>>, SetToSortSeq(indices, <))

\* omitted_ranges.
OmittedRanges(count, selected) == Ranges((1 .. count) \ selected)

-----------------------------------------------------------------------------
(* TerminalCompressor.                                                      *)

New == [first |-> <<>>, tail |-> <<>>, evidence |-> EmptyBag,
        stdout |-> <<>>, stderr |-> <<>>]

\* record_line, for the limits of the first and the tail lines.
RecordLine(state, line, limits) ==
    LET shown == IF Len(state.first) < limits[1]
                 THEN [state EXCEPT !.first = Append(@, line)]
                 ELSE IF limits[2] = 0 THEN state
                 ELSE [state EXCEPT !.tail =
                          Append(IF Len(@) = limits[2] THEN Tail(@) ELSE @, line)]
    IN  IF Contains(line, "e")
        THEN [shown EXCEPT !.evidence = @ (+) SetToBag({line})] ELSE shown

Stripped(line) == IF line # <<>> /\ Last(line) = "r" THEN Front(line) ELSE line

\* What a stream has of an unfinished line.
Partial(state, stream) == state[stream]

\* push_chunk: the complete lines of the unfinished one and the chunk are
\* recorded, the rest is kept for the next chunk.
PushChunk(state, stream, chunk, limits) ==
    LET text == Partial(state, stream) \o chunk
        ends == SetToSortSeq({i \in DOMAIN text : text[i] = "n"}, <)
        starts == <<0>> \o ends
        line(k) == Stripped(SubSeq(text, starts[k] + 1, ends[k] - 1))
        rest == SubSeq(text, Last(starts) + 1, Len(text))
        recorded == FoldLeft(LAMBDA s, k : RecordLine(s, line(k), limits), state,
                             [k \in DOMAIN ends |-> k])
    IN  [recorded EXCEPT ![stream] = rest]

\* finish: the unfinished lines are lines, as they are.
Finish(state, limits) ==
    LET Flush(s, stream) ==
            IF s[stream] = <<>> THEN s ELSE RecordLine(s, s[stream], limits)
    IN  Flush(Flush(state, "stdout"), "stderr")

\* compress_terminal.
CompressTerminal(stdout, stderr, limits) ==
    Finish(PushChunk(PushChunk(New, "stdout", stdout, limits),
                     "stderr", stderr, limits), limits)
-----------------------------------------------------------------------------
(* Properties.                                                              *)

\* For every source: a line is kept exactly when it still fits after every
\* wanted line before it, in the order of its best priority, that was kept;
\* the passages and the omitted ranges are the maximal runs of the lines kept
\* and not kept, so that every line is in exactly one of them.
ExtractionExact ==
    \A lines \in [1 .. SourceLines -> [priority : 0 .. 3, cost : {1, 2}]],
       around \in 0 .. 1, limit \in {2, 4} :
        LET chosen == Selected(lines, around, limit)
            best == [i \in DOMAIN lines |->
                IF lines[i].priority # Surrounding THEN lines[i].priority
                ELSE IF \E j \in DOMAIN lines :
                           /\ lines[j].priority # Surrounding
                           /\ i <= j + around
                           /\ j <= i + around
                     THEN Surrounding
                     ELSE 4]
            Sooner(j, i) == best[j] < best[i] \/ (best[j] = best[i] /\ j < i)
            Cost(s) == FoldLeft(LAMBDA sum, i : sum + lines[i].cost, 0, SetToSeq(s))
            Runs(s) == {<<i, j>> \in s \X s :
                           /\ i .. j \subseteq s /\ i <= j
                           /\ i - 1 \notin s /\ j + 1 \notin s}
        IN  /\ chosen.used = Cost(chosen.ids)
            /\ \A i \in DOMAIN lines :
                 i \in chosen.ids <=>
                    /\ best[i] < 4
                    /\ lines[i].cost + Cost({j \in chosen.ids : Sooner(j, i)}) <= limit
            /\ ToSet(Ranges(chosen.ids)) = Runs(chosen.ids)
            /\ ToSet(OmittedRanges(SourceLines, chosen.ids)) =
                   Runs(DOMAIN lines \ chosen.ids)

\* However the two outputs are cut into chunks and interleaved, the summary
\* has the evidence of compress_terminal, line for line and as often; when
\* they are not interleaved it is the same summary.
ChunksDoNotMatter ==
    \A stdout \in BoundedSeq({"e", "r", "n"}, TextLength),
       stderr \in BoundedSeq({"e", "n"}, TextLength - 1) :
       \A i \in 0 .. Len(stdout), j \in 0 .. Len(stderr) :
        LET limits == <<1, 1>>
            Push(state, stream, text, from, to) ==
                PushChunk(state, stream, SubSeq(text, from + 1, to), limits)
            out == Push(New, "stdout", stdout, 0, i)
            mixed == Push(Push(Push(out, "stderr", stderr, 0, j),
                               "stdout", stdout, i, Len(stdout)),
                          "stderr", stderr, j, Len(stderr))
            plain == Push(Push(Push(out, "stdout", stdout, i, Len(stdout)),
                               "stderr", stderr, 0, j),
                          "stderr", stderr, j, Len(stderr))
            whole == CompressTerminal(stdout, stderr, limits)
        IN  /\ Finish(mixed, limits).evidence = whole.evidence
            /\ Finish(plain, limits) = whole
=============================================================================
