-------------------------- MODULE RepositoryText --------------------------
(***************************************************************************)
(* What the repository provider (crates/ts-repo) makes of one file: the    *)
(* redacted text, its chunks and symbols, the handles they are found under *)
(* later, and what a fetch of a handle returns.                            *)
(*                                                                         *)
(* A line is its size, the key and value of an assignment, the words that  *)
(* queries look for, and whether it begins a definition.  A path is a      *)
(* sequence of names, a name and a handle sequences of characters.         *)
(***************************************************************************)
EXTENDS Naturals, FiniteSets, Sequences, SequencesExt

CONSTANT
    MaxHandle   \* characters of a source id (1024), scaled down

ASSUME RepositoryTextAssumption == MaxHandle \in Nat

VARIABLES
    source,     \* the file: [path, lines, ended], ended by a newline or not
    query,      \* the words that are looked for
    bound       \* max_chunk_bytes

textVars == <<source, query, bound>>

-----------------------------------------------------------------------------
(* The text.                                                                *)

\* redact_assignments: the value of a sensitive key is replaced, if it has one.
RedactedLine(line) ==
    IF line.key = "sensitive" /\ line.value # "none"
    THEN [line EXCEPT !.value = "redacted", !.size = 2, !.words = {}]
    ELSE line

Redacted(lines) == [i \in DOMAIN lines |-> RedactedLine(lines[i])]

Sum(f) == FoldLeft(LAMBDA n, k : n + k, 0, f)

\* The bytes of lines and the newlines between them.
BytesOf(lines) == Sum([i \in DOMAIN lines |-> lines[i].size]) +
               (IF lines = <<>> THEN 0 ELSE Len(lines) - 1)

\* matching_term_count.
Matches(lines) == Cardinality({w \in query : \E i \in DOMAIN lines : w \in lines[i].words})

-----------------------------------------------------------------------------
(* Handles.                                                                 *)

Hex == [c \in {"#", "%", " "} |->
           CASE c = "#" -> <<"2", "3">> [] c = "%" -> <<"2", "5">> [] c = " " -> <<"2", "0">>]

\* Mutant: the separator of spans is left as it is.
SafeWithHash(c) == c \notin {"%", " "}

\* encode_path leaves letters, digits and four signs as they are.
Safe(c) == c \notin DOMAIN Hex

Encoded(path) ==
    LET text == FoldLeft(LAMBDA t, name : IF t = <<>> THEN name ELSE t \o <<"/">> \o name,
                         <<>>, path)
    IN  FlattenSeq([i \in DOMAIN text |->
            IF Safe(text[i]) THEN <<text[i]>> ELSE <<"%">> \o Hex[text[i]]])

Digits == <<"0", "1", "2", "3", "4", "5", "6", "7", "8", "9">>

Decimal(number) ==
    LET digits[n \in Nat] == (IF n < 10 THEN <<>> ELSE digits[n \div 10])
                             \o <<Digits[(n % 10) + 1]>>
    IN  digits[number]

Prefix == <<"r", "e", "p", "o", ":">>

Whole == <<>>   \* no span

Handle(path, span) ==
    Prefix \o Encoded(path) \o
    (IF span = Whole THEN <<>>
     ELSE <<"#", "L">> \o Decimal(span[1]) \o <<"-", "L">> \o Decimal(span[2]))

\* SourceId::new: of what is printable, any handle that is not too long.
IsSourceId(handle) == Len(handle) <= MaxHandle

-----------------------------------------------------------------------------
(* Candidates.                                                              *)

\* candidate_from_path; a path whose handle is too long is skipped, with a
\* warning.
FileCandidate(file) ==
    LET lines == Redacted(file.lines)
    IN  IF ~IsSourceId(Handle(file.path, Whole)) THEN {}
        ELSE {[path |-> file.path, span |-> Whole, lines |-> lines,
               ended |-> file.ended, matches |-> Matches(lines)]}

\* symbol_candidate: a span's lines, of which there may be fewer; none when
\* there is no text in them or the handle gets too long.
Symbol(candidate, span) ==
    LET n == Len(candidate.lines)
        lines == SubSeq(candidate.lines, span[1], IF span[2] < n THEN span[2] ELSE n)
    IN  IF \/ span[1] = 0 \/ span[2] < span[1]
           \/ BytesOf(lines) = 0
           \/ ~IsSourceId(Handle(candidate.path, span))
        THEN {} ELSE {[candidate EXCEPT !.span = span, !.lines = lines, !.ended = FALSE]}

-----------------------------------------------------------------------------
(* Chunks and symbols.                                                      *)

\* The bytes that lines first .. last count for: a newline each, but for the
\* file's last line.
Bytes(lines, first, last) ==
    Sum([i \in 1 .. last + 1 - first |->
            lines[first + i - 1].size + (IF first + i - 1 < Len(lines) THEN 1 ELSE 0)])

\* The inner loop ends a chunk at the last line, when it is full, or before a
\* line that does not fit.
EndsAt(lines, first, last) ==
    \/ last = Len(lines)
    \/ Bytes(lines, first, last) >= bound
    \/ Bytes(lines, first, last + 1) > bound

\* The outer loop: the spans of the chunks from a line on.
Spans(lines) ==
    LET from[first \in 1 .. Len(lines) + 1] ==
            IF first > Len(lines) THEN <<>>
            ELSE LET last == CHOOSE l \in first .. Len(lines) :
                                /\ EndsAt(lines, first, l)
                                /\ \A k \in first .. l - 1 : ~EndsAt(lines, first, k)
                 IN  <<<<first, last>>>> \o from[last + 1]
    IN  from[1]

\* chunk_candidate: the chunks with text in them and a handle, or else the
\* whole file.
Chunks(candidate) ==
    LET lines == candidate.lines
        size == BytesOf(lines) + (IF candidate.ended THEN 1 ELSE 0)
        chunks == UNION {Symbol(candidate, span) : span \in ToSet(Spans(lines))}
    IN  IF size <= bound \/ chunks = {} THEN {candidate}
        ELSE {[c EXCEPT !.matches = Matches(c.lines)] : c \in chunks}

\* BuiltInDefinitionExtractor, and the symbols scan_with_symbols adds.
Symbols(candidate) ==
    UNION {Symbol(candidate, <<i, i>>) :
              i \in {k \in DOMAIN candidate.lines : candidate.lines[k].defines}}

-----------------------------------------------------------------------------
(* What a handle leads to.                                                  *)

\* The places where a pair of characters begins.
Places(text, first, second) ==
    {i \in 1 .. Len(text) - 1 : text[i] = first /\ text[i + 1] = second}

Least(s) == CHOOSE i \in s : \A j \in s : i <= j
Greatest(s) == CHOOSE i \in s : \A j \in s : i >= j

\* parse::<u32>, without the signs that no handle has.
Number(text) ==
    IF text # <<>> /\ ToSet(text) \subseteq ToSet(Digits)
    THEN {FoldLeft(LAMBDA n, c : 10 * n + (CHOOSE d \in 0 .. 9 : Digits[d + 1] = c), 0, text)}
    ELSE {}

\* parse_symbol_suffix: what is before the last "#L", and the span after it.
Parsed(handle) ==
    IF Places(handle, "#", "L") = {} THEN {[text |-> handle, span |-> Whole]}
    ELSE LET at == Greatest(Places(handle, "#", "L"))
             range == SubSeq(handle, at + 2, Len(handle))
             ends == Places(range, "-", "L")
         IN  IF ends = {} THEN {}
             ELSE {[text |-> SubSeq(handle, 1, at - 1), span |-> <<first, last>>] :
                     first \in Number(SubSeq(range, 1, Least(ends) - 1)),
                     last \in {n \in Number(SubSeq(range, Least(ends) + 2, Len(range))) :
                                  \A f \in Number(SubSeq(range, 1, Least(ends) - 1)) : f <= n}}

\* An escape lacks a digit.
Short(text, i) == i + 2 > Len(text)

\* The loop of decode_relative_path over the characters; "bad" stands for every
\* character that no path has here, and is refused with a bad escape.
Decoded(text) ==
    LET from[i \in 1 .. Len(text) + 3] ==
            IF i > Len(text) THEN <<>>
            ELSE IF text[i] # "%" THEN <<text[i]>> \o from[i + 1]
            ELSE IF Short(text, i) THEN <<"bad">>
            ELSE LET c == {h \in DOMAIN Hex : Hex[h] = SubSeq(text, i + 1, i + 2)}
                 IN  (IF c = {} THEN <<"bad">> ELSE <<CHOOSE h \in c : TRUE>>) \o from[i + 3]
    IN  from[1]

\* Its names: none may be empty, or one of the two that are not names.
Names(text) ==
    LET cuts == <<0>> \o SetToSortSeq({i \in DOMAIN text : text[i] = "/"}, <)
                     \o <<Len(text) + 1>>
        names == [k \in 1 .. Len(cuts) - 1 |-> SubSeq(text, cuts[k] + 1, cuts[k + 1] - 1)]
    IN  IF "bad" \in ToSet(text) \/ ToSet(names) \cap {<<>>, <<".">>, <<".", ".">>} # {}
        THEN {} ELSE {names}

\* fetch of a handle, while the file is as it was; its query is empty.
Retrieved(handle) ==
    LET encoded == SubSeq(handle, Len(Prefix) + 1, Len(handle))
        leads == {p \in Parsed(encoded) : Names(Decoded(p.text)) = {source.path}}
        files == {[file EXCEPT !.matches = 0] : file \in FileCandidate(source)}
    IN  IF ~IsPrefix(Prefix, handle) THEN {}
        ELSE UNION {IF p.span = Whole THEN {file} ELSE Symbol(file, p.span) :
                       p \in leads, file \in files}

-----------------------------------------------------------------------------
(* Properties.                                                              *)

\* Every candidate that a scan, a chunked scan or a scan with symbols reports
\* is what a fetch of its handle returns, whatever characters the path has,
\* also those that handles use themselves.
HandlesLeadBack ==
    \A whole \in FileCandidate(source) :
        \A c \in {whole} \cup Chunks(whole) \cup Symbols(whole) :
            Retrieved(Handle(c.path, c.span)) = {[c EXCEPT !.matches = 0]}

\* The chunks of a file are each a line or within the bound and do not overlap;
\* they match what the file matches, each by its own lines; and they lack of
\* its lines only blank ones, as long as the path leaves room in a handle for
\* the file's last line number twice: what has no handle is lost without a
\* warning.  A file that is not cut is then within the bound or has no text to
\* cut.
ChunksPartition ==
    \A whole \in FileCandidate(source) :
        LET chunks == Chunks(whole)
            last == Len(whole.lines)
            roomy == IsSourceId(Handle(whole.path, <<last, last>>))
            Covers(c) == c.span[1] .. c.span[2]
        IN  IF chunks = {whole}
            THEN \/ BytesOf(whole.lines) + (IF whole.ended THEN 1 ELSE 0) <= bound
                 \/ \A i \in DOMAIN whole.lines : whole.lines[i].size = 0
                 \/ ~roomy
            ELSE /\ \A c \in chunks :
                      /\ Len(c.lines) = 1 \/ BytesOf(c.lines) <= bound
                      /\ c.lines = SubSeq(whole.lines, c.span[1], c.span[2])
                      /\ c.matches = Matches(c.lines)
                      /\ \A d \in chunks : d = c \/ Covers(d) \cap Covers(c) = {}
                 /\ roomy => \A i \in DOMAIN whole.lines :
                        (\E c \in chunks : i \in Covers(c)) \/ whole.lines[i].size = 0

\* Whatever a scan or a cut into chunks reports of a file is in the file, once,
\* and can be fetched as it was reported (chunk_candidate, fetch).
CandidatesLeadBack == HandlesLeadBack /\ ChunksPartition
=============================================================================
