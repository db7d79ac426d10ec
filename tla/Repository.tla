---------------------------- MODULE Repository ----------------------------
(***************************************************************************)
(* RepositoryProvider (crates/ts-repo): clones of one provider share a     *)
(* cache of redacted texts; a scan walks the root and loads one file after *)
(* another, a fetch loads one.  Other programs edit the files meanwhile,   *)
(* and load_text has nothing but their length and modification time,       *)
(* looked at three times, to notice.                                       *)
(*                                                                         *)
(* A content is a sequence of pieces of the same size.  Symbolic links are *)
(* as they were; a walk yields what the root has, whatever is deleted      *)
(* while it goes on.                                                       *)
(***************************************************************************)
EXTENDS Naturals, FiniteSets, Sequences, SequencesExt

CONSTANTS
    Scanners,       \* callers that scan, each with a clone of the provider
    Fetchers,       \* callers that fetch, each with a clone
    Walk,           \* the entries of a walk, in order: [path, kind]
    Paths,          \* paths of files, as sequences of components
    Links,          \* those that lead out of the root
    Fetched,        \* those that are fetched
    Editable,       \* those that other programs edit
    Contents,       \* what files hold
    Written,        \* what the editors write
    Limits,         \* [file, files, total]: a file's bytes, files, all bytes
    MaxEdits,       \* bound: edits
    Missing         \* no file, no cached text

\* What the pieces of a content are, as far as the provider tells them apart.
Pieces == {"plain", "secret", "zero"}

\* A walk comes to every entry once.
ASSUME RepositoryAssumption ==
    /\ Scanners \cap Fetchers = {}
    /\ Links \cup Editable \cup Fetched \subseteq Paths /\ Written \subseteq Contents
    /\ Contents \subseteq Seq(Pieces) /\ Missing \notin Contents
    /\ DOMAIN Walk = 1 .. Len(Walk) /\ Len(Walk) \in Nat /\ MaxEdits \in Nat
    /\ \A i, j \in DOMAIN Walk : Walk[i].path = Walk[j].path => i = j
    /\ \A i \in DOMAIN Walk : Walk[i].kind = "file" => Walk[i].path \in Paths
    /\ Limits \subseteq [file : Nat \ {0}, files : Nat \ {0}, total : Nat \ {0}]

VARIABLES
    limits,     \* the provider's
    disk,       \* path -> content or Missing
    modified,   \* path -> modification time
    now,        \* the file system's clock, as coarse as it is
    edits,      \* edits made
    stamps,     \* history: every length and time a path has had
    reused,     \* history: whether two versions of a path shared them
    cache,      \* path -> stamp and redacted text, or Missing
    reader      \* the call of each reader

Readers == Scanners \cup Fetchers

files == <<limits, disk, modified, now, edits, stamps, reused>>
repositoryVars == <<files, cache, reader>>

Stamp(p) == <<Len(disk[p]), modified[p]>>

Ready == [at |-> "ready", job |-> "none", place |-> 0, path |-> <<>>,
          attempt |-> 0, stamp |-> <<>>, text |-> <<>>, during |-> {},
          visited |-> 0, found |-> <<>>, warned |-> <<>>, retained |-> 0,
          cancelled |-> FALSE]

RepositoryInit ==
    /\ limits \in Limits
    /\ disk \in [Paths -> Contents \cup {Missing}]
    /\ modified = [p \in Paths |-> 0]
    /\ now = 0
    /\ edits \in {0, MaxEdits}
    /\ stamps = [p \in Paths |-> IF disk[p] = Missing THEN {} ELSE {Stamp(p)}]
    /\ reused = [p \in Paths |-> FALSE]
    /\ cache = [p \in Paths |-> Missing]
    /\ reader = [r \in Readers |-> Ready]

-----------------------------------------------------------------------------
(* Paths and texts.                                                         *)

Excluded == {".git", "build", "dist", "generated", "node_modules", "target", "vendor"}

\* A directory of the path is excluded.
IsLikelyGenerated(path) == \E i \in 1 .. Len(path) - 1 : path[i] \in Excluded

IsGitMetadata(path) == \E i \in DOMAIN path : path[i] = ".git"

\* The redactor: a sensitive assignment keeps its key.
Redact(text) == [i \in DOMAIN text |-> IF text[i] = "secret" THEN "redacted" ELSE text[i]]

IsBinary(text) == \E i \in DOMAIN text : text[i] = "zero"

-----------------------------------------------------------------------------
(* Calls.                                                                   *)

Becomes(r, call) == reader' = [reader EXCEPT ![r] = call]

\* candidate_from_path: no load begins on a path that leads out of the root.
Loading(call, p) ==
    [call EXCEPT !.at = "stat", !.path = p, !.attempt = 0, !.during = {disk[p]}]

BeginScan(r) ==
    /\ r \in Scanners
    /\ reader[r].at = "ready"
    /\ Becomes(r, [Ready EXCEPT !.at = "walk", !.job = "scan", !.place = 1])
    /\ UNCHANGED <<files, cache>>

\* fetch, of a handle that names a file in the root.
BeginFetch(r, p) ==
    /\ r \in Fetchers
    /\ reader[r].at = "ready"
    /\ p \notin Links /\ disk[p] # Missing
    /\ Becomes(r, Loading([Ready EXCEPT !.job = "fetch"], p))
    /\ UNCHANGED <<files, cache>>

Warned(call, p, kind) ==
    [call EXCEPT !.warned = Append(@, [path |-> p, kind |-> kind])]

Passed(call) == [call EXCEPT !.at = "walk", !.place = @ + 1]

Ended(call) == [call EXCEPT !.at = "ended"]

\* Mutant: the limit is one file too wide.
LimitLate(call) == call.visited > limits.files

LimitReached(call) == call.visited = limits.files

\* One round of the walk, up to the load.
Visit(r) ==
    LET call == reader[r]
        entry == Walk[call.place]
        counted == [call EXCEPT !.visited = @ + 1]
    IN  /\ call.at = "walk"
        /\ UNCHANGED <<files, cache>>
        /\ Becomes(r,
             IF call.place > Len(Walk) THEN Ended(call)
             ELSE IF call.cancelled THEN Ended(Warned(call, <<>>, "Cancelled"))
             ELSE IF entry.kind = "unreadable"
                  THEN Passed(Warned(call, entry.path, "Unreadable"))
             ELSE IF entry.kind # "file" THEN Passed(call)
             ELSE IF LimitReached(call)
                  THEN Ended(Warned(call, <<>>, "FileLimitReached"))
             ELSE IF IsLikelyGenerated(entry.path)
                  THEN Passed(IF IsGitMetadata(entry.path) THEN counted
                              ELSE Warned(counted, entry.path, "Generated"))
             ELSE Loading(counted, entry.path))

\* What a scan or a fetch does with a file that is skipped...
Skip(r, kind) ==
    LET call == Warned(reader[r], reader[r].path, kind)
    IN  Becomes(r, IF call.job = "scan" THEN Passed(call) ELSE Ended(call))

\* ... and with one that is loaded.
AddCandidate(r, text) ==
    LET call == [reader[r] EXCEPT !.text = text]
        kept == [call EXCEPT !.retained = @ + Len(text),
                             !.found = Append(@, [path |-> call.path, text |-> text])]
    IN  Becomes(r,
          IF call.job = "fetch" THEN Ended(kept)
          ELSE IF call.retained + Len(text) > limits.total
               THEN Ended(Warned(call, call.path, "TotalBytesLimitReached"))
               ELSE Passed(kept))

-----------------------------------------------------------------------------
(* load_text.                                                               *)

\* The metadata and the cache.
Stat(r) ==
    LET p == reader[r].path
    IN  /\ reader[r].at = "stat"
        /\ UNCHANGED <<files, cache>>
        /\ IF disk[p] = Missing THEN Skip(r, "Unreadable")
           ELSE IF Len(disk[p]) > limits.file THEN Skip(r, "TooLarge")
           ELSE IF cache[p] # Missing /\ cache[p].stamp = Stamp(p)
                THEN AddCandidate(r, cache[p].text)
           ELSE Becomes(r, [reader[r] EXCEPT !.at = "read", !.stamp = Stamp(p)])

\* fs::read gets a first part of the file, and later what follows it.
ReadPart(r) ==
    LET p == reader[r].path
    IN  /\ reader[r].at = "read"
        /\ disk[p] # Missing /\ disk[p] # <<>>
        /\ Becomes(r, [reader[r] EXCEPT !.at = "rest", !.text = SubSeq(disk[p], 1, 1)])
        /\ UNCHANGED <<files, cache>>

ReadRest(r) ==
    LET p == reader[r].path
        got == IF reader[r].at = "read" THEN <<>> ELSE reader[r].text
        content == IF disk[p] = Missing THEN <<>> ELSE disk[p]
        text == got \o SubSeq(content, Len(got) + 1, Len(content))
    IN  /\ reader[r].at \in {"read", "rest"}
        /\ UNCHANGED <<files, cache>>
        /\ IF reader[r].at = "read" /\ disk[p] = Missing THEN Skip(r, "Unreadable")
           ELSE IF IsBinary(text) THEN Skip(r, "Binary")
           ELSE Becomes(r, [reader[r] EXCEPT !.at = "after", !.text = text])

\* A file that has changed is loaded once more, then given up.
Again(r) ==
    IF reader[r].attempt = 0
    THEN Becomes(r, [reader[r] EXCEPT !.at = "stat", !.attempt = 1, !.text = <<>>])
    ELSE Skip(r, "Unreadable")

\* Mutant: the metadata is not compared.
NeverChanged(r) == FALSE

\* The length or the time is another one than at the last look.
Changed(r) == Stamp(reader[r].path) # reader[r].stamp

\* The metadata after the read, and the redaction.
Recheck(r) ==
    /\ reader[r].at = "after"
    /\ UNCHANGED <<files, cache>>
    /\ IF disk[reader[r].path] = Missing THEN Skip(r, "Unreadable")
       ELSE IF Changed(r) THEN Again(r)
       ELSE Becomes(r, [reader[r] EXCEPT !.at = "final", !.text = Redact(@)])

\* The metadata after the redaction is what the text is cached with.
Store(r) ==
    LET p == reader[r].path
    IN  /\ reader[r].at = "final"
        /\ UNCHANGED files
        /\ IF disk[p] = Missing THEN Skip(r, "Unreadable") /\ UNCHANGED cache
           ELSE IF Changed(r) THEN Again(r) /\ UNCHANGED cache
           ELSE /\ cache' = [cache EXCEPT ![p] =
                               [stamp |-> Stamp(p), text |-> reader[r].text]]
                /\ AddCandidate(r, reader[r].text)

-----------------------------------------------------------------------------
(* The rest of the world.                                                   *)

\* A program replaces a content, appends to it, truncates it, or deletes the
\* file.
Edit(p, content) ==
    /\ edits < MaxEdits
    /\ disk[p] # content
    /\ edits' = edits + 1
    /\ disk' = [disk EXCEPT ![p] = content]
    /\ modified' = [modified EXCEPT ![p] = now]
    /\ IF content = Missing
       THEN UNCHANGED <<stamps, reused>>
       ELSE /\ stamps' = [stamps EXCEPT ![p] = @ \cup {<<Len(content), now>>}]
            /\ reused' = [reused EXCEPT ![p] = @ \/ <<Len(content), now>> \in stamps[p]]
    /\ reader' = [r \in Readers |->
          IF reader[r].path = p THEN [reader[r] EXCEPT !.during = @ \cup {content}]
                                ELSE reader[r]]
    /\ UNCHANGED <<limits, now, cache>>

Tick ==
    /\ now < MaxEdits
    /\ now' = now + 1
    /\ UNCHANGED <<limits, disk, modified, edits, stamps, reused, cache, reader>>

CancelScan(r) ==
    /\ reader[r].job = "scan" /\ reader[r].at # "ended" /\ ~reader[r].cancelled
    /\ Becomes(r, [reader[r] EXCEPT !.cancelled = TRUE])
    /\ UNCHANGED <<files, cache>>

Return(r) ==
    /\ reader[r].at = "ended"
    /\ Becomes(r, Ready)
    /\ UNCHANGED <<files, cache>>

Load(r) == Stat(r) \/ ReadPart(r) \/ ReadRest(r) \/ Recheck(r) \/ Store(r)

Scan(r) == BeginScan(r) \/ Visit(r) \/ Load(r) \/ CancelScan(r) \/ Return(r)

Fetch(r) == (\E p \in Fetched : BeginFetch(r, p)) \/ Load(r) \/ Return(r)

World == Tick \/ \E p \in Editable : \E c \in Written \cup {Missing} : Edit(p, c)

RepositoryNext ==
    (\E r \in Scanners : Scan(r)) \/ (\E r \in Fetchers : Fetch(r)) \/ World

RepositorySpec == RepositoryInit /\ [][RepositoryNext]_repositoryVars

-----------------------------------------------------------------------------
(* Properties.                                                              *)

\* What a load returns, cached or read, is the redaction of one version that
\* the file had while the load went on, never a mixture of two or a version
\* from before, unless two versions had one length and one modification time;
\* and whatever happens it holds no secret.
ServedTextIsAVersion ==
    \A r \in Readers : reader[r].found # <<>> /\ reader[r].at \in {"walk", "ended"} =>
        LET served == Last(reader[r].found)
        IN  /\ \A i \in DOMAIN served.text : served.text[i] # "secret"
            /\ \/ reused[served.path]
               \/ served.path # reader[r].path
               \/ served.text \in {Redact(c) : c \in reader[r].during \ {Missing}}

\* A scan that ends accounts for every entry: a file is a candidate, is warned
\* of or is Git's own; what was not visited is announced by a last warning; and
\* the limits hold.
EveryEntryExplained ==
    \A r \in Readers : reader[r].job = "scan" /\ reader[r].at = "ended" =>
        LET call == reader[r]
            Explained(p) == \/ \E i \in DOMAIN call.found : call.found[i].path = p
                            \/ \E i \in DOMAIN call.warned : call.warned[i].path = p
                            \/ IsLikelyGenerated(p) /\ IsGitMetadata(p)
            shown == {i \in DOMAIN Walk : Walk[i].kind \in {"file", "unreadable"}}
        IN  /\ call.visited <= limits.files /\ call.retained <= limits.total
            /\ \A i \in DOMAIN call.warned :
                 call.warned[i].kind = "FileLimitReached" => call.visited = limits.files
            /\ \A i \in shown : i < call.place => Explained(Walk[i].path)
            /\ \/ \A i \in shown : Explained(Walk[i].path)
               \/ /\ call.warned # <<>>
                  /\ Last(call.warned).kind \in
                        {"Cancelled", "FileLimitReached", "TotalBytesLimitReached"}

\* The bytes of candidates, each a place in the text of one.
BytesFound(list) == Cardinality(UNION {{i} \X DOMAIN list[i].text : i \in DOMAIN list})

\* ... and the bytes it has counted are those of its candidates.
ScanAccounts ==
    /\ EveryEntryExplained
    /\ \A r \in Readers : reader[r].job = "scan" /\ reader[r].at = "ended" =>
          reader[r].retained = BytesFound(reader[r].found)
=============================================================================
