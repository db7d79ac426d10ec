----------------------------- MODULE MCContext -----------------------------
(***************************************************************************)
(* From a repository to a bundle of context, for TLC: a scan of any files  *)
(* under any limits while nobody edits them, fetches while one file is     *)
(* edited, what is made of the text of one file (Repository,               *)
(* RepositoryText); the candidates that a scan finds, or any others, and   *)
(* the bundle made of them (BaselineContext, ContextBundle); and the       *)
(* decisions of Policies, made before and after it.  A behaviour explores  *)
(* one of these.                                                           *)
(***************************************************************************)
EXTENDS BaselineContext, Policies, Repository, RepositoryText, TLC

CONSTANT
    Explorable  \* what this run explores

VARIABLE explored   \* "bundle", "baseline", "policies", "scan", "load" or "text"

A == <<"a">>
B == <<"target", ".git", "b">>
C == <<"src", "c">>
D == <<"target", "d">>
E == <<"z">>

MCPaths == {A, B, C, D, E}
MCWalk == << [path |-> A, kind |-> "file"],
             [path |-> <<"src">>, kind |-> "directory"],
             [path |-> C, kind |-> "file"],
             [path |-> B, kind |-> "file"],
             [path |-> D, kind |-> "file"],
             [path |-> <<"src", "x">>, kind |-> "unreadable"],
             [path |-> E, kind |-> "link"] >>
MCLinks == {E}
MCFetched == {C, E}
MCEditable == {C}

Plain == <<"plain">>
MCContents == {<<>>, Plain, <<"secret", "plain">>, <<"plain", "secret">>,
               <<"zero">>, <<"plain", "plain", "plain">>}
MCWritten == {<<>>, <<"secret", "plain">>, <<"plain", "secret">>}
MCLimits == [file : {2}, files : 1 .. 5, total : {1, 2, 4}]

\* A blank line, two words, an assignment, a definition.
Line(size, key, words, defines) ==
    [size |-> size, key |-> key, value |-> IF key = "none" THEN "none" ELSE "bare",
     words |-> words, defines |-> defines]
MCLines == {Line(0, "none", {}, FALSE), Line(1, "none", {"t"}, FALSE),
            Line(3, "sensitive", {"u"}, FALSE), Line(2, "none", {"u"}, TRUE)}
Spanned == <<"#", "L", "1", "-", "L", "2">>
MCNames == {<<"a">>, Spanned, <<"2", "%">>,
            <<"%", "2", "3">>, <<".", "a", " ">>, <<"a", "-", "L", "1">>}
MCFilePaths == {<<n>> : n \in MCNames} \cup {<<<<"a">>, n>> : n \in MCNames}
                  \cup {<<Spanned, Spanned>>}
\* Up to four lines, or so many that their numbers have one digit or two.
MCTexts == BoundedSeq(MCLines, 4)
              \cup {[i \in 1 .. n |-> l] : n \in 9 .. 11, l \in MCLines}
MCSources == {file \in [path : MCFilePaths, lines : MCTexts, ended : BOOLEAN] :
                \/ file.lines = <<>> /\ ~file.ended
                \/ file.lines # <<>> /\ (file.ended \/ Last(file.lines).size > 0)}

NoCandidates ==
    /\ candidates = <<>> /\ tokens = [h \in Hashes |-> 1] /\ budget = 1
    /\ next = 1 /\ winners = <<>> /\ ranked = {} /\ items = <<>>
    /\ omissions = <<>> /\ used = 0

NoScan == named = {} /\ terms = [h \in Hashes |-> 0] /\ found = <<>>

NoQuestion == question = [kind |-> "none"]

WideLimits == limits = [file |-> 2, files |-> 5, total |-> 4]

NoText == source = [path |-> <<<<"a">>>>, lines |-> <<>>, ended |-> FALSE] /\ bound = 1

MCInit ==
    /\ explored \in Explorable
    /\ CASE explored = "bundle" -> Init /\ NoScan /\ NoQuestion /\ NoText
         [] explored = "baseline" -> BaselineInit /\ NoQuestion /\ NoText
         [] explored = "policies" -> PolicyInit /\ NoCandidates /\ NoScan /\ NoText
         [] explored = "text" -> /\ source \in MCSources /\ bound \in 1 .. 4
                                 /\ NoCandidates /\ NoScan /\ NoQuestion
         [] OTHER -> NoCandidates /\ NoScan /\ NoQuestion /\ NoText
    /\ query = {"t", "u"}
    /\ CASE explored = "scan" -> /\ edits = MaxEdits
                                 /\ disk \in [Paths -> Contents \cup {Missing}]
                                 /\ \A p \in {B, D, E} : disk[p] = Plain
         [] explored = "load" -> /\ edits = 0 /\ WideLimits
                                 /\ disk \in {[[p \in Paths |-> Plain] EXCEPT ![C] = text] :
                                                 text \in MCWritten}
         [] OTHER -> edits = MaxEdits /\ WideLimits /\ disk = [p \in Paths |-> Plain]
    /\ RepositoryInit

MCNext ==
    /\ \/ explored \in {"bundle", "baseline"} /\ BaselineNext /\ UNCHANGED repositoryVars
       \/ explored = "scan" /\ (\E r \in Scanners : Scan(r)) /\ UNCHANGED baselineVars
       \/ /\ explored = "load" /\ ((\E r \in Fetchers : Fetch(r)) \/ World)
          /\ UNCHANGED baselineVars
    /\ UNCHANGED <<explored, question, textVars>>

MCSpec == MCInit /\ [][MCNext]_<<baselineVars, repositoryVars, textVars, question, explored>>

Symmetry == Permutations(Fetchers)
=============================================================================
