------------------------------ MODULE Policies ------------------------------
(***************************************************************************)
(* The decisions the product takes without state: the route of a request   *)
(* (crates/ts-router), the profile a final answer is written in            *)
(* (crates/ts-output) and the release an update check offers               *)
(* (crates/ts-update).  A question is one input of one of them; it is      *)
(* chosen once and nothing changes.                                        *)
(*                                                                         *)
(* A version is a number, as all that matters is how two compare; 0 stands *)
(* for text that is not a version.                                         *)
(***************************************************************************)
EXTENDS Naturals, FiniteSets, Sequences, SequencesExt

CONSTANTS
    Versions,   \* release and protocol versions, positive numbers
    NoMode      \* an option that is not given

ASSUME PolicyAssumption == Versions \subseteq Nat \ {0}

VARIABLE question

-----------------------------------------------------------------------------
(* Routes.                                                                  *)

RouteModes == <<"FAST", "BUILD", "DEEP">>
Operations == {"lookup", "command", "edit", "debug", "architecture", "investigation"}
Scopes == {"named", "multi_file", "repository"}

RouteRequests ==
    [kind : {"route"},
     explicit : ToSet(RouteModes) \cup {NoMode}, configured : ToSet(RouteModes) \cup {NoMode},
     operations : {<<>>} \cup {<<o>> : o \in Operations}
                  \cup {<<o, p>> : o \in Operations, p \in Operations},
     scope : Scopes \cup {NoMode}, budget : {0, 1}]

Decision(mode, reason) == [mode |-> mode, reason |-> reason]

Asks(r, some) == ToSet(r.operations) \cap some # {}

Broad(r) == r.scope = "repository" \/ Asks(r, {"architecture", "investigation"})

\* All operations are lookups or commands, and there is one.
Focused(operations) ==
    operations # <<>> /\ ToSet(operations) \subseteq {"lookup", "command"}

\* The ordered rules of route.
Routed(r) ==
    IF r.explicit # NoMode THEN Decision(r.explicit, "explicit_override")
    ELSE IF r.configured # NoMode THEN Decision(r.configured, "configured_mode")
    ELSE IF Broad(r) THEN Decision("DEEP", "broad_scope")
    ELSE IF r.scope = "multi_file" \/ Asks(r, {"edit", "debug"})
         THEN Decision("BUILD", "build_operation")
    ELSE IF r.scope = "named" \/ Focused(r.operations) THEN Decision("FAST", "focused_lookup")
    ELSE Decision("BUILD", "ambiguous_default")

BudgetFor(mode) == CASE mode = "FAST" -> 4 [] mode = "BUILD" -> 16 [] OTHER -> 48

\* route: the budget of the mode unless the request has one, and the reasons
\* without a repetition.
Route(r) ==
    LET decision == Routed(r)
    IN  [mode |-> decision.mode,
         budget |-> IF r.budget # 0 THEN r.budget ELSE BudgetFor(decision.mode),
         reasons |-> <<decision.reason>> \o
                     IF r.budget # 0 THEN <<"budget_override">> ELSE <<>>]

-----------------------------------------------------------------------------
(* Output profiles.                                                         *)

Modes == {"lite", "full", "ultra", "wenyan-lite", "wenyan-full", "wenyan-ultra", "off"}
Payloads == {"human_text", "machine_readable", "raw_evidence", "source_code",
             "third_party_message", "internal"}

\* Three modes are enough to tell scopes apart; the agent's and the tool's
\* are what the profile has for the names of the request.
FormatRequests ==
    [kind : {"format"},
     request : {"ultra", "wenyan-full", NoMode}, session : {"full", NoMode},
     tool : {"lite", "off", NoMode}, agent : {"wenyan-ultra", NoMode},
     global : Modes, autoClarity : BOOLEAN, payload : Payloads, routine : BOOLEAN]

\* The scopes a mode may come from, the narrowest first.
ScopesInOrder == <<"request", "session", "tool", "agent", "global">>

\* The scope that supplies the configured mode.
ProfileSource(f) == Head(SelectSeq(ScopesInOrder, LAMBDA scope : f[scope] # NoMode))

Clearer(mode) ==
    CASE mode \in {"full", "ultra"} -> "lite"
      [] mode \in {"wenyan-full", "wenyan-ultra"} -> "wenyan-lite"
      [] OTHER -> mode

\* resolve: nothing but text for people is formatted, and text that needs
\* care is formatted less.
Resolve(f) ==
    LET mode == f[ProfileSource(f)]
        clarified == f.autoClarity /\ ~f.routine /\ Clearer(mode) # mode
    IN  IF f.payload # "human_text"
        THEN [configured |-> mode, effective |-> "off", source |-> ProfileSource(f),
              clarified |-> FALSE]
        ELSE [configured |-> mode,
              effective |-> IF clarified THEN Clearer(mode) ELSE mode,
              source |-> ProfileSource(f), clarified |-> clarified]

-----------------------------------------------------------------------------
(* Update checks.                                                           *)

\* A release: its version, the protocols it speaks, whether it has an
\* artifact for the platform of the query.
Releases == [version : Versions \cup {0}, min : Versions, max : Versions,
             artifact : BOOLEAN]

\* What is wrong with a manifest: nothing, or the first of the checks of
\* verify_manifest and of the component that it fails.
Faults == <<"none", "schema", "unsigned", "expired", "unknown key", "signature",
            "component", "source">>

\* Sequences of up to two releases.
Offers == {<<>>} \cup {<<r>> : r \in Releases} \cup {<<r, s>> : r \in Releases, s \in Releases}

UpdateRequests ==
    [kind : {"update"}, fault : ToSet(Faults), releases : {<<>>}, installed : {1},
     protocol : {1}]
    \cup [kind : {"update"}, fault : {"none"}, releases : Offers,
          installed : Versions, protocol : Versions]

\* protocol_matches.
ProtocolMatches(release, protocol) == release.min <= protocol /\ protocol <= release.max

Compatible(u) ==
    SelectSeq(u.releases, LAMBDA r : ProtocolMatches(r, u.protocol))

\* Mutant: the releases stay in the order of the manifest.
AsListed(releases) == releases

\* Newest first; a stable sort.
NewestFirst(releases) ==
    SetToSortSeq(DOMAIN releases, LAMBDA i, j :
        \/ releases[i].version > releases[j].version
        \/ releases[i].version = releases[j].version /\ i < j)

Sorted(releases) ==
    LET order == NewestFirst(releases)
    IN  [i \in DOMAIN order |-> releases[order[i]]]

\* check_update: an error, or the version offered (0 for none) and whether it
\* has an artifact for the platform.
CheckUpdate(u) ==
    LET compatible == Sorted(Compatible(u))
        newer == SelectSeq(compatible, LAMBDA r : r.version > u.installed)
        Answer(error, available, artifact) ==
            [error |-> error, available |-> available, artifact |-> artifact]
    IN  IF u.fault # "none" THEN Answer(u.fault, 0, FALSE)
        ELSE IF \E i \in DOMAIN u.releases : u.releases[i].version = 0
             THEN Answer("version", 0, FALSE)
        ELSE IF compatible = <<>> /\ u.releases # <<>> THEN Answer("protocol", 0, FALSE)
        ELSE IF newer = <<>> THEN Answer("none", 0, FALSE)
        ELSE Answer("none", newer[1].version, newer[1].artifact)

-----------------------------------------------------------------------------

PolicyInit == question \in RouteRequests \cup FormatRequests \cup UpdateRequests

-----------------------------------------------------------------------------
(* Properties.                                                              *)

\* What a request without a fixed mode asks for decides how broad its route
\* is at least; adding an operation that is not a lookup or a command, or a
\* broader scope, never narrows it (route).
Breadth(mode) == CHOOSE i \in DOMAIN RouteModes : RouteModes[i] = mode

RouteIsBroadEnough ==
    question.kind = "route" /\ question.explicit = NoMode /\ question.configured = NoMode =>
        LET mode == Route(question).mode
        IN  /\ Asks(question, {"architecture", "investigation"}) => mode = "DEEP"
            /\ Asks(question, {"edit", "debug"}) => Breadth(mode) >= 2
            /\ \A o \in Operations \ {"lookup", "command"} :
                  Breadth(Route([question EXCEPT !.operations = Append(@, o)]).mode)
                      >= Breadth(mode)
            /\ question.scope # NoMode =>
                  Breadth(Route([question EXCEPT !.scope = "repository"]).mode) >= Breadth(mode)

\* README.md:142: "Configuration precedence is: request override, session
\* override, tool override, agent override, global default."  A scope that is
\* given decides whatever the broader ones say; and only prose for people is
\* ever formatted (resolve).
NarrowestScopeDecides ==
    question.kind = "format" =>
        /\ \A i \in DOMAIN ScopesInOrder :
              LET given == \A j \in 1 .. i - 1 : question[ScopesInOrder[j]] = NoMode
              IN  given /\ question[ScopesInOrder[i]] # NoMode =>
                     /\ Resolve(question).configured = question[ScopesInOrder[i]]
                     /\ \A j \in i + 1 .. 4 :
                           Resolve([question EXCEPT ![ScopesInOrder[j]] = NoMode])
                               = Resolve(question)
        /\ question.payload # "human_text" => Resolve(question).effective = "off"

\* The newest release that is newer than the installed one and speaks the
\* query's protocol is offered, whatever the order of the manifest, and none
\* when there is no such release or the manifest is not to be trusted
\* (check_update).
NewestOffered ==
    question.kind = "update" =>
        LET fit == {r \in ToSet(question.releases) :
                       /\ r.version > question.installed
                       /\ r.min <= question.protocol /\ question.protocol <= r.max}
            answer == CheckUpdate(question)
        IN  IF answer.error # "none" \/ fit = {} THEN answer.available = 0
            ELSE answer.available \in {r.version : r \in fit}
                 /\ \A r \in fit : r.version <= answer.available

\* The decisions of the product follow from what was asked alone: neither the
\* order of the parts of a question nor a broader setting changes them (route,
\* resolve, check_update).
DecisionsHold == RouteIsBroadEnough /\ NarrowestScopeDecides /\ NewestOffered
=============================================================================
