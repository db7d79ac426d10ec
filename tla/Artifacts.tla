----------------------------- MODULE Artifacts -----------------------------
(***************************************************************************)
(* RawArtifactStore (crates/ts-compress): a directory of raw outputs, one  *)
(* file each, that expire and of which the newest are kept.  Several       *)
(* stores may be open on one directory, and they share no lock: each       *)
(* listing is a snapshot that the removals after it work through.          *)
(*                                                                         *)
(* A name is the time it was made at and its content, whose order stands   *)
(* for that of the hashes; a file's name is also its handle.               *)
(***************************************************************************)
EXTENDS Naturals, FiniteSets

CONSTANTS
    Stores,     \* stores on the directory
    Contents,   \* what they retain: numbers, in the order of their hashes
    MaxArtifacts,   \* max_artifacts
    Ttl,        \* ttl
    LastSecond, \* bound: the clock stops here
    MaxCutShort \* bound: no retain begins after as many were cut short

ASSUME ArtifactsAssumption ==
    /\ MaxArtifacts \in Nat \ {0} /\ Ttl \in Nat \ {0}
    /\ LastSecond \in Nat /\ Contents \subseteq Nat
    /\ IsFiniteSet(Stores)

VARIABLES
    files,      \* the names in the directory
    whole,      \* those whose content has been written
    modified,   \* name -> modification time
    now,        \* the clock
    pc,         \* where each store is
    left,       \* the names that its last listing leaves it to work through
    mine,       \* the name it is writing
    created,    \* history: every name that was ever in the directory
    acked,      \* history: the names whose handle was returned
    cutShort    \* history: retains that wrote a file and did not finish

artifactVars == <<files, whole, modified, now, pc, left, mine, created, acked, cutShort>>

Names == (0 .. LastSecond) \X Contents

Older(m, n) == m[1] < n[1] \/ (m[1] = n[1] /\ m[2] < n[2])

ArtifactsInit ==
    /\ files = {} /\ whole = {} /\ created = {} /\ acked = {}
    /\ modified = [n \in Names |-> 0]
    /\ now = 0
    /\ pc = [s \in Stores |-> "idle"]
    /\ left = [s \in Stores |-> {}]
    /\ mine = [s \in Stores |-> <<>>]
    /\ cutShort = 0

\* is_expired.
Expired(n) == now >= modified[n] + Ttl

\* The names beyond the newest keep of a listing sorted by file name.
Excess(keep) == {n \in files : Cardinality({m \in files : Older(n, m)}) >= keep}

Move(s, next, names) == /\ pc' = [pc EXCEPT ![s] = next]
                        /\ left' = [left EXCEPT ![s] = names]

\* retain returns an error, or its process dies.
Abort(s) ==
    /\ Move(s, "idle", {})
    /\ mine' = [mine EXCEPT ![s] = <<>>]
    /\ cutShort' = cutShort + (IF mine[s] \in created THEN 1 ELSE 0)

-----------------------------------------------------------------------------
(* retain.                                                                  *)

\* prune begins with a listing, in any order.
BeginRetain(s) ==
    /\ pc[s] = "idle"
    /\ cutShort < MaxCutShort
    /\ Move(s, "prune", files)
    /\ UNCHANGED <<files, whole, modified, now, mine, created, acked, cutShort>>

Removed(n) == /\ files' = files \ {n}
              /\ whole' = whole \ {n}
              /\ modified' = [modified EXCEPT ![n] = 0]

\* One entry of the listing: an expired one is removed; one that another store
\* has removed is an I/O error, which ends the retain.
PruneOne(s) ==
    /\ pc[s] = "prune"
    /\ \E n \in left[s] :
          IF n \notin files
          THEN Abort(s) /\ UNCHANGED <<files, whole, modified>>
          ELSE /\ IF Expired(n) THEN Removed(n) ELSE UNCHANGED <<files, whole, modified>>
               /\ Move(s, "prune", left[s] \ {n})
               /\ UNCHANGED <<mine, cutShort>>
    /\ UNCHANGED <<now, created, acked>>

\* Mutant: the newest are removed to make room.
RoomFromNewest ==
    {n \in files : Cardinality({m \in files : Older(m, n)}) >= MaxArtifacts - 1}

\* make_room keeps one less than the maximum.
RoomNeeded == Excess(MaxArtifacts - 1)

MakeRoom(s) ==
    /\ pc[s] = "prune" /\ left[s] = {}
    /\ Move(s, "room", RoomNeeded)
    /\ UNCHANGED <<files, whole, modified, now, mine, created, acked, cutShort>>

\* A removal of make_room or enforce_count, the oldest first.
RemoveOne(s) ==
    /\ pc[s] \in {"room", "enforce"}
    /\ \E n \in left[s] :
          /\ \A m \in left[s] : ~Older(m, n)
          /\ IF n \notin files
             THEN Abort(s) /\ UNCHANGED <<files, whole, modified>>
             ELSE /\ Removed(n)
                  /\ Move(s, pc[s], left[s] \ {n})
                  /\ UNCHANGED <<mine, cutShort>>
    /\ UNCHANGED <<now, created, acked>>

\* fs::write creates or empties the file of the name...
Create(s) ==
    /\ pc[s] = "room" /\ left[s] = {}
    /\ \E content \in Contents :
          LET n == <<now, content>>
          IN  /\ files' = files \cup {n}
              /\ whole' = whole \ {n}
              /\ modified' = [modified EXCEPT ![n] = now]
              /\ mine' = [mine EXCEPT ![s] = n]
              /\ created' = created \cup {n}
    /\ Move(s, "fill", {})
    /\ UNCHANGED <<now, acked, cutShort>>

\* ... and fills it, wherever its name is by now.
Fill(s) ==
    /\ pc[s] = "fill"
    /\ IF mine[s] \in files
       THEN /\ whole' = whole \cup {mine[s]}
            /\ modified' = [modified EXCEPT ![mine[s]] = now]
       ELSE UNCHANGED <<whole, modified>>
    /\ Move(s, "written", {})
    /\ UNCHANGED <<files, now, mine, created, acked, cutShort>>

\* Mutant: the count is not enforced after the write.
NothingOver == {}

\* enforce_count.
Over == Excess(MaxArtifacts)

Enforce(s) ==
    /\ pc[s] = "written"
    /\ Move(s, "enforce", Over)
    /\ UNCHANGED <<files, whole, modified, now, mine, created, acked, cutShort>>

\* The handle is returned.
Return(s) ==
    /\ pc[s] = "enforce" /\ left[s] = {}
    /\ acked' = acked \cup {mine[s]}
    /\ mine' = [mine EXCEPT ![s] = <<>>]
    /\ Move(s, "idle", {})
    /\ UNCHANGED <<files, whole, modified, now, created, cutShort>>

\* The process of a store dies, or meets another I/O error.
Die(s) ==
    /\ pc[s] # "idle"
    /\ Abort(s)
    /\ UNCHANGED <<files, whole, modified, now, created, acked>>

-----------------------------------------------------------------------------
\* What fetch answers for a handle.
Fetch(n) == IF n \notin files THEN "not found"
            ELSE IF Expired(n) THEN "expired"
            ELSE IF n \in whole THEN "content" ELSE "cut short"

TimePasses ==
    /\ now < LastSecond
    /\ now' = now + 1
    /\ UNCHANGED <<files, whole, modified, pc, left, mine, created, acked,
                   cutShort>>

ArtifactsNext ==
    \/ \E s \in Stores : \/ BeginRetain(s) \/ PruneOne(s) \/ MakeRoom(s) \/ RemoveOne(s)
                         \/ Create(s) \/ Fill(s) \/ Enforce(s) \/ Return(s)
                         \/ Die(s)
    \/ TimePasses

ArtifactsSpec == ArtifactsInit /\ [][ArtifactsNext]_artifactVars

-----------------------------------------------------------------------------
(* Properties.                                                              *)

\* A returned handle can be fetched until it expires, whichever stores prune,
\* make room, race for the same file or die, unless enough artifacts with newer
\* names were written to fill the store; its content is cut short only if
\* another store writes the same content with the same time again.
HandlesFetchable ==
    \A n \in acked :
        now < n[1] + Ttl =>
            \/ Fetch(n) = "content"
            \/ Cardinality({m \in created : Older(n, m)}) >= MaxArtifacts - 1
            \/ /\ Fetch(n) = "cut short"
               /\ cutShort > 0 \/ \E s \in Stores : mine[s] = n

\* The bound: the directory never holds more than the maximum and a file for
\* each retain that is under way or was cut short after its write.
CountBounded ==
    Cardinality(files) <=
        MaxArtifacts + cutShort + Cardinality({s \in Stores : mine[s] # <<>>})
=============================================================================
