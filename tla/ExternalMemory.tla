--------------------------- MODULE ExternalMemory ---------------------------
(***************************************************************************)
(* What becomes of the answer of an external memory provider (crates/      *)
(* ts-memory search_inner and parse_memory_result): its texts hold records *)
(* in any of several shapes, which are read one after the other until the  *)
(* limit is reached or one of them is no record.  The session that the     *)
(* answer comes over is McpSession.                                        *)
(*                                                                         *)
(* A field of a record is absent, something that is not a text or empty    *)
(* ("bad"), or a text.                                                     *)
(***************************************************************************)
EXTENDS Naturals, Sequences, SequencesExt

CONSTANTS
    Texts,      \* the texts that are not empty
    Parts,      \* the parts of contents
    Answers,    \* the contents that the tool may answer
    NoContent,  \* an answer without a list of contents
    MaxWanted   \* the greatest limit of a search (100)

\* The fields under which an object may list its records, in their order.
Lists == <<"results", "records", "observations">>

Fields == Texts \cup {"absent", "bad"}

Items == [content : Fields, text : Fields, id : Fields]

\* A part has no text, or one that is not JSON, a JSON array, or an object.
IsPart(p) ==
    \/ p.kind = "silent"
    \/ p.kind = "plain" /\ p.text \in Fields
    \/ p.kind = "array" /\ p.items \in Seq(Items)
    \/ /\ p.kind = "object" /\ p.self \in Items
       /\ \A field \in DOMAIN p.lists : p.lists[field] \in Seq(Items)

ASSUME ExternalMemoryAssumption ==
    /\ MaxWanted \in Nat /\ NoContent \notin Answers
    /\ Answers \subseteq Seq(Parts) /\ \A p \in Parts : IsPart(p)

VARIABLES
    blank,      \* whether the query is blank
    wanted,     \* the limit
    answer,     \* what the tool has answered
    part,       \* the part that is read
    pending,    \* its items that are still to be read
    records,    \* the records read
    verdict     \* how the search stands

externalVars == <<blank, wanted, answer, part, pending, records, verdict>>

ExternalInit ==
    /\ blank = TRUE /\ wanted = 0 /\ answer = <<>>
    /\ part = 0 /\ pending = <<>> /\ records = <<>>
    /\ verdict = "none"

-----------------------------------------------------------------------------
\* A text that is not JSON is the content of one record; so is an object that
\* lists none, or any other value.
ItemsOf(p) ==
    CASE p.kind = "silent" -> <<>>
      [] p.kind = "plain" -> <<[content |-> p.text, text |-> "absent", id |-> "absent"]>>
      [] p.kind = "array" -> p.items
      [] p.kind = "object" ->
            LET listed == {k \in DOMAIN Lists : Lists[k] \in DOMAIN p.lists}
            IN  IF listed = {} THEN <<p.self>> ELSE p.lists[Lists[Min(listed)]]

\* The text is only looked for when there is no content.
ContentOf(item) == IF item.content = "absent" THEN item.text ELSE item.content

Readable(item) == ContentOf(item) \notin {"absent", "bad"}

\* A record without an id is named by the hash of its content.
Record(item) ==
    [id |-> IF item.id \in {"absent", "bad"} THEN <<"hash", ContentOf(item)>>
            ELSE <<"given", item.id>>,
     content |-> ContentOf(item)]

\* Mutant: the limit is noticed one record too late.
ReachedLate(n) == n > wanted

Reached(n) == n = wanted

Askable == ~blank /\ wanted \in 1 .. MaxWanted

-----------------------------------------------------------------------------
\* What is not askable is refused before a session is opened, and an answer
\* without contents before it is read.
AskMemory ==
    /\ verdict = "none"
    /\ blank' \in BOOLEAN /\ wanted' \in 0 .. MaxWanted + 1
    /\ answer' \in Answers \cup {NoContent}
    /\ verdict' = IF Askable' /\ answer' # NoContent THEN "reading" ELSE "malformed"
    /\ UNCHANGED <<part, pending, records>>

ReadPart ==
    /\ verdict = "reading" /\ pending = <<>> /\ part < Len(answer)
    /\ part' = part + 1
    /\ pending' = ItemsOf(answer[part'])
    /\ UNCHANGED <<blank, wanted, answer, records, verdict>>

ReadItem ==
    /\ verdict = "reading" /\ pending # <<>>
    /\ pending' = Tail(pending)
    /\ IF Readable(Head(pending))
       THEN /\ records' = Append(records, Record(Head(pending)))
            /\ verdict' = IF Reached(Len(records')) THEN "records" ELSE verdict
       ELSE verdict' = "malformed" /\ UNCHANGED records
    /\ UNCHANGED <<blank, wanted, answer, part>>

EndOfAnswer ==
    /\ verdict = "reading" /\ pending = <<>> /\ part = Len(answer)
    /\ verdict' = "records"
    /\ UNCHANGED <<blank, wanted, answer, part, pending, records>>

\* The search returns, and the next one starts from nothing.
ReturnRecords ==
    /\ verdict \in {"records", "malformed"}
    /\ blank' = TRUE /\ wanted' = 0 /\ answer' = <<>>
    /\ part' = 0 /\ pending' = <<>> /\ records' = <<>>
    /\ verdict' = "none"

ExternalNext == AskMemory \/ ReadPart \/ ReadItem \/ EndOfAnswer \/ ReturnRecords

ExternalSpec == ExternalInit /\ [][ExternalNext]_externalVars

-----------------------------------------------------------------------------
(* Properties.                                                              *)

\* A search returns the first records of the answer, in its order, as many as
\* were asked for, and it fails only for what it would have returned: what
\* comes after the limit cannot spoil it, and nothing before is skipped.
FirstRecordsOrNone ==
    LET all == FlattenSeq([k \in DOMAIN answer |-> ItemsOf(answer[k])])
        first == SubSeq(all, 1, IF wanted < Len(all) THEN wanted ELSE Len(all))
        whole == \A k \in DOMAIN first : Readable(first[k])
    IN  /\ verdict = "records" =>
              /\ Askable /\ whole
              /\ records = [k \in DOMAIN first |-> Record(first[k])]
        /\ verdict = "malformed" => ~Askable \/ answer = NoContent \/ ~whole
=============================================================================
