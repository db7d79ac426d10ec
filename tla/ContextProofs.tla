---------------------------- MODULE ContextProofs ----------------------------
(***************************************************************************)
(* Proofs about the way from a repository to a bundle of context, for any  *)
(* number of callers, files and edits.                                     *)
(*                                                                         *)
(* Repository: as long as no two versions of a file had one length and one *)
(* time, the stamp a call or the cache holds is either that of the version *)
(* that is there now, of which its text is then a part, or one that will   *)
(* never be seen again.  A scan explains what it leaves behind as it goes, *)
(* and counts, at every step, the cardinality of what it found.            *)
(*                                                                         *)
(* ContextBundle: each loop accounts for the candidates it has been        *)
(* through, and the winner of a content is never beaten.  Candidates of    *)
(* different contents have different ranks, and what has been packed is    *)
(* at every step what select_within_budget makes of the ranks so far.      *)
(*                                                                         *)
(* BaselineContext: a candidate's score is that of its source, so that a   *)
(* named path has a higher rank than what has up to 31 of the terms.       *)
(***************************************************************************)
EXTENDS Repository, BaselineContext, FiniteSetTheorems, SequenceTheorems, TLAPS

-----------------------------------------------------------------------------
(* Numbers, sequences and sums.                                            *)

\* Induction over a set of numbers.
LEMMA Inductive ==
  ASSUME NEW T, 0 \in T, \A n \in Nat : n \in T => n + 1 \in T
  PROVE  Nat \subseteq T
<1> DEFINE R == OpToRel(<, Nat)
           F == Nat \ T
<1> SUFFICES ASSUME F # {} PROVE FALSE
  OBVIOUS
<1>1. PICK m \in F : \A k \in F : ~(<<k, m>> \in R)
  <2>1. IsWellFoundedOn(R, Nat)
    BY NatLessThanWellFounded
  <2>2. F \subseteq Nat
    OBVIOUS
  <2> HIDE DEF R, F
  <2> QED BY <2>1, <2>2, WFMin
<1>2. m \in Nat /\ m # 0 /\ m - 1 \in Nat /\ m - 1 < m
  OBVIOUS
<1>3. <<m - 1, m>> \in R
  BY <1>2 DEF OpToRel
<1>4. m - 1 \in T
  BY <1>1, <1>2, <1>3
<1>5. (m - 1) + 1 = m
  BY <1>2
<1> QED BY <1>2, <1>4, <1>5

\* A function is determined step by step.
DeterminedBy(f, V, first, N, step) ==
    f \in [0 .. N -> V] /\ f[0] = first /\ \A k \in 1 .. N : f[k] = step[<<k, f[k - 1]>>]

LEMMA StepByStep ==
  ASSUME NEW V, NEW first \in V, NEW N \in Nat, NEW step \in [(1 .. N) \X V -> V]
  PROVE  \E f : DeterminedBy(f, V, first, N, step)
<1> DEFINE Steps(n, f) == f[0] = first /\ \A k \in 1 .. n : f[k] = step[<<k, f[k - 1]>>]
           T == {n \in Nat : n <= N => \E f \in [0 .. n -> V] : Steps(n, f)}
<1>1. 0 \in T
  <2> DEFINE f == [k \in 0 .. 0 |-> first]
  <2>1. f \in [0 .. 0 -> V] /\ f[0] = first /\ 1 .. 0 = {}
    OBVIOUS
  <2> QED BY <2>1
<1>2. ASSUME NEW n \in Nat, n \in T PROVE n + 1 \in T
  <2> SUFFICES ASSUME n + 1 <= N PROVE \E f \in [0 .. n + 1 -> V] : Steps(n + 1, f)
    OBVIOUS
  <2>1. PICK f \in [0 .. n -> V] : Steps(n, f)
    BY <1>2
  <2> DEFINE v == step[<<n + 1, f[n]>>]
             g == [k \in 0 .. n + 1 |-> IF k = n + 1 THEN v ELSE f[k]]
  <2>2. v \in V
    <3>1. <<n + 1, f[n]>> \in (1 .. N) \X V
      OBVIOUS
    <3> QED BY <3>1
  <2>3. \A k \in 0 .. n + 1 : k # n + 1 => f[k] \in V
    OBVIOUS
  <2>4. g \in [0 .. n + 1 -> V]
    BY <2>2, <2>3
  <2>5. g[0] = first
    BY <2>1
  <2>6. ASSUME NEW k \in 1 .. n + 1 PROVE g[k] = step[<<k, g[k - 1]>>]
    <3>1. g[k - 1] = f[k - 1]
      OBVIOUS
    <3>2. CASE k = n + 1
      <4>1. k - 1 = n /\ g[n + 1] = v
        BY <3>2
      <4>2. step[<<k, g[k - 1]>>] = v
        BY <3>1, <3>2, <4>1
      <4> HIDE DEF g, v
      <4> QED BY <3>2, <4>1, <4>2
    <3>3. CASE k # n + 1
      BY <2>1, <3>1, <3>3
    <3> QED BY <3>2, <3>3
  <2> HIDE DEF g
  <2> QED BY <2>4, <2>5, <2>6
<1> HIDE DEF T
<1>3. N \in T
  BY <1>1, <1>2, Inductive
<1> QED BY <1>3 DEF T, DeterminedBy

LEMMA ElementOf ==
  ASSUME NEW S, NEW s \in Seq(S), NEW i \in DOMAIN s
  PROVE  s[i] \in S
OBVIOUS

LEMMA AppendedElement ==
  ASSUME NEW S, NEW s \in Seq(S), NEW o \in S
  PROVE  LET t == Append(s, o)
         IN  /\ t \in Seq(S) /\ Len(t) = Len(s) + 1 /\ t # <<>>
             /\ DOMAIN t = DOMAIN s \cup {Len(s) + 1}
             /\ t[Len(s) + 1] = o
             /\ \A k \in DOMAIN s : t[k] = s[k]
             /\ Len(s) \in Nat
OBVIOUS

\* Places of the given sizes: what they add up to is counted.
Units(size, S) == UNION {{x} \X (1 .. size[x]) : x \in S}
Sum(size, S) == Cardinality(Units(size, S))

LEMMA UnitsOfOne ==
  ASSUME NEW x, NEW n \in Nat
  PROVE  IsFiniteSet({x} \X (1 .. n)) /\ Cardinality({x} \X (1 .. n)) = n
<1> DEFINE S == 1 .. n
           T == {x} \X (1 .. n)
           f == [k \in S |-> <<x, k>>]
<1>1. IsFiniteSet(S) /\ Cardinality(S) = n
  BY FS_Interval
<1>2. f \in Bijection(S, T)
  <2>1. f \in [S -> T] /\ \A a, b \in S : f[a] = f[b] => a = b
    OBVIOUS
  <2>2. \A t \in T : \E s \in S : f[s] = t
    OBVIOUS
  <2> HIDE DEF f, S, T
  <2>3. f \in Injection(S, T)
    BY <2>1 DEF Injection, IsInjective
  <2>4. f \in Surjection(S, T)
    BY <2>1, <2>2 DEF Surjection
  <2> QED BY <2>3, <2>4 DEF Bijection
<1>3. ExistsBijection(S, T)
  BY <1>2 DEF ExistsBijection
<1> HIDE DEF S, T
<1>4. IsFiniteSet(T) /\ Cardinality(T) = Cardinality(S)
  BY <1>1, <1>3, FS_Bijection
<1> QED BY <1>1, <1>4 DEF T

LEMMA SumOfMore ==
  ASSUME NEW size, NEW S, IsFiniteSet(Units(size, S)), NEW x, x \notin S, size[x] \in Nat
  PROVE  /\ IsFiniteSet(Units(size, S \cup {x}))
         /\ Sum(size, S \cup {x}) = Sum(size, S) + size[x]
         /\ Sum(size, S) \in Nat
<1> DEFINE A == Units(size, S)
           B == {x} \X (1 .. size[x])
<1>1. Units(size, S \cup {x}) = A \cup B
  BY DEF Units
<1>2. A \cap B = {}
  BY DEF Units
<1>3. IsFiniteSet(B) /\ Cardinality(B) = size[x]
  BY UnitsOfOne
<1> HIDE DEF A, B
<1>4. IsFiniteSet(A)
  BY DEF A
<1>5. IsFiniteSet(A \cup B) /\ Cardinality(A \cup B) = Cardinality(A) + Cardinality(B) - Cardinality(A \cap B)
  BY <1>3, <1>4, FS_Union
<1>6. Cardinality(A \cap B) = 0 /\ Cardinality(A) \in Nat
  BY <1>2, <1>4, FS_EmptySet, FS_CardinalityType
<1>7. Cardinality(A \cup B) = Cardinality(A) + size[x]
  BY <1>3, <1>5, <1>6
<1>8. Sum(size, S) = Cardinality(A) /\ Sum(size, S \cup {x}) = Cardinality(A \cup B)
  BY <1>1 DEF Sum, A
<1> QED BY <1>1, <1>5, <1>6, <1>7, <1>8

LEMMA SumOfNone == IsFiniteSet(Units(<<>>, {})) /\ \A size : Units(size, {}) = {} /\ Sum(size, {}) = 0
  BY FS_EmptySet DEF Units, Sum

-----------------------------------------------------------------------------
(* The inductive invariant of the repository provider.                     *)

LoadSteps == {"stat", "read", "rest", "after", "final"}
CallSteps == {"ready", "walk", "ended"} \cup LoadSteps

LastWords == {"Cancelled", "FileLimitReached", "TotalBytesLimitReached"}
WarningKinds == {"Unreadable", "Generated", "TooLarge", "Binary"} \cup LastWords

Texts == Seq(Pieces \cup {"redacted"})

Places == Paths \cup {Walk[i].path : i \in DOMAIN Walk} \cup {<<>>}

Calls ==
    [at : CallSteps, job : {"none", "scan", "fetch"}, place : Nat, path : Places,
     attempt : {0, 1}, stamp : (Nat \X Nat) \cup {<<>>}, text : Texts,
     during : SUBSET (Contents \cup {Missing}),
     visited : Nat, found : Seq([path : Paths, text : Texts]),
     warned : Seq([path : Places, kind : WarningKinds]), retained : Nat,
     cancelled : BOOLEAN]

FilesTypeOK ==
    /\ limits \in Limits
    /\ disk \in [Paths -> Contents \cup {Missing}]
    /\ modified \in [Paths -> Nat]
    /\ now \in Nat /\ edits \in Nat
    /\ stamps \in [Paths -> SUBSET (Nat \X Nat)]
    /\ reused \in [Paths -> BOOLEAN]
    /\ DOMAIN cache = Paths
    /\ DOMAIN reader = Readers

Clean(text) == \A i \in DOMAIN text : text[i] # "secret"

\* The stamp is that of the version that is there now, and of no other.
Current(p, stamp) == disk[p] # Missing /\ ~reused[p] /\ Stamp(p) = stamp

StampsInv == \A p \in Paths : disk[p] # Missing => Stamp(p) \in stamps[p]

EntryOK(p, entry) ==
    /\ entry.stamp \in stamps[p]
    /\ entry.text \in Texts /\ Clean(entry.text)
    /\ Current(p, entry.stamp) => entry.text = Redact(disk[p])

CacheInv == \A p \in Paths : cache[p] # Missing => EntryOK(p, cache[p])

\* What a step of load_text has read so far.
LoadOK(c) ==
    c.at \in LoadSteps =>
        /\ c.path \in Paths /\ disk[c.path] \in c.during
        /\ c.at # "stat" => c.stamp \in stamps[c.path]
        /\ c.at = "final" => Clean(c.text)
        /\ Current(c.path, c.stamp) =>
              /\ c.at = "rest" => disk[c.path] # <<>> /\ c.text = SubSeq(disk[c.path], 1, 1)
              /\ c.at = "after" => c.text = disk[c.path]
              /\ c.at = "final" => c.text = Redact(disk[c.path])

LastServed(c) ==
    c.found # <<>> =>
        \/ reused[Last(c.found).path]
        \/ Last(c.found).path # c.path
        \/ Last(c.found).text \in {Redact(v) : v \in c.during \ {Missing}}

FoundOK(c) ==
    /\ \A i \in DOMAIN c.found : Clean(c.found[i].text)
    /\ c.job # "scan" /\ c.at # "ended" => c.found = <<>>
    /\ c.at \in {"walk", "ended"} => LastServed(c)

\* Where a scan is in its walk.
PlaceOK(c) ==
    /\ c.at = "walk" => c.job = "scan"
    /\ c.at \in LoadSteps => c.job # "none"
    /\ c.job = "scan" =>
          /\ c.at # "ready" /\ c.place >= 1
          /\ c.at \in LoadSteps =>
                /\ c.place \in DOMAIN Walk
                /\ Walk[c.place].kind = "file" /\ Walk[c.place].path = c.path
          /\ \A i \in DOMAIN c.found : \E j \in DOMAIN Walk :
                j < c.place /\ c.found[i].path = Walk[j].path

Shown == {i \in DOMAIN Walk : Walk[i].kind \in {"file", "unreadable"}}

ExplainedBy(c, p) ==
    \/ \E i \in DOMAIN c.found : c.found[i].path = p
    \/ \E i \in DOMAIN c.warned : c.warned[i].path = p
    \/ IsLikelyGenerated(p) /\ IsGitMetadata(p)

\* What a scan has counted and explained.
AccountOK(c) ==
    c.job = "scan" =>
        /\ c.visited <= limits.files /\ c.retained <= limits.total
        /\ \A i \in DOMAIN c.warned : c.warned[i].kind = "FileLimitReached" =>
              c.at = "ended" /\ c.visited = limits.files
        /\ \A i \in Shown : i < c.place => ExplainedBy(c, Walk[i].path)
        /\ c.at = "ended" =>
              \/ c.place > Len(Walk)
              \/ c.warned # <<>> /\ Last(c.warned).kind \in LastWords

CallOK(c) == c \in Calls /\ LoadOK(c) /\ FoundOK(c) /\ PlaceOK(c) /\ AccountOK(c)

RepositoryInv ==
    /\ FilesTypeOK /\ StampsInv /\ CacheInv
    /\ \A r \in Readers : CallOK(reader[r])

-----------------------------------------------------------------------------
(* Texts.                                                                  *)

LEMMA ContentsAreTexts == \A c \in Contents : c \in Texts
BY RepositoryAssumption DEF RepositoryAssumption, Texts

LEMMA LastElement ==
  ASSUME NEW S, NEW s \in Seq(S), s # <<>>
  PROVE  Last(s) \in S
BY DEF Last

LEMMA RedactedTexts ==
  ASSUME NEW t \in Texts
  PROVE  Redact(t) \in Texts /\ Clean(Redact(t))
<1>1. DOMAIN t = 1 .. Len(t) /\ Len(t) \in Nat
  BY DEF Texts
<1>2. \A i \in 1 .. Len(t) : t[i] \in Pieces \cup {"redacted"}
  BY DEF Texts
<1>3. Redact(t) = [i \in 1 .. Len(t) |-> IF t[i] = "secret" THEN "redacted" ELSE t[i]]
  BY <1>1 DEF Redact
<1>4. \A i \in 1 .. Len(t) :
         (IF t[i] = "secret" THEN "redacted" ELSE t[i]) \in Pieces \cup {"redacted"}
  BY <1>2
<1>5. Redact(t) \in [1 .. Len(t) -> Pieces \cup {"redacted"}]
  BY <1>3, <1>4
<1> QED BY <1>1, <1>3, <1>5 DEF Texts, Clean

\* A first part and what follows it are the whole, and what is read late of a
\* file is text at any rate.
LEMMA PartsOfTexts ==
  ASSUME NEW t \in Texts
  PROVE  /\ t # <<>> => /\ SubSeq(t, 1, 1) \in Texts /\ Len(SubSeq(t, 1, 1)) = 1
                        /\ SubSeq(t, 1, 1) \o SubSeq(t, 2, Len(t)) = t
         /\ <<>> \o SubSeq(t, 1, Len(t)) = t
         /\ \A g \in Texts : g \o SubSeq(t, Len(g) + 1, Len(t)) \in Texts
<1> DEFINE P == Pieces \cup {"redacted"}
<1>0. t \in Seq(P)
  BY DEF Texts
<1>1. ASSUME t # <<>>
      PROVE  /\ SubSeq(t, 1, 1) \in Texts /\ Len(SubSeq(t, 1, 1)) = 1
             /\ SubSeq(t, 1, 1) \o SubSeq(t, 2, Len(t)) = t
  <2>1. /\ 1 \in 1 .. Len(t) + 1 /\ 1 \in 1 - 1 .. Len(t) /\ Len(t) \in 1 .. Len(t)
        /\ 1 \in 1 .. Len(t)
    BY <1>0, <1>1
  <2>2. \A i \in 1 .. 1 : t[i] \in P
    BY <1>0, <2>1
  <2>3. SubSeq(t, 1, 1) \in Seq(P) /\ Len(SubSeq(t, 1, 1)) = 1
    BY <2>2, SubSeqProperties
  <2>4. SubSeq(t, 1, 1) \o SubSeq(t, 1 + 1, Len(t)) = SubSeq(t, 1, Len(t))
    BY <1>0, <2>1, ConcatAdjacentSubSeq
  <2> QED BY <1>0, <2>3, <2>4, SubSeqFull DEF Texts
<1>2. <<>> \o SubSeq(t, 1, Len(t)) = t
  BY <1>0, SubSeqFull
<1>3. ASSUME NEW g \in Texts PROVE g \o SubSeq(t, Len(g) + 1, Len(t)) \in Texts
  <2>1. Len(g) + 1 \in Int /\ Len(t) \in Int /\ Len(g) \in Nat
    BY <1>0 DEF Texts
  <2>2. \A i \in Len(g) + 1 .. Len(t) : t[i] \in P
    BY <1>0, <2>1
  <2>3. SubSeq(t, Len(g) + 1, Len(t)) \in Seq(P)
    BY <2>1, <2>2, SubSeqProperties
  <2> QED BY <2>3 DEF Texts
<1> QED BY <1>1, <1>2, <1>3

-----------------------------------------------------------------------------
(* One call moves.                                                         *)

\* A caller's step is sound when its own call is.
LEMMA OneCall ==
  ASSUME RepositoryInv, NEW r \in Readers, NEW c, CallOK(c), Becomes(r, c), UNCHANGED files
  PROVE  \A q \in Readers : CallOK(reader[q])'
<1>1. \A q \in Readers : CallOK(reader'[q])
  BY DEF RepositoryInv, FilesTypeOK, Becomes
<1>2. \A d : CallOK(d) => CallOK(d)'
  BY DEF CallOK, LoadOK, FoundOK, LastServed, PlaceOK, AccountOK, ExplainedBy, Current,
         Stamp, files
<1> QED BY <1>1, <1>2

\* A warning is added to those there are, and nothing else is changed.
LEMMA WarnedCalls ==
  ASSUME NEW c \in Calls, NEW p \in Places, NEW kind \in WarningKinds
  PROVE  /\ Warned(c, p, kind) = [c EXCEPT !.warned = Warned(c, p, kind).warned]
         /\ Warned(c, p, kind) \in Calls
         /\ \A i \in DOMAIN Warned(c, p, kind).warned :
               Warned(c, p, kind).warned[i] = [path |-> p, kind |-> kind] \/
               (i \in DOMAIN c.warned /\ Warned(c, p, kind).warned[i] = c.warned[i])
         /\ \A q : ExplainedBy(c, q) => ExplainedBy(Warned(c, p, kind), q)
         /\ ExplainedBy(Warned(c, p, kind), p)
         /\ Warned(c, p, kind).warned # <<>>
         /\ Last(Warned(c, p, kind).warned).kind = kind
<1> DEFINE S == [path : Places, kind : WarningKinds]
           w == [path |-> p, kind |-> kind]
           d == Warned(c, p, kind)
<1>1. c.warned \in Seq(S) /\ w \in S
  BY DEF Calls
<1>2. d.warned = Append(c.warned, w) /\ d = [c EXCEPT !.warned = Append(c.warned, w)]
      /\ d.found = c.found
  BY DEF Warned, Calls
<1>3. /\ Append(c.warned, w) \in Seq(S) /\ Len(Append(c.warned, w)) = Len(c.warned) + 1
      /\ Len(c.warned) \in Nat
      /\ DOMAIN Append(c.warned, w) = 1 .. Len(c.warned) + 1
      /\ DOMAIN c.warned = 1 .. Len(c.warned)
      /\ \A i \in 1 .. Len(c.warned) : Append(c.warned, w)[i] = c.warned[i]
      /\ Append(c.warned, w)[Len(c.warned) + 1] = w
  BY <1>1
<1>4. d \in Calls
  BY <1>2, <1>3 DEF Calls
<1>5. \A i \in DOMAIN d.warned : d.warned[i] = w \/ (i \in DOMAIN c.warned /\ d.warned[i] = c.warned[i])
  <2>1. \A i \in 1 .. Len(c.warned) : d.warned[i] = c.warned[i]
    BY <1>2, <1>3
  <2>2. d.warned[Len(c.warned) + 1] = w /\ DOMAIN d.warned = 1 .. Len(c.warned) + 1
    BY <1>2, <1>3
  <2> HIDE DEF w, d
  <2> SUFFICES ASSUME NEW i \in 1 .. Len(c.warned) + 1
               PROVE  d.warned[i] = w \/ (i \in DOMAIN c.warned /\ d.warned[i] = c.warned[i])
    BY <2>2
  <2>3. i \in 1 .. Len(c.warned) \/ i = Len(c.warned) + 1
    BY <1>3
  <2> QED BY <1>3, <2>1, <2>2, <2>3
<1>6. \A q : ExplainedBy(c, q) => ExplainedBy(d, q)
  BY <1>2, <1>3 DEF ExplainedBy
<1>7. ExplainedBy(d, p)
  <2>1. d.warned[Len(c.warned) + 1].path = p /\ Len(c.warned) + 1 \in DOMAIN d.warned
    BY <1>2, <1>3
  <2> QED BY <2>1 DEF ExplainedBy
<1>8. d.warned # <<>> /\ Last(d.warned).kind = kind
  BY <1>2, <1>3 DEF Last
<1> QED BY <1>2, <1>4, <1>5, <1>6, <1>7, <1>8

LEMMA PassedCalls ==
  ASSUME NEW c \in Calls
  PROVE  /\ Passed(c) \in Calls /\ Passed(c).at = "walk" /\ Passed(c).place = c.place + 1
         /\ Passed(c).job = c.job /\ Passed(c).path = c.path /\ Passed(c).found = c.found
         /\ Passed(c).warned = c.warned /\ Passed(c).visited = c.visited
         /\ Passed(c).retained = c.retained /\ Passed(c).during = c.during
         /\ c.place \in Nat
<1> DEFINE e == [c EXCEPT !.place = @ + 1]
<1>1. e \in Calls /\ c.place \in Nat
  BY DEF Calls
<1>2. [e EXCEPT !.at = "walk"] \in Calls
  <2> HIDE DEF e
  <2> QED BY <1>1 DEF Calls, CallSteps
<1>3. Passed(c) = [e EXCEPT !.at = "walk"]
  BY DEF Passed, Calls
<1> QED BY <1>1, <1>2, <1>3 DEF Passed, Calls

\* While a scan loads a file, what it has found is of others: a walk comes to
\* each once.
LEMMA LastIsElsewhere ==
  ASSUME NEW c, CallOK(c), c.job = "scan", c.at \in LoadSteps, c.found # <<>>
  PROVE  Last(c.found).path # c.path
<1>1. Len(c.found) \in DOMAIN c.found
  BY DEF CallOK, Calls
<1>2. PICK j \in DOMAIN Walk : j < c.place /\ Last(c.found).path = Walk[j].path
  BY <1>1 DEF CallOK, PlaceOK, Last
<1> QED BY <1>2, RepositoryAssumption DEF CallOK, Calls, PlaceOK, RepositoryAssumption

\* A file that is skipped is explained, and the walk goes on or the fetch ends.
LEMMA SkippedCalls ==
  ASSUME RepositoryInv, NEW r \in Readers, reader[r].at \in LoadSteps,
         NEW kind \in {"Unreadable", "TooLarge", "Binary"}, Skip(r, kind), UNCHANGED files
  PROVE  \A q \in Readers : CallOK(reader[q])'
<1> DEFINE c == reader[r]
           w == Warned(c, c.path, kind)
<1>1. CallOK(c) /\ c \in Calls /\ c.path \in Places /\ kind \in WarningKinds
  BY DEF RepositoryInv, CallOK, Calls, WarningKinds
<1>2. /\ w \in Calls /\ w = [c EXCEPT !.warned = w.warned]
      /\ \A i \in DOMAIN w.warned : w.warned[i] = [path |-> c.path, kind |-> kind] \/
            (i \in DOMAIN c.warned /\ w.warned[i] = c.warned[i])
      /\ \A q : ExplainedBy(c, q) => ExplainedBy(w, q)
      /\ ExplainedBy(w, c.path)
  BY <1>1, WarnedCalls
<1>3. \A i \in DOMAIN w.warned : c.job = "scan" => w.warned[i].kind # "FileLimitReached"
  BY <1>1, <1>2 DEF CallOK, AccountOK, LoadSteps
<1> HIDE DEF w
<1>4. /\ w.at = c.at /\ w.job = c.job /\ w.place = c.place /\ w.path = c.path
      /\ w.found = c.found /\ w.visited = c.visited /\ w.retained = c.retained
      /\ w.during = c.during
  BY <1>1, <1>2 DEF Calls
<1>5. CASE c.job = "scan"
  <2> DEFINE d == Passed(w)
  <2>1. /\ d \in Calls /\ d.at = "walk" /\ d.job = "scan" /\ d.place = c.place + 1
        /\ d.path = c.path /\ d.found = c.found /\ d.warned = w.warned
        /\ d.visited = c.visited /\ d.retained = c.retained /\ d.during = c.during
        /\ c.place \in Nat
    BY <1>2, <1>4, <1>5, PassedCalls
  <2> HIDE DEF d
  <2>2. PlaceOK(d) /\ LoadOK(d)
    BY <1>1, <1>5, <2>1, RepositoryAssumption
       DEF CallOK, PlaceOK, LoadOK, LoadSteps, RepositoryAssumption
  <2>3. FoundOK(d)
    <3>1. c.found # <<>> => Last(c.found).path # c.path
      BY <1>1, <1>5, LastIsElsewhere
    <3> QED BY <1>1, <2>1, <3>1 DEF CallOK, FoundOK, LastServed
  <2>4. AccountOK(d)
    <3>1. \A i \in Shown : i < d.place => ExplainedBy(d, Walk[i].path)
      <4> SUFFICES ASSUME NEW i \in Shown, i < c.place + 1 PROVE ExplainedBy(d, Walk[i].path)
        BY <2>1
      <4>1. ExplainedBy(w, Walk[i].path) => ExplainedBy(d, Walk[i].path)
        BY <1>4, <2>1 DEF ExplainedBy
      <4>2. CASE i < c.place
        BY <1>1, <1>2, <1>5, <4>1, <4>2 DEF CallOK, AccountOK
      <4>3. CASE i = c.place
        BY <1>1, <1>2, <1>5, <4>1, <4>3 DEF CallOK, PlaceOK
      <4> QED BY <2>1, <4>2, <4>3, RepositoryAssumption DEF Shown, RepositoryAssumption
    <3> QED BY <1>1, <1>3, <1>5, <2>1, <3>1 DEF CallOK, AccountOK
  <2>5. Becomes(r, d)
    BY <1>4, <1>5 DEF Skip, d, w
  <2> QED BY <2>1, <2>2, <2>3, <2>4, <2>5, OneCall DEF CallOK
<1>6. CASE c.job # "scan"
  <2> DEFINE d == Ended(w)
  <2>1. d \in Calls /\ d.at = "ended" /\ d.job = c.job /\ d.found = c.found
    BY <1>1, <1>2, <1>4, <1>6 DEF Ended, Calls, CallSteps
  <2> HIDE DEF d
  <2>2. c.found = <<>>
    BY <1>1, <1>6 DEF CallOK, FoundOK, LoadSteps
  <2>3. CallOK(d)
    BY <1>6, <2>1, <2>2 DEF CallOK, PlaceOK, LoadOK, FoundOK, LastServed, AccountOK, LoadSteps
  <2>4. Becomes(r, d)
    BY <1>6, <1>4 DEF Skip, d, w
  <2> QED BY <2>3, <2>4, OneCall
<1> QED BY <1>5, <1>6

LEMMA EndedCalls ==
  ASSUME NEW c \in Calls
  PROVE  /\ Ended(c) \in Calls /\ Ended(c).at = "ended" /\ Ended(c).place = c.place
         /\ Ended(c).job = c.job /\ Ended(c).path = c.path /\ Ended(c).found = c.found
         /\ Ended(c).warned = c.warned /\ Ended(c).visited = c.visited
         /\ Ended(c).retained = c.retained /\ Ended(c).during = c.during
         /\ c.place \in Nat
BY DEF Ended, Calls, CallSteps

\* A candidate is added to those there are.
WithCandidate(c, text, n) ==
    [c EXCEPT !.text = text, !.retained = n,
              !.found = Append(@, [path |-> c.path, text |-> text])]

LEMMA KeptCalls ==
  ASSUME NEW c \in Calls, c.path \in Paths, NEW text \in Texts, NEW n \in Nat,
         NEW k, k = WithCandidate(c, text, n)
  PROVE  /\ k \in Calls /\ k.at = c.at /\ k.job = c.job /\ k.place = c.place
         /\ k.path = c.path /\ k.warned = c.warned /\ k.visited = c.visited
         /\ k.retained = n /\ k.during = c.during
         /\ \A i \in DOMAIN k.found : k.found[i] = [path |-> c.path, text |-> text] \/
               (i \in DOMAIN c.found /\ k.found[i] = c.found[i])
         /\ \A q : ExplainedBy(c, q) => ExplainedBy(k, q)
         /\ ExplainedBy(k, c.path)
         /\ k.found # <<>> /\ Last(k.found) = [path |-> c.path, text |-> text]
<1> DEFINE S == [path : Paths, text : Texts]
           w == [path |-> c.path, text |-> text]
           f == Append(c.found, w)
           e == [c EXCEPT !.text = text, !.retained = n]
<1>1. c.found \in Seq(S) /\ w \in S
  BY DEF Calls
<1>2. /\ f \in Seq(S) /\ Len(c.found) \in Nat /\ Len(f) = Len(c.found) + 1
      /\ DOMAIN f = 1 .. Len(c.found) + 1 /\ DOMAIN c.found = 1 .. Len(c.found)
      /\ \A i \in 1 .. Len(c.found) : f[i] = c.found[i]
      /\ f[Len(c.found) + 1] = w
  BY <1>1
<1>3. e \in Calls
  BY DEF Calls
<1>4. k = [e EXCEPT !.found = f]
  BY DEF Calls, WithCandidate
<1>5. k.found = f /\ k.warned = c.warned
  BY <1>3, <1>4 DEF Calls
<1>6. k \in Calls
  <2> HIDE DEF e, f, w
  <2> QED BY <1>2, <1>3, <1>4 DEF Calls
<1>7. /\ k.at = c.at /\ k.job = c.job /\ k.place = c.place /\ k.path = c.path
      /\ k.visited = c.visited /\ k.retained = n /\ k.during = c.during
  BY <1>3, <1>4 DEF Calls
<1> HIDE DEF f, w
<1>8. \A i \in DOMAIN k.found : k.found[i] = w \/ (i \in DOMAIN c.found /\ k.found[i] = c.found[i])
  <2> SUFFICES ASSUME NEW i \in 1 .. Len(c.found) + 1
               PROVE  f[i] = w \/ (i \in DOMAIN c.found /\ f[i] = c.found[i])
    BY <1>2, <1>5
  <2>1. i \in 1 .. Len(c.found) \/ i = Len(c.found) + 1
    BY <1>2
  <2> QED BY <1>2, <2>1
<1>9. \A q : ExplainedBy(c, q) => ExplainedBy(k, q)
  BY <1>2, <1>5 DEF ExplainedBy
<1>10. ExplainedBy(k, c.path)
  <2>1. k.found[Len(c.found) + 1].path = c.path /\ Len(c.found) + 1 \in DOMAIN k.found
    BY <1>2, <1>5 DEF w
  <2> QED BY <2>1 DEF ExplainedBy
<1>11. k.found # <<>> /\ Last(k.found) = w
  BY <1>2, <1>5 DEF Last
<1> QED BY <1>5, <1>6, <1>7, <1>8, <1>9, <1>10, <1>11 DEF w

\* A loaded file becomes a candidate, or ends the scan at the limit of bytes.
LEMMA LoadedCalls ==
  ASSUME RepositoryInv, NEW r \in Readers, reader[r].at \in LoadSteps,
         NEW text \in Texts, Clean(text),
         \/ reused[reader[r].path]
         \/ text \in {Redact(v) : v \in reader[r].during \ {Missing}},
         AddCandidate(r, text), UNCHANGED files
  PROVE  \A q \in Readers : CallOK(reader[q])'
<1> DEFINE c == reader[r]
           b == [c EXCEPT !.text = text]
           k == [b EXCEPT !.retained = @ + Len(text),
                          !.found = Append(@, [path |-> b.path, text |-> text])]
<1>0. CallOK(c) /\ c \in Calls
  BY DEF RepositoryInv, CallOK
<1>1. c.path \in Paths /\ Len(text) \in Nat /\ c.retained \in Nat
  BY <1>0 DEF CallOK, LoadOK, Calls, Texts
<1>2. k = WithCandidate(c, text, c.retained + Len(text))
  BY <1>0, <1>1 DEF Calls, WithCandidate
<1>3. c.retained + Len(text) \in Nat
  BY <1>1
<1>4. /\ k \in Calls /\ k.at = c.at /\ k.job = c.job /\ k.place = c.place
      /\ k.path = c.path /\ k.warned = c.warned /\ k.visited = c.visited
      /\ k.retained = c.retained + Len(text) /\ k.during = c.during
      /\ \A i \in DOMAIN k.found : k.found[i] = [path |-> c.path, text |-> text] \/
            (i \in DOMAIN c.found /\ k.found[i] = c.found[i])
      /\ \A q : ExplainedBy(c, q) => ExplainedBy(k, q)
      /\ ExplainedBy(k, c.path)
      /\ k.found # <<>> /\ Last(k.found) = [path |-> c.path, text |-> text]
  <2> HIDE DEF c, k
  <2> QED BY <1>0, <1>1, <1>2, <1>3, KeptCalls
<1>5. /\ b \in Calls /\ b.at = c.at /\ b.job = c.job /\ b.place = c.place
      /\ b.path = c.path /\ b.warned = c.warned /\ b.visited = c.visited
      /\ b.retained = c.retained /\ b.during = c.during /\ b.found = c.found
  BY <1>0 DEF Calls
<1>6. \A i \in DOMAIN k.found : Clean(k.found[i].text)
  <2> HIDE DEF k
  <2> QED BY <1>0, <1>4 DEF CallOK, FoundOK
<1>7. Becomes(r, IF c.job = "fetch" THEN Ended(k)
                 ELSE IF c.retained + Len(text) > limits.total
                      THEN Ended(Warned(b, b.path, "TotalBytesLimitReached"))
                      ELSE Passed(k))
  BY <1>5 DEF AddCandidate
<1> HIDE DEF k, b
<1>8. c.job \in {"fetch", "scan"}
  <2>1. c.job # "none"
    BY <1>0 DEF CallOK, PlaceOK
  <2> QED BY <1>0, <2>1 DEF Calls
<1>9. CASE c.job = "fetch"
  <2> DEFINE d == Ended(k)
  <2>1. /\ d \in Calls /\ d.at = "ended" /\ d.job = "fetch" /\ d.found = k.found
        /\ d.path = c.path /\ d.during = c.during
    BY <1>4, <1>9, EndedCalls
  <2> HIDE DEF d
  <2>2. FoundOK(d)
    BY <1>4, <1>6, <2>1 DEF FoundOK, LastServed
  <2>3. CallOK(d)
    BY <2>1, <2>2 DEF CallOK, PlaceOK, LoadOK, AccountOK, LoadSteps
  <2>4. Becomes(r, d)
    BY <1>7, <1>9 DEF d
  <2> QED BY <2>3, <2>4, OneCall
<1>10. CASE c.job = "scan" /\ c.retained + Len(text) > limits.total
  <2> DEFINE w == Warned(b, b.path, "TotalBytesLimitReached")
             d == Ended(w)
  <2>1. b.path \in Places /\ "TotalBytesLimitReached" \in WarningKinds /\ b \in Calls
    BY <1>1, <1>5 DEF Places, WarningKinds, LastWords
  <2>2. /\ w = [b EXCEPT !.warned = w.warned] /\ w \in Calls
        /\ \A i \in DOMAIN w.warned :
              w.warned[i] = [path |-> b.path, kind |-> "TotalBytesLimitReached"] \/
              (i \in DOMAIN b.warned /\ w.warned[i] = b.warned[i])
        /\ \A q : ExplainedBy(b, q) => ExplainedBy(w, q)
        /\ w.warned # <<>> /\ Last(w.warned).kind = "TotalBytesLimitReached"
    BY <2>1, WarnedCalls
  <2> HIDE DEF w
  <2>3. /\ d \in Calls /\ d.at = "ended" /\ d.job = "scan" /\ d.place = c.place
        /\ d.path = c.path /\ d.found = c.found /\ d.warned = w.warned
        /\ d.visited = c.visited /\ d.retained = c.retained /\ d.during = c.during
        /\ d.found = w.found
    <3>1. /\ w.at = b.at /\ w.job = b.job /\ w.place = b.place /\ w.path = b.path
          /\ w.found = b.found /\ w.visited = b.visited /\ w.retained = b.retained
          /\ w.during = b.during
      BY <1>5, <2>2 DEF Calls
    <3> QED BY <1>5, <1>10, <2>2, <3>1, EndedCalls
  <2> HIDE DEF d
  <2>4. FoundOK(d)
    BY <1>0, <1>10, <2>3, LastIsElsewhere DEF CallOK, FoundOK, LastServed
  <2>5. PlaceOK(d) /\ LoadOK(d)
    BY <1>0, <1>10, <2>3 DEF CallOK, PlaceOK, LoadOK, LoadSteps
  <2>6. AccountOK(d)
    <3>1. \A i \in Shown : i < d.place => ExplainedBy(d, Walk[i].path)
      <4>1. \A q : ExplainedBy(c, q) => ExplainedBy(b, q)
        BY <1>5 DEF ExplainedBy
      <4>2. \A q : ExplainedBy(w, q) => ExplainedBy(d, q)
        BY <2>3 DEF ExplainedBy
      <4> QED BY <1>0, <1>10, <2>2, <2>3, <4>1, <4>2 DEF CallOK, AccountOK
    <3>2. \A i \in DOMAIN d.warned : d.warned[i].kind # "FileLimitReached"
      BY <1>0, <1>5, <1>10, <2>2, <2>3 DEF CallOK, AccountOK, LoadSteps
    <3> QED BY <1>0, <1>10, <2>2, <2>3, <3>1, <3>2 DEF CallOK, AccountOK, LastWords
  <2>7. Becomes(r, d)
    BY <1>7, <1>10 DEF d, w
  <2> QED BY <2>3, <2>4, <2>5, <2>6, <2>7, OneCall DEF CallOK
<1>11. CASE c.job = "scan" /\ ~(c.retained + Len(text) > limits.total)
  <2> DEFINE d == Passed(k)
  <2>1. /\ d \in Calls /\ d.at = "walk" /\ d.job = "scan" /\ d.place = c.place + 1
        /\ d.path = c.path /\ d.found = k.found /\ d.warned = c.warned
        /\ d.visited = c.visited /\ d.retained = c.retained + Len(text)
        /\ d.during = c.during /\ c.place \in Nat
    BY <1>4, <1>11, PassedCalls
  <2> HIDE DEF d
  <2>2. FoundOK(d)
    BY <1>4, <1>6, <1>11, <2>1 DEF FoundOK, LastServed
  <2>3. LoadOK(d)
    BY <2>1 DEF LoadOK, LoadSteps
  <2>4. PlaceOK(d)
    <3>1. c.place \in DOMAIN Walk /\ Walk[c.place].path = c.path
      BY <1>0, <1>11 DEF CallOK, PlaceOK
    <3>2. ASSUME NEW i \in DOMAIN d.found
          PROVE  \E j \in DOMAIN Walk : j < d.place /\ d.found[i].path = Walk[j].path
      <4>1. CASE d.found[i] = [path |-> c.path, text |-> text]
        BY <2>1, <3>1, <4>1
      <4>2. CASE i \in DOMAIN c.found /\ d.found[i] = c.found[i]
        <5>1. PICK j \in DOMAIN Walk : j < c.place /\ c.found[i].path = Walk[j].path
          BY <1>0, <1>11, <4>2 DEF CallOK, PlaceOK
        <5>2. j < c.place + 1
          BY <2>1, <5>1, RepositoryAssumption DEF RepositoryAssumption
        <5> QED BY <2>1, <4>2, <5>1, <5>2
      <4> QED BY <1>4, <2>1, <3>2, <4>1, <4>2
    <3>3. d.place >= 1
      BY <2>1
    <3> QED BY <2>1, <3>2, <3>3 DEF PlaceOK, LoadSteps
  <2>5. AccountOK(d)
    <3>1. \A i \in Shown : i < d.place => ExplainedBy(d, Walk[i].path)
      <4> SUFFICES ASSUME NEW i \in Shown, i < c.place + 1 PROVE ExplainedBy(d, Walk[i].path)
        BY <2>1
      <4>1. ExplainedBy(k, Walk[i].path) => ExplainedBy(d, Walk[i].path)
        BY <1>4, <2>1 DEF ExplainedBy
      <4>2. CASE i < c.place
        BY <1>0, <1>4, <1>11, <4>1, <4>2 DEF CallOK, AccountOK
      <4>3. CASE i = c.place
        BY <1>0, <1>4, <1>11, <4>1, <4>3 DEF CallOK, PlaceOK
      <4> QED BY <2>1, <4>2, <4>3, RepositoryAssumption DEF Shown, RepositoryAssumption
    <3>2. limits.total \in Nat
      BY RepositoryAssumption DEF RepositoryInv, FilesTypeOK, RepositoryAssumption
    <3> QED BY <1>0, <1>1, <1>11, <2>1, <3>1, <3>2 DEF CallOK, AccountOK, LoadSteps
  <2>6. Becomes(r, d)
    BY <1>7, <1>11 DEF d
  <2> QED BY <2>1, <2>2, <2>3, <2>4, <2>5, <2>6, OneCall DEF CallOK
<1> QED BY <1>8, <1>9, <1>10, <1>11

\* What load_text does before it knows the text leaves what was found and
\* explained.
SameProgress(c, d) ==
    /\ d.job = c.job /\ d.place = c.place /\ d.path = c.path /\ d.during = c.during
    /\ d.visited = c.visited /\ d.found = c.found /\ d.warned = c.warned
    /\ d.retained = c.retained

LEMMA LoadingCalls ==
  ASSUME RepositoryInv, NEW r \in Readers, reader[r].at \in LoadSteps,
         NEW d \in Calls, d.at \in LoadSteps, SameProgress(reader[r], d), LoadOK(d),
         Becomes(r, d), UNCHANGED files
  PROVE  \A q \in Readers : CallOK(reader[q])'
<1>1. CallOK(reader[r])
  BY DEF RepositoryInv
<1>2. FoundOK(d)
  BY <1>1 DEF CallOK, FoundOK, SameProgress, LoadSteps
<1>3. PlaceOK(d)
  BY <1>1 DEF CallOK, PlaceOK, SameProgress, LoadSteps
<1>4. AccountOK(d)
  BY <1>1 DEF CallOK, AccountOK, ExplainedBy, SameProgress, LoadSteps
<1> QED BY <1>2, <1>3, <1>4, OneCall DEF CallOK

LEMMA StatCalls ==
  ASSUME RepositoryInv, NEW r \in Readers, Stat(r)
  PROVE  \A q \in Readers : CallOK(reader[q])'
<1> DEFINE c == reader[r]
           p == c.path
<1>1. /\ c.at \in LoadSteps /\ UNCHANGED files /\ CallOK(c) /\ c \in Calls /\ p \in Paths
      /\ c.at = "stat"
  BY DEF Stat, LoadSteps, RepositoryInv, CallOK, LoadOK
<1>2. CASE disk[p] = Missing
  BY <1>1, <1>2, SkippedCalls DEF Stat
<1>3. CASE disk[p] # Missing /\ Len(disk[p]) > limits.file
  BY <1>1, <1>3, SkippedCalls DEF Stat
<1>4. CASE /\ disk[p] # Missing /\ ~(Len(disk[p]) > limits.file)
           /\ cache[p] # Missing /\ cache[p].stamp = Stamp(p)
  <2>1. EntryOK(p, cache[p]) /\ disk[p] \in c.during /\ disk[p] # Missing
    BY <1>1, <1>4 DEF RepositoryInv, CacheInv, CallOK, LoadOK
  <2>2. reused[p] \/ cache[p].text = Redact(disk[p])
    BY <1>1, <1>4, <2>1 DEF EntryOK, Current
  <2>3. AddCandidate(r, cache[p].text)
    BY <1>4 DEF Stat
  <2>4. cache[p].text \in Texts /\ Clean(cache[p].text)
    BY <2>1 DEF EntryOK
  <2>5. reused[p] \/ cache[p].text \in {Redact(v) : v \in c.during \ {Missing}}
    BY <2>1, <2>2
  <2> QED BY <1>1, <2>3, <2>4, <2>5, LoadedCalls
<1>5. CASE /\ disk[p] # Missing /\ ~(Len(disk[p]) > limits.file)
           /\ ~(cache[p] # Missing /\ cache[p].stamp = Stamp(p))
  <2> DEFINE d == [c EXCEPT !.at = "read", !.stamp = Stamp(p)]
  <2>1. Stamp(p) \in stamps[p] /\ Stamp(p) \in Nat \X Nat
    BY <1>1, <1>5 DEF RepositoryInv, StampsInv, FilesTypeOK
  <2>2. d \in Calls /\ d.at = "read" /\ d.stamp = Stamp(p) /\ SameProgress(c, d)
    <3> DEFINE e == [c EXCEPT !.stamp = Stamp(p)]
    <3>1. e \in Calls
      BY <1>1, <2>1 DEF Calls
    <3>2. d = [e EXCEPT !.at = "read"]
      BY <1>1 DEF Calls
    <3>3. d.at = "read" /\ d.stamp = Stamp(p) /\ SameProgress(c, d)
      BY <1>1 DEF Calls, SameProgress
    <3> HIDE DEF e
    <3>4. [e EXCEPT !.at = "read"] \in Calls
      BY <3>1 DEF Calls, CallSteps, LoadSteps
    <3> QED BY <3>2, <3>3, <3>4
  <2>3. Becomes(r, d)
    BY <1>5 DEF Stat
  <2> HIDE DEF d
  <2>4. LoadOK(d)
    BY <1>1, <2>1, <2>2 DEF CallOK, LoadOK, SameProgress
  <2>5. d.at \in LoadSteps
    BY <2>2 DEF LoadSteps
  <2> QED BY <1>1, <2>2, <2>3, <2>4, <2>5, LoadingCalls
<1> QED BY <1>2, <1>3, <1>4, <1>5

Holding(c, at, text) == [c EXCEPT !.at = at, !.text = text]

LEMMA TextCalls ==
  ASSUME NEW c \in Calls, NEW at \in LoadSteps, NEW text \in Texts,
         NEW d, d = Holding(c, at, text)
  PROVE  d \in Calls /\ d.at = at /\ d.text = text /\ d.stamp = c.stamp /\ SameProgress(c, d)
<1> DEFINE e == [c EXCEPT !.text = text]
<1>1. e \in Calls /\ d = [e EXCEPT !.at = at]
  BY DEF Calls, Holding
<1>2. d.at = at /\ d.text = text /\ d.stamp = c.stamp /\ SameProgress(c, d)
  BY DEF Calls, Holding, SameProgress
<1> HIDE DEF e
<1>3. [e EXCEPT !.at = at] \in Calls
  BY <1>1 DEF Calls, CallSteps
<1> QED BY <1>1, <1>2, <1>3

LEMMA ReadPartCalls ==
  ASSUME RepositoryInv, NEW r \in Readers, ReadPart(r)
  PROVE  \A q \in Readers : CallOK(reader[q])'
<1> DEFINE c == reader[r]
           p == c.path
           text == SubSeq(disk[p], 1, 1)
           d == [c EXCEPT !.at = "rest", !.text = text]
<1>1. /\ c.at = "read" /\ c.at \in LoadSteps /\ "rest" \in LoadSteps /\ UNCHANGED files
      /\ CallOK(c) /\ c \in Calls /\ p \in Paths /\ disk[p] # Missing /\ disk[p] # <<>>
      /\ Becomes(r, d)
  BY DEF ReadPart, LoadSteps, RepositoryInv, CallOK, LoadOK
<1>2. text \in Texts
  <2>1. disk[p] \in Texts
    BY <1>1, ContentsAreTexts DEF RepositoryInv, FilesTypeOK
  <2> QED BY <1>1, <2>1, PartsOfTexts
<1>3. d = Holding(c, "rest", text)
  BY DEF Holding
<1> HIDE DEF d, text
<1>4. d \in Calls /\ d.at = "rest" /\ d.text = text /\ d.stamp = c.stamp /\ SameProgress(c, d)
  BY <1>1, <1>2, <1>3, TextCalls
<1> USE DEF text
<1>5. LoadOK(d)
  BY <1>1, <1>4 DEF CallOK, LoadOK, SameProgress
<1> QED BY <1>1, <1>4, <1>5, LoadingCalls

LEMMA ReadRestCalls ==
  ASSUME RepositoryInv, NEW r \in Readers, ReadRest(r)
  PROVE  \A q \in Readers : CallOK(reader[q])'
<1> DEFINE c == reader[r]
           p == c.path
           got == IF c.at = "read" THEN <<>> ELSE c.text
           content == IF disk[p] = Missing THEN <<>> ELSE disk[p]
           text == got \o SubSeq(content, Len(got) + 1, Len(content))
           d == [c EXCEPT !.at = "after", !.text = text]
<1>1. /\ c.at \in {"read", "rest"} /\ c.at \in LoadSteps /\ "after" \in LoadSteps
      /\ UNCHANGED files /\ CallOK(c) /\ c \in Calls /\ p \in Paths
  BY DEF ReadRest, LoadSteps, RepositoryInv, CallOK, LoadOK
<1>2. CASE c.at = "read" /\ disk[p] = Missing
  BY <1>1, <1>2, SkippedCalls DEF ReadRest
<1>3. CASE ~(c.at = "read" /\ disk[p] = Missing) /\ IsBinary(text)
  BY <1>1, <1>3, SkippedCalls DEF ReadRest
<1>4. CASE ~(c.at = "read" /\ disk[p] = Missing) /\ ~IsBinary(text)
  <2>1. Becomes(r, d)
    BY <1>4 DEF ReadRest
  <2>2. <<>> \in Texts /\ got \in Texts /\ content \in Texts
    <3>1. disk[p] # Missing => disk[p] \in Texts
      BY <1>1, ContentsAreTexts DEF RepositoryInv, FilesTypeOK
    <3>2. <<>> \in Texts /\ c.text \in Texts
      BY <1>1 DEF Calls, Texts
    <3> QED BY <3>1, <3>2
  <2>3. text \in Texts
    <3> HIDE DEF got, content
    <3> QED BY <2>2, PartsOfTexts
  <2>4. Current(p, c.stamp) => text = disk[p]
    <3> SUFFICES ASSUME Current(p, c.stamp) PROVE text = disk[p]
      OBVIOUS
    <3>1. content = disk[p] /\ disk[p] \in Texts
      BY <2>2 DEF Current
    <3>2. CASE c.at = "read"
      <4>1. got = <<>> /\ Len(got) + 1 = 1
        BY <3>2
      <4> HIDE DEF got, content
      <4> QED BY <3>1, <4>1, PartsOfTexts
    <3>3. CASE c.at = "rest"
      <4>1. got = SubSeq(disk[p], 1, 1) /\ disk[p] # <<>>
        BY <1>1, <3>3 DEF CallOK, LoadOK
      <4> HIDE DEF got, content
      <4>2. Len(got) = 1
        BY <3>1, <4>1, PartsOfTexts
      <4>3. text = SubSeq(disk[p], 1, 1) \o SubSeq(disk[p], 2, Len(disk[p]))
        BY <3>1, <4>1, <4>2
      <4> QED BY <3>1, <4>1, <4>3, PartsOfTexts
    <3> QED BY <1>1, <3>2, <3>3
  <2>5. d = Holding(c, "after", text)
    BY DEF Holding
  <2> HIDE DEF text, d
  <2>6. d \in Calls /\ d.at = "after" /\ d.text = text /\ d.stamp = c.stamp /\ SameProgress(c, d)
    BY <1>1, <2>3, <2>5, TextCalls
  <2>7. LoadOK(d)
    BY <1>1, <2>4, <2>6 DEF CallOK, LoadOK, SameProgress
  <2> QED BY <1>1, <2>1, <2>6, <2>7, LoadingCalls
<1> QED BY <1>2, <1>3, <1>4

\* A second look at a file that has changed, or none.
LEMMA AgainCalls ==
  ASSUME RepositoryInv, NEW r \in Readers, reader[r].at \in LoadSteps, Again(r),
         UNCHANGED files
  PROVE  \A q \in Readers : CallOK(reader[q])'
<1> DEFINE c == reader[r]
           d == [c EXCEPT !.at = "stat", !.attempt = 1, !.text = <<>>]
           e == [c EXCEPT !.attempt = 1]
<1>1. CallOK(c) /\ c \in Calls
  BY DEF RepositoryInv, CallOK
<1>2. CASE c.attempt # 0
  BY <1>2, SkippedCalls DEF Again
<1>3. CASE c.attempt = 0
  <2>1. e \in Calls /\ SameProgress(c, e)
    BY <1>1 DEF Calls, SameProgress
  <2>2. d = Holding(e, "stat", <<>>)
    BY <1>1 DEF Calls, Holding
  <2>3. Becomes(r, d)
    BY <1>3 DEF Again
  <2> HIDE DEF d, e
  <2>4. "stat" \in LoadSteps /\ <<>> \in Texts
    BY DEF LoadSteps, Texts
  <2>5. d \in Calls /\ d.at = "stat" /\ SameProgress(e, d)
    BY <2>1, <2>2, <2>4, TextCalls
  <2>6. SameProgress(c, d)
    BY <2>1, <2>5 DEF SameProgress
  <2>7. LoadOK(d)
    BY <1>1, <2>5, <2>6 DEF CallOK, LoadOK, SameProgress
  <2> QED BY <2>3, <2>4, <2>5, <2>6, <2>7, LoadingCalls
<1> QED BY <1>2, <1>3

LEMMA RecheckCalls ==
  ASSUME RepositoryInv, NEW r \in Readers, Recheck(r)
  PROVE  \A q \in Readers : CallOK(reader[q])'
<1> DEFINE c == reader[r]
           p == c.path
           d == [c EXCEPT !.at = "final", !.text = Redact(@)]
<1>1. /\ c.at = "after" /\ c.at \in LoadSteps /\ "final" \in LoadSteps
      /\ UNCHANGED files /\ CallOK(c) /\ c \in Calls /\ p \in Paths
  BY DEF Recheck, LoadSteps, RepositoryInv, CallOK, LoadOK
<1>2. CASE disk[p] = Missing
  BY <1>1, <1>2, SkippedCalls DEF Recheck
<1>3. CASE disk[p] # Missing /\ Changed(r)
  BY <1>1, <1>3, AgainCalls DEF Recheck
<1>4. CASE disk[p] # Missing /\ ~Changed(r)
  <2>1. Becomes(r, d)
    BY <1>4 DEF Recheck
  <2>2. c.text \in Texts /\ Redact(c.text) \in Texts /\ Clean(Redact(c.text))
    BY <1>1, RedactedTexts DEF Calls
  <2>3. d = Holding(c, "final", Redact(c.text))
    BY <1>1 DEF Calls, Holding
  <2> HIDE DEF d
  <2>4. /\ d \in Calls /\ d.at = "final" /\ d.text = Redact(c.text) /\ d.stamp = c.stamp
        /\ SameProgress(c, d)
    BY <1>1, <2>2, <2>3, TextCalls
  <2>5. LoadOK(d)
    BY <1>1, <2>2, <2>4 DEF CallOK, LoadOK, SameProgress
  <2> QED BY <1>1, <2>1, <2>4, <2>5, LoadingCalls
<1> QED BY <1>2, <1>3, <1>4

\* The cache gets what the file holds as of the stamp that it has.
LEMMA StoreCalls ==
  ASSUME RepositoryInv, NEW r \in Readers, Store(r)
  PROVE  /\ \A q \in Readers : CallOK(reader[q])'
         /\ DOMAIN cache' = Paths /\ CacheInv'
<1> DEFINE c == reader[r]
           p == c.path
           new == [stamp |-> Stamp(p), text |-> c.text]
<1>1. /\ c.at = "final" /\ c.at \in LoadSteps
      /\ UNCHANGED files /\ CallOK(c) /\ c \in Calls /\ p \in Paths
  BY DEF Store, LoadSteps, RepositoryInv, CallOK, LoadOK
<1>2. DOMAIN cache = Paths /\ CacheInv
  BY DEF RepositoryInv, FilesTypeOK
<1>3. \A q \in Paths : \A entry : EntryOK(q, entry) => EntryOK(q, entry)'
  BY <1>1 DEF EntryOK, Current, Stamp, files
<1>4. CASE disk[p] = Missing
  <2>1. Skip(r, "Unreadable") /\ UNCHANGED cache
    BY <1>4 DEF Store
  <2> QED BY <1>1, <1>2, <1>3, <2>1, SkippedCalls DEF CacheInv
<1>5. CASE disk[p] # Missing /\ Changed(r)
  <2>1. Again(r) /\ UNCHANGED cache
    BY <1>5 DEF Store
  <2> QED BY <1>1, <1>2, <1>3, <2>1, AgainCalls DEF CacheInv
<1>6. CASE disk[p] # Missing /\ ~Changed(r)
  <2>1. cache' = [cache EXCEPT ![p] = new] /\ AddCandidate(r, c.text)
    BY <1>6 DEF Store
  <2>2. Stamp(p) = c.stamp /\ c.stamp \in stamps[p] /\ Clean(c.text) /\ c.text \in Texts
        /\ disk[p] \in c.during
    BY <1>1, <1>6 DEF Changed, CallOK, LoadOK, Calls
  <2>3. reused[p] \/ c.text = Redact(disk[p])
    BY <1>1, <1>6, <2>2 DEF CallOK, LoadOK, Current
  <2>4. reused[p] \/ c.text \in {Redact(v) : v \in c.during \ {Missing}}
    BY <1>6, <2>2, <2>3
  <2>5. EntryOK(p, new)
    BY <2>2, <2>3 DEF EntryOK, Current
  <2>6. CacheInv'
    <3> HIDE DEF new
    <3>1. ASSUME NEW q \in Paths, NEW entry, entry = cache'[q], entry # Missing
          PROVE  EntryOK(q, entry)'
      <4>1. EntryOK(q, entry)
        <5>1. CASE q = p
          BY <1>1, <1>2, <2>1, <2>5, <3>1, <5>1
        <5>2. CASE q # p
          BY <1>1, <1>2, <2>1, <3>1, <5>2 DEF CacheInv
        <5> QED BY <5>1, <5>2
      <4> QED BY <1>3, <4>1
    <3> QED BY <3>1 DEF CacheInv
  <2> QED BY <1>1, <1>2, <2>1, <2>2, <2>4, <2>6, LoadedCalls
<1> QED BY <1>4, <1>5, <1>6

-----------------------------------------------------------------------------
(* The walk, and the ends of a call.                                       *)

\* A call that has just begun, or been returned from.
LEMMA NewCalls ==
  ASSUME RepositoryInv, NEW r \in Readers, UNCHANGED files,
         \/ Becomes(r, Ready)
         \/ Becomes(r, [Ready EXCEPT !.at = "walk", !.job = "scan", !.place = 1])
         \/ \E p \in Paths : Becomes(r, Loading([Ready EXCEPT !.job = "fetch"], p))
  PROVE  \A q \in Readers : CallOK(reader[q])'
<1>1. Ready \in Calls
  BY DEF Ready, Calls, CallSteps, Places, Texts
<1>2. CASE Becomes(r, Ready)
  <2>1. CallOK(Ready)
    BY <1>1 DEF Ready, CallOK, LoadOK, FoundOK, LastServed, PlaceOK, AccountOK, LoadSteps
  <2> QED BY <1>2, <2>1, OneCall
<1>3. CASE Becomes(r, [Ready EXCEPT !.at = "walk", !.job = "scan", !.place = 1])
  <2> DEFINE d == [Ready EXCEPT !.at = "walk", !.job = "scan", !.place = 1]
  <2>1. /\ d.at = "walk" /\ d.job = "scan" /\ d.place = 1 /\ d.found = <<>>
        /\ d.warned = <<>> /\ d.visited = 0 /\ d.retained = 0
    BY DEF Ready
  <2>2. d \in Calls
    BY <1>1 DEF Ready, Calls, CallSteps
  <2>3. limits.files \in Nat /\ limits.total \in Nat
    BY RepositoryAssumption DEF RepositoryInv, FilesTypeOK, RepositoryAssumption
  <2>4. \A i \in Shown : ~(i < 1)
    BY RepositoryAssumption DEF Shown, RepositoryAssumption
  <2> HIDE DEF d
  <2>5. CallOK(d)
    BY <2>1, <2>2, <2>3, <2>4
       DEF CallOK, LoadOK, FoundOK, LastServed, PlaceOK, AccountOK, LoadSteps
  <2> QED BY <1>3, <2>5, OneCall DEF d
<1>4. ASSUME NEW p \in Paths, Becomes(r, Loading([Ready EXCEPT !.job = "fetch"], p))
      PROVE  \A q \in Readers : CallOK(reader[q])'
  <2> DEFINE d == Loading([Ready EXCEPT !.job = "fetch"], p)
  <2>1. /\ d.at = "stat" /\ d.job = "fetch" /\ d.path = p /\ d.during = {disk[p]}
        /\ d.found = <<>>
    BY DEF Ready, Loading
  <2>2. disk[p] \in Contents \cup {Missing}
    BY <1>4 DEF RepositoryInv, FilesTypeOK
  <2>3. d \in Calls
    BY <1>1, <1>4, <2>2 DEF Ready, Loading, Calls, CallSteps, LoadSteps, Places
  <2> HIDE DEF d
  <2>4. disk[p] \in d.during
    BY <2>1
  <2>5. LoadOK(d)
    <3>1. d.at # "rest" /\ d.at # "after" /\ d.at # "final"
      BY <2>1
    <3> QED BY <1>4, <2>1, <2>4, <3>1 DEF LoadOK
  <2>6. CallOK(d)
    BY <2>1, <2>3, <2>5 DEF CallOK, FoundOK, PlaceOK, AccountOK, LoadSteps
  <2> QED BY <1>4, <2>6, OneCall DEF d
<1> QED BY <1>2, <1>3, <1>4

LEMMA CancelledCalls ==
  ASSUME RepositoryInv, NEW r \in Readers, CancelScan(r)
  PROVE  \A q \in Readers : CallOK(reader[q])'
<1> DEFINE c == reader[r]
           d == [c EXCEPT !.cancelled = TRUE]
<1>1. Becomes(r, d) /\ UNCHANGED files /\ CallOK(c) /\ c \in Calls
  BY DEF CancelScan, RepositoryInv, CallOK
<1>2. /\ d \in Calls /\ d.at = c.at /\ d.text = c.text /\ d.stamp = c.stamp
      /\ SameProgress(c, d)
  BY <1>1 DEF Calls, SameProgress
<1> HIDE DEF d
<1>3. LoadOK(d) /\ FoundOK(d) /\ PlaceOK(d)
  BY <1>1, <1>2 DEF CallOK, LoadOK, FoundOK, LastServed, PlaceOK, SameProgress
<1>4. AccountOK(d)
  BY <1>1, <1>2 DEF CallOK, AccountOK, ExplainedBy, SameProgress
<1> QED BY <1>1, <1>2, <1>3, <1>4, OneCall DEF CallOK

\* A round of the walk keeps what was found and explained.
SameWalk(c, d) ==
    /\ d.job = c.job /\ d.path = c.path /\ d.during = c.during /\ d.found = c.found
    /\ d.retained = c.retained /\ \A q : ExplainedBy(c, q) => ExplainedBy(d, q)

LEMMA EndedWalks ==
  ASSUME RepositoryInv, NEW r \in Readers, reader[r].at = "walk",
         NEW d \in Calls, d.at = "ended", SameWalk(reader[r], d),
         d.place = reader[r].place, d.visited = reader[r].visited,
         \A i \in DOMAIN d.warned :
            d.warned[i].kind = "FileLimitReached" => d.visited = limits.files,
         d.place > Len(Walk) \/ (d.warned # <<>> /\ Last(d.warned).kind \in LastWords),
         Becomes(r, d), UNCHANGED files
  PROVE  \A q \in Readers : CallOK(reader[q])'
<1> DEFINE c == reader[r]
<1>1. CallOK(c) /\ c.job = "scan" /\ d.job = "scan"
  BY DEF RepositoryInv, CallOK, PlaceOK, SameWalk
<1>2. LoadOK(d) /\ FoundOK(d) /\ PlaceOK(d)
  BY <1>1 DEF CallOK, LoadOK, FoundOK, LastServed, PlaceOK, SameWalk, LoadSteps
<1>3. AccountOK(d)
  BY <1>1 DEF CallOK, AccountOK, SameWalk
<1> QED BY <1>2, <1>3, OneCall DEF CallOK

LEMMA PassedWalks ==
  ASSUME RepositoryInv, NEW r \in Readers, reader[r].at = "walk",
         NEW d \in Calls, d.at = "walk", SameWalk(reader[r], d),
         d.place = reader[r].place + 1, d.visited <= limits.files,
         \A i \in DOMAIN d.warned : d.warned[i].kind # "FileLimitReached",
         reader[r].place \in Shown => ExplainedBy(d, Walk[reader[r].place].path),
         Becomes(r, d), UNCHANGED files
  PROVE  \A q \in Readers : CallOK(reader[q])'
<1> DEFINE c == reader[r]
<1>1. CallOK(c) /\ c.job = "scan" /\ d.job = "scan" /\ c.place \in Nat
  BY DEF RepositoryInv, CallOK, Calls, PlaceOK, SameWalk
<1>2. LoadOK(d) /\ FoundOK(d)
  BY <1>1 DEF CallOK, LoadOK, FoundOK, LastServed, PlaceOK, SameWalk, LoadSteps
<1>3. PlaceOK(d)
  <2>1. ASSUME NEW i \in DOMAIN d.found
        PROVE  \E j \in DOMAIN Walk : j < d.place /\ d.found[i].path = Walk[j].path
    <3>1. PICK j \in DOMAIN Walk : j < c.place /\ c.found[i].path = Walk[j].path
      BY <1>1, <2>1 DEF CallOK, PlaceOK, SameWalk
    <3>2. j < c.place + 1
      BY <1>1, <3>1, RepositoryAssumption DEF RepositoryAssumption
    <3> QED BY <2>1, <3>1, <3>2 DEF SameWalk
  <2> QED BY <1>1, <2>1 DEF CallOK, PlaceOK, LoadSteps
<1>4. AccountOK(d)
  <2>1. ASSUME NEW i \in Shown, i < d.place PROVE ExplainedBy(d, Walk[i].path)
    <3>1. i < c.place \/ i = c.place
      BY <1>1, <2>1, RepositoryAssumption DEF Shown, RepositoryAssumption
    <3> QED BY <1>1, <2>1, <3>1 DEF CallOK, AccountOK, SameWalk
  <2> QED BY <1>1, <2>1 DEF CallOK, AccountOK, SameWalk
<1> QED BY <1>2, <1>3, <1>4, OneCall DEF CallOK

LEMMA VisitCalls ==
  ASSUME RepositoryInv, NEW r \in Readers, Visit(r)
  PROVE  \A q \in Readers : CallOK(reader[q])'
<1> DEFINE c == reader[r]
           entry == Walk[c.place]
           n == [c EXCEPT !.visited = @ + 1]
<1>1. /\ c.at = "walk" /\ CallOK(c) /\ c \in Calls /\ c.job = "scan" /\ UNCHANGED files
      /\ c.place \in Nat /\ c.place >= 1 /\ c.visited \in Nat
  BY DEF Visit, RepositoryInv, CallOK, Calls, PlaceOK
<1>2. /\ n \in Calls /\ n.visited = c.visited + 1 /\ n.place = c.place /\ n.job = c.job
      /\ n.path = c.path /\ n.during = c.during /\ n.found = c.found
      /\ n.warned = c.warned /\ n.retained = c.retained
      /\ \A q : ExplainedBy(c, q) => ExplainedBy(n, q)
  <2>1. n \in Calls
    <3>1. n = [c EXCEPT !.visited = c.visited + 1] /\ c.visited + 1 \in Nat
      BY <1>1
    <3> HIDE DEF n
    <3> QED BY <1>1, <3>1 DEF Calls
  <2>2. /\ n.visited = c.visited + 1 /\ n.place = c.place /\ n.job = c.job
        /\ n.path = c.path /\ n.during = c.during /\ n.found = c.found
        /\ n.warned = c.warned /\ n.retained = c.retained
    BY <1>1 DEF Calls
  <2> QED BY <2>1, <2>2 DEF ExplainedBy
<1>3. /\ limits.files \in Nat /\ c.visited <= limits.files
      /\ \A i \in DOMAIN c.warned : c.warned[i].kind # "FileLimitReached"
  BY <1>1, RepositoryAssumption
     DEF RepositoryInv, FilesTypeOK, RepositoryAssumption, CallOK, AccountOK
<1>4. CASE c.place > Len(Walk)
  <2>1. Becomes(r, Ended(c))
    BY <1>4 DEF Visit
  <2>2. SameWalk(c, Ended(c))
    BY <1>1, EndedCalls DEF SameWalk, ExplainedBy
  <2> QED BY <1>1, <1>3, <1>4, <2>1, <2>2, EndedCalls, EndedWalks
<1>5. ASSUME ~(c.place > Len(Walk)) PROVE c.place \in DOMAIN Walk /\ entry.path \in Places
  BY <1>1, <1>5, RepositoryAssumption DEF RepositoryAssumption, Places
<1>6. ASSUME NEW p \in Places, NEW kind \in LastWords,
             kind = "FileLimitReached" => LimitReached(c),
             Becomes(r, Ended(Warned(c, p, kind)))
      PROVE  \A q \in Readers : CallOK(reader[q])'
  <2> DEFINE w == Warned(c, p, kind)
             d == Ended(w)
  <2>1. kind \in WarningKinds
    BY DEF WarningKinds
  <2>2. /\ w = [c EXCEPT !.warned = w.warned] /\ w \in Calls
        /\ \A i \in DOMAIN w.warned : w.warned[i] = [path |-> p, kind |-> kind] \/
              (i \in DOMAIN c.warned /\ w.warned[i] = c.warned[i])
        /\ \A q : ExplainedBy(c, q) => ExplainedBy(w, q)
        /\ w.warned # <<>> /\ Last(w.warned).kind = kind
    BY <1>1, <2>1, WarnedCalls
  <2> HIDE DEF w
  <2>3. /\ w.job = c.job /\ w.place = c.place /\ w.path = c.path /\ w.found = c.found
        /\ w.visited = c.visited /\ w.retained = c.retained /\ w.during = c.during
    BY <1>1, <2>2 DEF Calls
  <2>4. /\ d \in Calls /\ d.at = "ended" /\ d.place = c.place /\ d.visited = c.visited
        /\ d.warned = w.warned /\ SameWalk(c, d)
    BY <2>2, <2>3, EndedCalls DEF SameWalk, ExplainedBy
  <2> HIDE DEF d
  <2>5. \A i \in DOMAIN d.warned :
           d.warned[i].kind = "FileLimitReached" => d.visited = limits.files
    BY <1>3, <1>6, <2>2, <2>4 DEF LimitReached
  <2> QED BY <1>1, <1>6, <2>2, <2>4, <2>5, EndedWalks DEF d, w
<1>7. ASSUME NEW b \in {c, n}, b.visited <= limits.files,
             NEW kind \in {"Unreadable", "Generated"}, c.place \in DOMAIN Walk,
             Becomes(r, Passed(Warned(b, entry.path, kind)))
      PROVE  \A q \in Readers : CallOK(reader[q])'
  <2> DEFINE w == Warned(b, entry.path, kind)
             d == Passed(w)
  <2>1. kind \in WarningKinds /\ entry.path \in Places /\ b \in Calls
    BY <1>1, <1>2, <1>7 DEF WarningKinds, Places
  <2>2. /\ b.job = c.job /\ b.place = c.place /\ b.path = c.path /\ b.found = c.found
        /\ b.retained = c.retained /\ b.during = c.during /\ b.warned = c.warned
        /\ \A q : ExplainedBy(c, q) => ExplainedBy(b, q)
    BY <1>2, <1>7
  <2> HIDE DEF n
  <2>3. /\ w = [b EXCEPT !.warned = w.warned] /\ w \in Calls
        /\ \A i \in DOMAIN w.warned : w.warned[i] = [path |-> entry.path, kind |-> kind] \/
              (i \in DOMAIN b.warned /\ w.warned[i] = b.warned[i])
        /\ \A q : ExplainedBy(b, q) => ExplainedBy(w, q)
        /\ ExplainedBy(w, entry.path)
    BY <2>1, WarnedCalls
  <2> HIDE DEF w
  <2>4. /\ w.job = c.job /\ w.place = c.place /\ w.path = c.path /\ w.found = c.found
        /\ w.visited = b.visited /\ w.retained = c.retained /\ w.during = c.during
    BY <2>1, <2>2, <2>3 DEF Calls
  <2>5. /\ d \in Calls /\ d.at = "walk" /\ d.place = c.place + 1 /\ d.visited = b.visited
        /\ d.warned = w.warned /\ d.job = c.job /\ d.path = c.path /\ d.found = c.found
        /\ d.retained = c.retained /\ d.during = c.during
        /\ \A q : ExplainedBy(w, q) => ExplainedBy(d, q)
    BY <2>3, <2>4, PassedCalls DEF ExplainedBy
  <2> HIDE DEF d
  <2>6. SameWalk(c, d) /\ ExplainedBy(d, entry.path)
    BY <2>2, <2>3, <2>5 DEF SameWalk
  <2>7. \A i \in DOMAIN d.warned : d.warned[i].kind # "FileLimitReached"
    BY <1>3, <2>2, <2>3, <2>5
  <2> QED BY <1>1, <1>7, <2>5, <2>6, <2>7, PassedWalks DEF d, w
<1>8. ASSUME NEW b \in {c, n}, b.visited <= limits.files,
             c.place \in Shown => ExplainedBy(c, entry.path), Becomes(r, Passed(b))
      PROVE  \A q \in Readers : CallOK(reader[q])'
  <2> DEFINE d == Passed(b)
  <2>1. /\ b \in Calls /\ b.job = c.job /\ b.place = c.place /\ b.path = c.path
        /\ b.found = c.found /\ b.retained = c.retained /\ b.during = c.during
        /\ b.warned = c.warned
    BY <1>1, <1>2, <1>8
  <2>2. /\ d \in Calls /\ d.at = "walk" /\ d.place = c.place + 1 /\ d.visited = b.visited
        /\ d.warned = c.warned /\ SameWalk(c, d)
    BY <2>1, PassedCalls DEF SameWalk, ExplainedBy
  <2> HIDE DEF d
  <2> QED BY <1>1, <1>3, <1>8, <2>2, PassedWalks DEF d, SameWalk
<1> HIDE DEF n
<1>9. CASE c.place \in DOMAIN Walk /\ ~(c.place > Len(Walk)) /\ c.cancelled
  <2>1. Becomes(r, Ended(Warned(c, <<>>, "Cancelled")))
    BY <1>9 DEF Visit
  <2> QED BY <1>6, <2>1 DEF Places, LastWords
<1>10. CASE /\ c.place \in DOMAIN Walk /\ ~(c.place > Len(Walk)) /\ ~c.cancelled
            /\ entry.kind = "unreadable"
  <2>1. Becomes(r, Passed(Warned(c, entry.path, "Unreadable")))
    BY <1>10 DEF Visit
  <2> QED BY <1>3, <1>7, <1>10, <2>1
<1>11. CASE /\ c.place \in DOMAIN Walk /\ ~(c.place > Len(Walk)) /\ ~c.cancelled
            /\ entry.kind \notin {"unreadable", "file"}
  <2>1. Becomes(r, Passed(c)) /\ c.place \notin Shown
    BY <1>11 DEF Visit, Shown
  <2> QED BY <1>3, <1>8, <2>1
<1>12. CASE /\ c.place \in DOMAIN Walk /\ ~(c.place > Len(Walk)) /\ ~c.cancelled
            /\ entry.kind = "file" /\ LimitReached(c)
  <2>1. Becomes(r, Ended(Warned(c, <<>>, "FileLimitReached")))
    BY <1>12 DEF Visit
  <2> QED BY <1>6, <1>12, <2>1 DEF Places, LastWords
<1>13. CASE /\ c.place \in DOMAIN Walk /\ ~(c.place > Len(Walk)) /\ ~c.cancelled
            /\ entry.kind = "file" /\ ~LimitReached(c)
  <2>1. n.visited <= limits.files
    BY <1>1, <1>2, <1>3, <1>13 DEF LimitReached
  <2>2. CASE IsLikelyGenerated(entry.path) /\ IsGitMetadata(entry.path)
    <3>1. Becomes(r, Passed(n))
      BY <1>13, <2>2 DEF Visit, n
    <3> QED BY <1>8, <2>1, <2>2, <3>1 DEF ExplainedBy
  <2>3. CASE IsLikelyGenerated(entry.path) /\ ~IsGitMetadata(entry.path)
    <3>1. Becomes(r, Passed(Warned(n, entry.path, "Generated")))
      BY <1>13, <2>3 DEF Visit, n
    <3> QED BY <1>7, <1>13, <2>1, <3>1
  <2>4. CASE ~IsLikelyGenerated(entry.path)
    <3> DEFINE d == Loading(n, entry.path)
               e == [n EXCEPT !.path = entry.path, !.attempt = 0, !.during = {disk[entry.path]}]
    <3>1. Becomes(r, d)
      BY <1>13, <2>4 DEF Visit, n
    <3>2. entry.path \in Paths /\ entry.path \in Places /\ disk[entry.path] \in Contents \cup {Missing}
      BY <1>13, RepositoryAssumption DEF RepositoryAssumption, Places, RepositoryInv, FilesTypeOK
    <3>3. e \in Calls /\ d = [e EXCEPT !.at = "stat"]
      BY <1>2, <3>2 DEF Loading, Calls
    <3>4. /\ d.at = "stat" /\ d.job = c.job /\ d.place = c.place /\ d.path = entry.path
          /\ d.during = {disk[entry.path]} /\ d.found = c.found /\ d.warned = c.warned
          /\ d.visited = n.visited /\ d.retained = c.retained
      BY <1>2 DEF Loading, Calls
    <3> HIDE DEF e
    <3>5. d \in Calls
      BY <3>3 DEF Calls, CallSteps, LoadSteps
    <3> HIDE DEF d
    <3>6. disk[d.path] \in d.during /\ d.path \in Paths
      BY <3>2, <3>4
    <3>7. LoadOK(d) /\ FoundOK(d)
      BY <1>1, <3>4, <3>6 DEF CallOK, LoadOK, FoundOK
    <3>8. PlaceOK(d)
      BY <1>1, <1>13, <3>4 DEF CallOK, PlaceOK
    <3>9. AccountOK(d)
      BY <1>1, <1>3, <2>1, <3>4 DEF CallOK, AccountOK, ExplainedBy
    <3> QED BY <1>1, <3>1, <3>5, <3>7, <3>8, <3>9, OneCall DEF CallOK
  <2> QED BY <2>2, <2>3, <2>4
<1> QED BY <1>4, <1>5, <1>9, <1>10, <1>11, <1>12, <1>13

-----------------------------------------------------------------------------
(* The rest of the world.                                                  *)

\* An edit makes a version that has a stamp of its own, or says that it has not.
LEMMA EditedFiles ==
  ASSUME RepositoryInv, NEW p \in Editable, NEW content \in Written \cup {Missing},
         Edit(p, content)
  PROVE  FilesTypeOK' /\ StampsInv'
<1> DEFINE new == <<Len(content), now>>
<1>1. /\ p \in Paths /\ content \in Contents \cup {Missing} /\ edits + 1 \in Nat
      /\ content # Missing => Len(content) \in Nat
  <2>1. p \in Paths /\ content \in Contents \cup {Missing}
    BY RepositoryAssumption DEF RepositoryAssumption
  <2>2. content # Missing => Len(content) \in Nat
    BY <2>1, ContentsAreTexts DEF Texts
  <2> QED BY <2>1, <2>2 DEF RepositoryInv, FilesTypeOK
<1>2. /\ disk' = [disk EXCEPT ![p] = content] /\ modified' = [modified EXCEPT ![p] = now]
      /\ edits' = edits + 1 /\ limits' = limits /\ now' = now /\ cache' = cache
      /\ DOMAIN reader' = Readers
  BY DEF Edit
<1>3. content = Missing => stamps' = stamps /\ reused' = reused
  BY DEF Edit
<1>4. content # Missing =>
         /\ stamps' = [stamps EXCEPT ![p] = @ \cup {new}]
         /\ reused' = [reused EXCEPT ![p] = @ \/ new \in stamps[p]]
  BY DEF Edit
<1>5. stamps' \in [Paths -> SUBSET (Nat \X Nat)] /\ reused' \in [Paths -> BOOLEAN]
  <2>1. CASE content = Missing
    BY <1>3, <2>1 DEF RepositoryInv, FilesTypeOK
  <2>2. CASE content # Missing
    <3>1. new \in Nat \X Nat
      BY <1>1, <2>2 DEF RepositoryInv, FilesTypeOK
    <3> HIDE DEF new
    <3>2. stamps' \in [Paths -> SUBSET (Nat \X Nat)]
      <4> DEFINE b == stamps[p] \cup {new}
      <4>1. stamps \in [Paths -> SUBSET (Nat \X Nat)] /\ p \in Paths
        BY <1>1 DEF RepositoryInv, FilesTypeOK
      <4>2. stamps[p] \in SUBSET (Nat \X Nat)
        BY <4>1
      <4>3. b \in SUBSET (Nat \X Nat) /\ stamps' = [stamps EXCEPT ![p] = b]
        BY <1>4, <2>2, <3>1, <4>2
      <4> HIDE DEF b
      <4> QED BY <4>1, <4>3
    <3>3. reused[p] \in BOOLEAN /\ reused \in [Paths -> BOOLEAN]
      BY <1>1 DEF RepositoryInv, FilesTypeOK
    <3>4. reused' \in [Paths -> BOOLEAN]
      <4> DEFINE b == reused[p] \/ new \in stamps[p]
      <4>1. b \in BOOLEAN /\ reused' = [reused EXCEPT ![p] = b]
        BY <1>4, <2>2, <3>3
      <4> HIDE DEF b
      <4> QED BY <3>3, <4>1
    <3> QED BY <3>2, <3>4
  <2> QED BY <2>1, <2>2
<1>6. disk' \in [Paths -> Contents \cup {Missing}] /\ modified' \in [Paths -> Nat]
  BY <1>1, <1>2 DEF RepositoryInv, FilesTypeOK
<1>7. FilesTypeOK'
  BY <1>1, <1>2, <1>5, <1>6 DEF RepositoryInv, FilesTypeOK
<1>8. StampsInv'
  BY <1>1, <1>2, <1>3, <1>4 DEF RepositoryInv, FilesTypeOK, StampsInv, Stamp
<1> QED BY <1>7, <1>8

\* What an edit leaves of what is known of a stamp.
LEMMA EditedStamps ==
  ASSUME RepositoryInv, NEW p \in Editable, NEW content \in Written \cup {Missing},
         Edit(p, content), NEW q \in Paths
  PROVE  /\ stamps[q] \subseteq stamps'[q]
         /\ reused[q] => reused'[q]
         /\ \A stamp \in stamps[q] :
               Current(q, stamp)' => q # p /\ Current(q, stamp) /\ disk'[q] = disk[q]
         /\ q # p => disk'[q] = disk[q]
         /\ disk'[p] = content
<1>1. p \in Paths
  BY RepositoryAssumption DEF RepositoryAssumption
<1>2. /\ disk' = [disk EXCEPT ![p] = content] /\ modified' = [modified EXCEPT ![p] = now]
  BY DEF Edit
<1>3. content = Missing => stamps' = stamps /\ reused' = reused
  BY DEF Edit
<1>4. content # Missing =>
         /\ stamps' = [stamps EXCEPT ![p] = @ \cup {<<Len(content), now>>}]
         /\ reused' = [reused EXCEPT ![p] = @ \/ <<Len(content), now>> \in stamps[p]]
  BY DEF Edit
<1>5. stamps[q] \subseteq stamps'[q] /\ (reused[q] => reused'[q])
  BY <1>1, <1>3, <1>4 DEF RepositoryInv, FilesTypeOK
<1>6. q # p => disk'[q] = disk[q] /\ modified'[q] = modified[q] /\ reused'[q] = reused[q]
  BY <1>1, <1>2, <1>3, <1>4 DEF RepositoryInv, FilesTypeOK
<1>7. disk'[p] = content /\ modified'[p] = now
  BY <1>1, <1>2 DEF RepositoryInv, FilesTypeOK
<1>8. ASSUME NEW stamp \in stamps[q], Current(q, stamp)' PROVE q # p
  <2> SUFFICES ASSUME q = p PROVE FALSE
    OBVIOUS
  <2>1. content # Missing /\ ~reused'[p] /\ <<Len(content), now>> = stamp
    BY <1>7, <1>8 DEF Current, Stamp
  <2>2. reused'[p]
    BY <1>1, <1>4, <1>8, <2>1 DEF RepositoryInv, FilesTypeOK
  <2> QED BY <2>1, <2>2
<1>9. ASSUME NEW stamp \in stamps[q], Current(q, stamp)'
      PROVE  q # p /\ Current(q, stamp) /\ disk'[q] = disk[q]
  <2>1. q # p
    BY <1>8, <1>9
  <2> QED BY <1>6, <1>9, <2>1 DEF Current, Stamp
<1> QED BY <1>5, <1>6, <1>7, <1>9

LEMMA EditedCache ==
  ASSUME RepositoryInv, NEW p \in Editable, NEW content \in Written \cup {Missing},
         Edit(p, content)
  PROVE  CacheInv'
<1>1. cache' = cache
  BY DEF Edit
<1>2. ASSUME NEW q \in Paths, NEW entry, entry = cache[q], entry # Missing
      PROVE  EntryOK(q, entry)'
  <2>1. EntryOK(q, entry)
    BY <1>2 DEF RepositoryInv, CacheInv
  <2> QED BY <2>1, EditedStamps DEF EntryOK
<1> QED BY <1>1, <1>2 DEF CacheInv

SameAccount(c, d) ==
    /\ d.job = c.job /\ d.found = c.found /\ d.warned = c.warned
    /\ d.visited = c.visited /\ d.retained = c.retained

\* A call that loads the file, or has loaded it last, sees one version more.
LEMMA EditedCalls ==
  ASSUME RepositoryInv, NEW p \in Editable, NEW content \in Written \cup {Missing},
         Edit(p, content), NEW r \in Readers
  PROVE  CallOK(reader[r])'
<1> DEFINE c == reader[r]
<1>1. CallOK(c) /\ c \in Calls /\ p \in Paths /\ content \in Contents \cup {Missing}
  BY RepositoryAssumption DEF RepositoryAssumption, RepositoryInv, CallOK
<1> DEFINE e == [c EXCEPT !.during = @ \cup {content}]
<1>2. c.path = p => reader'[r] = e
  BY DEF Edit
<1>3. c.path # p => reader'[r] = c
  BY DEF Edit
<1>4. /\ e \in Calls /\ e.at = c.at /\ e.place = c.place /\ e.stamp = c.stamp
      /\ e.text = c.text /\ e.during = c.during \cup {content} /\ SameAccount(c, e)
      /\ e.path = c.path
  BY <1>1 DEF Calls, SameAccount
<1> HIDE DEF e
<1>5. ASSUME NEW d \in {c, e}, d = reader'[r] PROVE CallOK(d)'
  <2>1. /\ d \in Calls /\ d.at = c.at /\ d.place = c.place /\ d.stamp = c.stamp
        /\ d.text = c.text /\ c.during \subseteq d.during /\ d.path = c.path
        /\ SameAccount(c, d) /\ (c.path = p => content \in d.during)
    BY <1>1, <1>2, <1>3, <1>4, <1>5 DEF SameAccount
  <2>2. LoadOK(d)'
    <3> SUFFICES ASSUME c.at \in LoadSteps, c.path \in Paths PROVE LoadOK(d)'
      BY <1>1, <2>1 DEF CallOK, LoadOK
    <3>1. disk'[c.path] \in d.during
      BY <1>1, <2>1, EditedStamps DEF CallOK, LoadOK
    <3>2. d.at # "stat" => d.stamp \in stamps[d.path]
      BY <1>1, <2>1 DEF CallOK, LoadOK
    <3>3. /\ stamps[d.path] \subseteq stamps'[d.path]
          /\ \A stamp \in stamps[d.path] : Current(d.path, stamp)' =>
                Current(d.path, stamp) /\ disk'[d.path] = disk[d.path]
      <4>1. d.path \in Paths
        BY <2>1
      <4> QED BY <4>1, EditedStamps
    <3>4. d.at = "final" => Clean(d.text)
      BY <1>1, <2>1 DEF CallOK, LoadOK
    <3>5. ASSUME Current(d.path, d.stamp)'
          PROVE  /\ d.at = "rest" => disk'[d.path] # <<>> /\ d.text = SubSeq(disk'[d.path], 1, 1)
                 /\ d.at = "after" => d.text = disk'[d.path]
                 /\ d.at = "final" => d.text = Redact(disk'[d.path])
      <4>1. CASE d.at \in {"stat", "read"}
        BY <4>1
      <4>2. CASE d.at \notin {"stat", "read"}
        <5>1. Current(d.path, d.stamp) /\ disk'[d.path] = disk[d.path]
          BY <3>2, <3>3, <3>5, <4>2
        <5> QED BY <1>1, <2>1, <5>1 DEF CallOK, LoadOK
      <4> QED BY <4>1, <4>2
    <3> QED BY <2>1, <3>1, <3>2, <3>3, <3>4, <3>5 DEF LoadOK
  <2>3. FoundOK(d)'
    <3>1. c.found # <<>> => Last(c.found).path \in Paths
      <4>1. c.found \in Seq([path : Paths, text : Texts])
        BY <1>1 DEF Calls
      <4>2. c.found # <<>> => Last(c.found) \in [path : Paths, text : Texts]
        BY <4>1, LastElement
      <4> QED BY <4>2
    <3>2. LastServed(c) => LastServed(d)'
      BY <2>1, <3>1, EditedStamps DEF LastServed, SameAccount
    <3> QED BY <1>1, <2>1, <3>2 DEF CallOK, FoundOK, SameAccount
  <2>4. PlaceOK(d)'
    BY <1>1, <2>1 DEF CallOK, PlaceOK, SameAccount
  <2>5. AccountOK(d)'
    BY <1>1, <2>1 DEF CallOK, AccountOK, ExplainedBy, SameAccount, Edit
  <2> QED BY <2>1, <2>2, <2>3, <2>4, <2>5 DEF CallOK
<1> QED BY <1>2, <1>3, <1>5

-----------------------------------------------------------------------------
(* The theorems.                                                           *)

LEMMA RepositoryStart == RepositoryInit => RepositoryInv
<1> SUFFICES ASSUME RepositoryInit PROVE RepositoryInv
  OBVIOUS
<1> USE RepositoryAssumption DEF RepositoryInit, RepositoryAssumption
<1>1. \A p \in Paths : disk[p] # Missing => Stamp(p) \in Nat \X Nat
  <2> SUFFICES ASSUME NEW p \in Paths, disk[p] # Missing PROVE Stamp(p) \in Nat \X Nat
    OBVIOUS
  <2>1. disk[p] \in Texts
    BY ContentsAreTexts
  <2> QED BY <2>1 DEF Stamp, Texts
<1>2. stamps \in [Paths -> SUBSET (Nat \X Nat)]
  BY <1>1
<1>3. FilesTypeOK
  BY <1>2 DEF FilesTypeOK
<1>4. StampsInv /\ CacheInv
  BY DEF StampsInv, CacheInv
<1>5. Ready \in Calls
  BY DEF Ready, Calls, CallSteps, Places, Texts
<1>6. CallOK(Ready)
  BY <1>5 DEF Ready, CallOK, LoadOK, FoundOK, LastServed, PlaceOK, AccountOK, LoadSteps
<1> QED BY <1>3, <1>4, <1>6 DEF RepositoryInv

LEMMA QuietFiles ==
  ASSUME RepositoryInv, UNCHANGED <<files, cache>>, DOMAIN reader' = Readers
  PROVE  FilesTypeOK' /\ StampsInv' /\ CacheInv'
<1>1. FilesTypeOK' /\ StampsInv'
  BY DEF RepositoryInv, FilesTypeOK, StampsInv, Stamp, files
<1>2. \A q \in Paths : \A entry : EntryOK(q, entry) => EntryOK(q, entry)'
  BY DEF EntryOK, Current, Stamp, files
<1> QED BY <1>1, <1>2 DEF RepositoryInv, CacheInv

LEMMA CallKeepsInv ==
  ASSUME RepositoryInv, NEW r \in Readers,
         \/ Scan(r)
         \/ Fetch(r)
  PROVE  RepositoryInv'
<1>1. ASSUME Store(r) PROVE RepositoryInv'
  <2>1. UNCHANGED files /\ DOMAIN reader' = Readers
    BY <1>1 DEF Store, Skip, Again, AddCandidate, Becomes, RepositoryInv, FilesTypeOK
  <2>2. DOMAIN cache' = Paths /\ CacheInv' /\ \A q \in Readers : CallOK(reader[q])'
    BY <1>1, StoreCalls
  <2>3. FilesTypeOK' /\ StampsInv'
    BY <2>1, <2>2 DEF RepositoryInv, FilesTypeOK, StampsInv, Stamp, files
  <2> QED BY <2>2, <2>3 DEF RepositoryInv
<1>2. ASSUME ~Store(r) PROVE RepositoryInv'
  <2>1. /\ UNCHANGED <<files, cache>> /\ DOMAIN reader' = Readers
    BY <1>2 DEF Scan, Fetch, Load, BeginScan, BeginFetch, Visit, Stat, ReadPart, ReadRest,
       Recheck, CancelScan, Return, Skip, Again, AddCandidate, Becomes, RepositoryInv, FilesTypeOK
  <2>2. \A q \in Readers : CallOK(reader[q])'
    <3>1. CASE BeginScan(r)
      BY <2>1, <3>1, NewCalls DEF BeginScan
    <3>2. CASE \E p \in Fetched : BeginFetch(r, p)
      <4>1. Fetched \subseteq Paths
        BY RepositoryAssumption DEF RepositoryAssumption
      <4>2. \E p \in Paths : Becomes(r, Loading([Ready EXCEPT !.job = "fetch"], p))
        BY <3>2, <4>1 DEF BeginFetch
      <4> QED BY <2>1, <4>2, NewCalls
    <3>3. CASE Return(r)
      BY <2>1, <3>3, NewCalls DEF Return
    <3> QED BY <1>2, <3>1, <3>2, <3>3, VisitCalls, StatCalls, ReadPartCalls, ReadRestCalls,
               RecheckCalls, CancelledCalls DEF Scan, Fetch, Load
  <2> QED BY <2>1, <2>2, QuietFiles DEF RepositoryInv
<1> QED BY <1>1, <1>2

LEMMA WorldKeepsInv == RepositoryInv /\ World => RepositoryInv'
<1> SUFFICES ASSUME RepositoryInv, World PROVE RepositoryInv'
  OBVIOUS
<1>1. CASE Tick
  <2>1. now' \in Nat
    BY <1>1 DEF Tick, RepositoryInv, FilesTypeOK
  <2>2. FilesTypeOK' /\ StampsInv'
    BY <1>1, <2>1 DEF Tick, RepositoryInv, FilesTypeOK, StampsInv, Stamp
  <2>3. \A q \in Paths : \A entry : EntryOK(q, entry) => EntryOK(q, entry)'
    BY <1>1 DEF Tick, EntryOK, Current, Stamp
  <2>4. CacheInv'
    BY <1>1, <2>3 DEF Tick, RepositoryInv, CacheInv
  <2>5. \A d : CallOK(d) => CallOK(d)'
    BY <1>1 DEF Tick, CallOK, LoadOK, FoundOK, LastServed, PlaceOK, AccountOK, ExplainedBy,
                Current, Stamp
  <2> QED BY <1>1, <2>2, <2>4, <2>5 DEF Tick, RepositoryInv
<1>2. ASSUME NEW p \in Editable, NEW content \in Written \cup {Missing}, Edit(p, content)
      PROVE  RepositoryInv'
  BY <1>2, EditedFiles, EditedCache, EditedCalls DEF RepositoryInv
<1> QED BY <1>1, <1>2 DEF World

LEMMA RepositoryInvariant == RepositorySpec => []RepositoryInv
<1>1. RepositoryInv /\ [RepositoryNext]_repositoryVars => RepositoryInv'
  <2> SUFFICES ASSUME RepositoryInv, [RepositoryNext]_repositoryVars PROVE RepositoryInv'
    OBVIOUS
  <2>1. CASE RepositoryNext
    BY <2>1, CallKeepsInv, WorldKeepsInv DEF RepositoryNext, Readers
  <2>2. CASE UNCHANGED repositoryVars
    <3>1. UNCHANGED <<files, cache>> /\ reader' = reader /\ DOMAIN reader' = Readers
      BY <2>2 DEF repositoryVars, RepositoryInv, FilesTypeOK
    <3>2. \A d : CallOK(d) => CallOK(d)'
      BY <3>1 DEF CallOK, LoadOK, FoundOK, LastServed, PlaceOK, AccountOK, ExplainedBy,
                  Current, Stamp, files
    <3> QED BY <3>1, <3>2, QuietFiles DEF RepositoryInv
  <2> QED BY <2>1, <2>2
<1> QED BY RepositoryStart, <1>1, PTL DEF RepositorySpec

\* What a scan or a fetch returns of a file, read or from the cache, is the
\* redaction of one version that the file had meanwhile, unless two versions
\* shared length and modification time, and holds no secret (load_text).
THEOREM TextIsOneVersion == RepositorySpec => []ServedTextIsAVersion
<1>1. RepositoryInv => ServedTextIsAVersion
  <2> SUFFICES ASSUME RepositoryInv, NEW r \in Readers, reader[r].found # <<>>,
                      reader[r].at \in {"walk", "ended"}
               PROVE  LET served == Last(reader[r].found)
                      IN  /\ \A i \in DOMAIN served.text : served.text[i] # "secret"
                          /\ \/ reused[served.path]
                             \/ served.path # reader[r].path
                             \/ served.text \in {Redact(c) : c \in reader[r].during \ {Missing}}
    BY DEF ServedTextIsAVersion
  <2>1. CallOK(reader[r])
    BY DEF RepositoryInv
  <2>2. Len(reader[r].found) \in DOMAIN reader[r].found
    BY <2>1 DEF CallOK, Calls
  <2>3. Clean(Last(reader[r].found).text)
    BY <2>1, <2>2 DEF CallOK, FoundOK, Last
  <2> QED BY <2>1, <2>3 DEF CallOK, FoundOK, LastServed, Clean
<1> QED BY RepositoryInvariant, <1>1, PTL

\* A scan that ends has explained every entry it came to, says last of all why
\* it did not come to the others, and has kept its limits, whatever happens to
\* the files meanwhile (scan).
THEOREM ScansExplain == RepositorySpec => []EveryEntryExplained
<1>1. RepositoryInv => EveryEntryExplained
  <2> SUFFICES ASSUME RepositoryInv PROVE EveryEntryExplained
    OBVIOUS
  <2>1. ASSUME NEW c, CallOK(c), c.job = "scan", c.at = "ended"
        PROVE  \/ \A i \in Shown : ExplainedBy(c, Walk[i].path)
               \/ c.warned # <<>> /\ Last(c.warned).kind \in LastWords
    <3>1. CASE c.place > Len(Walk)
      <4>1. \A i \in Shown : i < c.place
        BY <2>1, <3>1, RepositoryAssumption DEF Shown, RepositoryAssumption, CallOK, Calls
      <4> QED BY <2>1, <4>1 DEF CallOK, AccountOK
    <3> QED BY <2>1, <3>1 DEF CallOK, AccountOK
  <2> QED BY <2>1 DEF RepositoryInv, CallOK, AccountOK, EveryEntryExplained, ExplainedBy,
                       Shown, LastWords
<1> QED BY RepositoryInvariant, <1>1, PTL

-----------------------------------------------------------------------------
(* What a scan counts.                                                     *)

BytePlaces(list) == UNION {{i} \X DOMAIN list[i].text : i \in DOMAIN list}

LEMMA BytesOfMore ==
  ASSUME NEW p \in Paths, NEW text \in Texts, NEW list \in Seq([path : Paths, text : Texts]),
         IsFiniteSet(BytePlaces(list))
  PROVE  LET more == Append(list, [path |-> p, text |-> text])
         IN  /\ IsFiniteSet(BytePlaces(more))
             /\ BytesFound(more) = BytesFound(list) + Len(text)
<1> DEFINE w == [path |-> p, text |-> text]
           more == Append(list, w)
           x == Len(list) + 1
           size == [i \in 1 .. x |-> Len(more[i].text)]
<1>1. /\ Len(list) \in Nat /\ DOMAIN list = 1 .. Len(list) /\ DOMAIN more = 1 .. x
      /\ 1 .. x = (1 .. Len(list)) \cup {x} /\ x \notin 1 .. Len(list)
      /\ \A i \in 1 .. Len(list) : more[i] = list[i] /\ list[i].text \in Texts
      /\ more[x] = w /\ w.text = text
  <2>1. w \in [path : Paths, text : Texts]
    OBVIOUS
  <2> HIDE DEF w
  <2>2. Len(list) \in Nat /\ DOMAIN list = 1 .. Len(list)
    OBVIOUS
  <2>3. 1 .. x = (1 .. Len(list)) \cup {x} /\ x \notin 1 .. Len(list)
    BY <2>2
  <2>4. /\ DOMAIN more = DOMAIN list \cup {x} /\ more[x] = w
        /\ \A i \in DOMAIN list : more[i] = list[i]
    BY <2>1, AppendedElement
  <2>5. ASSUME NEW i \in DOMAIN list PROVE list[i].text \in Texts
    <3> DEFINE S == [path : Paths, text : Texts]
    <3>0. list \in Seq(S)
      OBVIOUS
    <3> HIDE DEF S
    <3>1. list[i] \in S
      BY <3>0, ElementOf
    <3> USE DEF S
    <3> QED BY <3>1
  <2> QED BY <2>2, <2>3, <2>4, <2>5 DEF w
<1> HIDE DEF more, w
<1>2. \A t \in Texts : DOMAIN t = 1 .. Len(t) /\ Len(t) \in Nat
  BY DEF Texts
<1>3. /\ \A i \in 1 .. Len(list) : 1 .. size[i] = DOMAIN list[i].text
      /\ \A i \in 1 .. x : 1 .. size[i] = DOMAIN more[i].text
      /\ size[x] = Len(text) /\ size[x] \in Nat
  BY <1>1, <1>2
<1> HIDE DEF size
<1>4. BytePlaces(list) = Units(size, 1 .. Len(list))
  <2>1. {{i} \X DOMAIN list[i].text : i \in 1 .. Len(list)}
          = {{i} \X (1 .. size[i]) : i \in 1 .. Len(list)}
    BY <1>3
  <2> QED BY <1>1, <2>1 DEF BytePlaces, Units
<1>5. BytePlaces(more) = Units(size, (1 .. Len(list)) \cup {x})
  <2>1. {{i} \X DOMAIN more[i].text : i \in 1 .. x} = {{i} \X (1 .. size[i]) : i \in 1 .. x}
    BY <1>3
  <2> QED BY <1>1, <2>1 DEF BytePlaces, Units
<1>6. /\ IsFiniteSet(Units(size, (1 .. Len(list)) \cup {x}))
      /\ Sum(size, (1 .. Len(list)) \cup {x}) = Sum(size, 1 .. Len(list)) + size[x]
  <2> DEFINE S == 1 .. Len(list)
  <2>1. IsFiniteSet(Units(size, S)) /\ x \notin S /\ size[x] \in Nat
    BY <1>1, <1>3, <1>4
  <2> HIDE DEF S, x
  <2>2. /\ IsFiniteSet(Units(size, S \cup {x}))
        /\ Sum(size, S \cup {x}) = Sum(size, S) + size[x]
    BY <2>1, SumOfMore
  <2> QED BY <2>2 DEF S
<1> QED BY <1>3, <1>4, <1>5, <1>6 DEF BytesFound, BytePlaces, Sum, more, w

\* What a scan has counted is what it has found.
Counted(c) ==
    c.job = "scan" =>
        IsFiniteSet(BytePlaces(c.found)) /\ c.retained = BytesFound(c.found)

Added(c, d) ==
    \/ d.job = c.job /\ d.found = c.found /\ d.retained = c.retained
    \/ d.found = <<>> /\ d.retained = 0
    \/ \E p \in Paths, text \in Texts :
          /\ d.found = Append(c.found, [path |-> p, text |-> text])
          /\ d.job = c.job /\ d.retained = c.retained + Len(text)

LEMMA AddedCounted ==
  ASSUME NEW c \in Calls, NEW d, Counted(c), Added(c, d)
  PROVE  Counted(d)
<1>1. CASE d.job = c.job /\ d.found = c.found /\ d.retained = c.retained
  BY <1>1 DEF Counted
<1>2. CASE d.found = <<>> /\ d.retained = 0
  <2>1. BytePlaces(<<>>) = {} /\ BytesFound(<<>>) = Cardinality({})
    BY DEF BytePlaces, BytesFound
  <2>2. IsFiniteSet(BytePlaces(<<>>)) /\ BytesFound(<<>>) = 0
    BY <2>1, FS_EmptySet
  <2> QED BY <1>2, <2>2 DEF Counted
<1>3. ASSUME NEW p \in Paths, NEW text \in Texts, d.job = c.job,
             d.found = Append(c.found, [path |-> p, text |-> text]),
             d.retained = c.retained + Len(text)
      PROVE  Counted(d)
  <2>1. c.found \in Seq([path : Paths, text : Texts])
    BY DEF Calls
  <2>2. CASE c.job = "scan"
    <3>1. IsFiniteSet(BytePlaces(c.found)) /\ c.retained = BytesFound(c.found)
      BY <2>2 DEF Counted
    <3>2. /\ IsFiniteSet(BytePlaces(d.found))
          /\ BytesFound(d.found) = BytesFound(c.found) + Len(text)
      <4> DEFINE list == c.found
      <4>1. list \in Seq([path : Paths, text : Texts]) /\ IsFiniteSet(BytePlaces(list))
        BY <2>1, <3>1
      <4> HIDE DEF list
      <4>2. LET more == Append(list, [path |-> p, text |-> text])
            IN  /\ IsFiniteSet(BytePlaces(more))
                /\ BytesFound(more) = BytesFound(list) + Len(text)
        BY <4>1, BytesOfMore
      <4> QED BY <1>3, <4>2 DEF list
    <3>3. d.retained = BytesFound(d.found) /\ IsFiniteSet(BytePlaces(d.found))
      BY <1>3, <3>1, <3>2
    <3> QED BY <3>3 DEF Counted
  <2> QED BY <1>3, <2>2 DEF Counted
<1> QED BY <1>1, <1>2, <1>3 DEF Added

Kept(c, d) == d.job = c.job /\ d.found = c.found /\ d.retained = c.retained

LEMMA OneAdds ==
  ASSUME RepositoryInv, NEW r \in Readers, NEW d, Becomes(r, d), Added(reader[r], d)
  PROVE  \A q \in Readers : Added(reader[q], reader'[q])
BY DEF RepositoryInv, FilesTypeOK, Becomes, Added

LEMMA WarnedKeep ==
  ASSUME NEW c \in Calls, NEW p \in Places, NEW kind \in WarningKinds
  PROVE  /\ Kept(c, Warned(c, p, kind)) /\ Kept(c, Passed(Warned(c, p, kind)))
         /\ Kept(c, Ended(Warned(c, p, kind)))
<1> DEFINE w == Warned(c, p, kind)
<1>1. /\ w = [c EXCEPT !.warned = w.warned] /\ w \in Calls
      /\ \A i \in DOMAIN w.warned : w.warned[i] = [path |-> p, kind |-> kind] \/
            (i \in DOMAIN c.warned /\ w.warned[i] = c.warned[i])
      /\ \A q : ExplainedBy(c, q) => ExplainedBy(w, q)
  BY WarnedCalls
<1> HIDE DEF w
<1>2. Kept(c, w)
  BY <1>1 DEF Calls, Kept
<1>3. Kept(c, Passed(w)) /\ Kept(c, Ended(w))
  BY <1>1, <1>2, PassedCalls, EndedCalls DEF Kept
<1> QED BY <1>2, <1>3 DEF w

LEMMA SkipAdds ==
  ASSUME RepositoryInv, NEW r \in Readers, NEW kind \in {"Unreadable", "TooLarge", "Binary"},
         Skip(r, kind)
  PROVE  \A q \in Readers : Added(reader[q], reader'[q])
<1> DEFINE c == reader[r]
           w == Warned(c, c.path, kind)
<1>1. c \in Calls /\ c.path \in Places /\ kind \in WarningKinds
  BY DEF RepositoryInv, CallOK, Calls, WarningKinds
<1>2. Kept(c, Passed(w)) /\ Kept(c, Ended(w))
  BY <1>1, WarnedKeep
<1>3. Becomes(r, Passed(w)) \/ Becomes(r, Ended(w))
  BY DEF Skip
<1> HIDE DEF w
<1>4. Added(c, Passed(w)) /\ Added(c, Ended(w))
  BY <1>2 DEF Kept, Added
<1> QED BY <1>3, <1>4, OneAdds

LEMMA CandidateAdds ==
  ASSUME RepositoryInv, NEW r \in Readers, reader[r].at \in LoadSteps,
         NEW text \in Texts, AddCandidate(r, text)
  PROVE  \A q \in Readers : Added(reader[q], reader'[q])
<1> DEFINE c == reader[r]
           b == [c EXCEPT !.text = text]
           k == [b EXCEPT !.retained = @ + Len(text),
                          !.found = Append(@, [path |-> b.path, text |-> text])]
<1>1. c \in Calls /\ c.path \in Paths /\ Len(text) \in Nat /\ c.retained \in Nat
  <2>1. CallOK(c) /\ c \in Calls
    BY DEF RepositoryInv, CallOK
  <2>2. c.path \in Paths
    BY <2>1 DEF CallOK, LoadOK
  <2>3. Len(text) \in Nat
    BY DEF Texts
  <2>4. c.retained \in Nat
    BY <2>1 DEF Calls
  <2> QED BY <2>1, <2>2, <2>3, <2>4
<1>2. b \in Calls /\ Kept(c, b) /\ b.path = c.path /\ b.path \in Places
  BY <1>1 DEF Calls, Kept, Places
<1>3. /\ k.job = c.job /\ k.retained = c.retained + Len(text)
      /\ k.found = Append(c.found, [path |-> c.path, text |-> text])
  BY <1>1 DEF Calls
<1>4. k \in Calls
  <2>1. k = WithCandidate(c, text, c.retained + Len(text)) /\ c.retained + Len(text) \in Nat
    BY <1>1 DEF Calls, WithCandidate
  <2> HIDE DEF k, c
  <2>2. /\ k \in Calls /\ k.at = c.at /\ k.job = c.job /\ k.place = c.place
        /\ k.path = c.path /\ k.warned = c.warned /\ k.visited = c.visited
        /\ k.retained = c.retained + Len(text) /\ k.during = c.during
        /\ \A i \in DOMAIN k.found : k.found[i] = [path |-> c.path, text |-> text] \/
              (i \in DOMAIN c.found /\ k.found[i] = c.found[i])
        /\ \A q : ExplainedBy(c, q) => ExplainedBy(k, q)
        /\ ExplainedBy(k, c.path)
        /\ k.found # <<>> /\ Last(k.found) = [path |-> c.path, text |-> text]
    BY <1>1, <2>1, KeptCalls
  <2> QED BY <2>2
<1>5. \/ Becomes(r, Ended(k)) \/ Becomes(r, Passed(k))
      \/ Becomes(r, Ended(Warned(b, b.path, "TotalBytesLimitReached")))
  BY <1>1, <1>2 DEF AddCandidate, Kept
<1> HIDE DEF k, b
<1>6. /\ Kept(k, Ended(k)) /\ Kept(k, Passed(k))
      /\ Kept(b, Ended(Warned(b, b.path, "TotalBytesLimitReached")))
  <2>1. "TotalBytesLimitReached" \in WarningKinds
    BY DEF WarningKinds, LastWords
  <2> QED BY <1>2, <1>4, <2>1, WarnedKeep, PassedCalls, EndedCalls DEF Kept
<1>7. Added(c, Ended(k)) /\ Added(c, Passed(k))
  BY <1>1, <1>3, <1>6 DEF Added, Kept
<1>8. Added(c, Ended(Warned(b, b.path, "TotalBytesLimitReached")))
  BY <1>2, <1>6 DEF Added, Kept
<1> QED BY <1>5, <1>7, <1>8, OneAdds

LEMMA AgainAdds ==
  ASSUME RepositoryInv, NEW r \in Readers, Again(r)
  PROVE  \A q \in Readers : Added(reader[q], reader'[q])
<1>1. reader[r] \in Calls
  BY DEF RepositoryInv, CallOK
<1>2. CASE reader[r].attempt = 0
  <2> DEFINE d == [reader[r] EXCEPT !.at = "stat", !.attempt = 1, !.text = <<>>]
  <2>1. Becomes(r, d)
    BY <1>2 DEF Again
  <2>2. Added(reader[r], d)
    BY <1>1 DEF Calls, Added
  <2> QED BY <2>1, <2>2, OneAdds
<1>3. CASE reader[r].attempt # 0
  BY <1>3, SkipAdds DEF Again
<1> QED BY <1>2, <1>3

LEMMA LoadAdds ==
  ASSUME RepositoryInv, NEW r \in Readers, Load(r)
  PROVE  \A q \in Readers : Added(reader[q], reader'[q])
<1> DEFINE c == reader[r]
           p == c.path
<1>1. c \in Calls /\ CallOK(c)
  BY DEF RepositoryInv, CallOK
<1>2. ASSUME NEW kind \in {"Unreadable", "TooLarge", "Binary"}, Skip(r, kind)
      PROVE  \A q \in Readers : Added(reader[q], reader'[q])
  BY <1>2, SkipAdds
<1>3. ASSUME NEW d, Becomes(r, d), Kept(c, d)
      PROVE  \A q \in Readers : Added(reader[q], reader'[q])
  BY <1>3, OneAdds DEF Kept, Added
<1>4. CASE Stat(r)
  <2>1. c.at = "stat" /\ c.at \in LoadSteps /\ p \in Paths
    BY <1>1, <1>4 DEF Stat, LoadSteps, CallOK, LoadOK
  <2>2. CASE disk[p] = Missing \/ (disk[p] # Missing /\ Len(disk[p]) > limits.file)
    BY <1>2, <1>4, <2>2 DEF Stat
  <2>3. CASE /\ disk[p] # Missing /\ ~(Len(disk[p]) > limits.file)
             /\ cache[p] # Missing /\ cache[p].stamp = Stamp(p)
    <3>1. cache[p].text \in Texts
      BY <2>1, <2>3 DEF RepositoryInv, CacheInv, EntryOK
    <3>2. AddCandidate(r, cache[p].text)
      BY <1>4, <2>3 DEF Stat
    <3> QED BY <2>1, <3>1, <3>2, CandidateAdds
  <2>4. CASE /\ disk[p] # Missing /\ ~(Len(disk[p]) > limits.file)
             /\ ~(cache[p] # Missing /\ cache[p].stamp = Stamp(p))
    <3> DEFINE d == [c EXCEPT !.at = "read", !.stamp = Stamp(p)]
    <3>1. Becomes(r, d)
      BY <1>4, <2>4 DEF Stat
    <3>2. Kept(c, d)
      BY <1>1 DEF Calls, Kept
    <3> QED BY <1>3, <3>1, <3>2
  <2> QED BY <2>2, <2>3, <2>4
<1>5. CASE ReadPart(r)
  <2> DEFINE d == [c EXCEPT !.at = "rest", !.text = SubSeq(disk[p], 1, 1)]
  <2>1. Becomes(r, d)
    BY <1>5 DEF ReadPart
  <2>2. Kept(c, d)
    BY <1>1 DEF Calls, Kept
  <2> QED BY <1>3, <2>1, <2>2
<1>6. CASE ReadRest(r)
  <2>1. \/ \E kind \in {"Unreadable", "Binary"} : Skip(r, kind)
        \/ \E text : Becomes(r, [c EXCEPT !.at = "after", !.text = text])
    BY <1>6 DEF ReadRest
  <2>2. ASSUME NEW text PROVE Kept(c, [c EXCEPT !.at = "after", !.text = text])
    BY <1>1 DEF Calls, Kept
  <2> QED BY <1>2, <1>3, <2>1, <2>2
<1>7. CASE Recheck(r)
  <2> DEFINE d == [c EXCEPT !.at = "final", !.text = Redact(@)]
  <2>1. Skip(r, "Unreadable") \/ Again(r) \/ Becomes(r, d)
    BY <1>7 DEF Recheck
  <2>2. Kept(c, d)
    BY <1>1 DEF Calls, Kept
  <2> HIDE DEF d
  <2> QED BY <1>2, <1>3, <2>1, <2>2, AgainAdds
<1>8. CASE Store(r)
  <2>1. c.at = "final" /\ c.at \in LoadSteps /\ c.text \in Texts
    BY <1>1, <1>8 DEF Store, LoadSteps, Calls
  <2>2. Skip(r, "Unreadable") \/ Again(r) \/ AddCandidate(r, c.text)
    BY <1>8 DEF Store
  <2> QED BY <1>2, <2>1, <2>2, AgainAdds, CandidateAdds
<1> QED BY <1>4, <1>5, <1>6, <1>7, <1>8 DEF Load

LEMMA VisitAdds ==
  ASSUME RepositoryInv, NEW r \in Readers, Visit(r)
  PROVE  \A q \in Readers : Added(reader[q], reader'[q])
<1> DEFINE c == reader[r]
           entry == Walk[c.place]
           n == [c EXCEPT !.visited = @ + 1]
<1>1. c \in Calls /\ c.place \in Nat /\ c.place >= 1
  BY DEF RepositoryInv, CallOK, Calls, PlaceOK, Visit
<1>2. n \in Calls /\ Kept(c, n) /\ Kept(c, c)
  <2>1. n = [c EXCEPT !.visited = c.visited + 1] /\ c.visited + 1 \in Nat /\ Kept(c, n)
    BY <1>1 DEF Calls, Kept
  <2> HIDE DEF n
  <2> QED BY <1>1, <2>1 DEF Calls, Kept
<1>3. ASSUME NEW d, Becomes(r, d), Kept(c, d)
      PROVE  \A q \in Readers : Added(reader[q], reader'[q])
  BY <1>3, OneAdds DEF Kept, Added
<1>4. \/ Becomes(r, Ended(c)) \/ Becomes(r, Passed(c)) \/ Becomes(r, Passed(n))
      \/ Becomes(r, Ended(Warned(c, <<>>, "Cancelled")))
      \/ Becomes(r, Ended(Warned(c, <<>>, "FileLimitReached")))
      \/ /\ ~(c.place > Len(Walk))
         /\ \/ Becomes(r, Passed(Warned(c, entry.path, "Unreadable")))
            \/ Becomes(r, Passed(Warned(n, entry.path, "Generated")))
            \/ Becomes(r, Loading(n, entry.path))
  BY DEF Visit
<1>5. ~(c.place > Len(Walk)) => entry.path \in Places
  BY <1>1, RepositoryAssumption DEF RepositoryAssumption, Places
<1>6. Kept(n, Loading(n, entry.path))
  <2> HIDE DEF n
  <2> QED BY <1>2 DEF Calls, Kept, Loading
<1> HIDE DEF n
<1>7. /\ Kept(c, Ended(c)) /\ Kept(c, Passed(c)) /\ Kept(n, Passed(n))
  BY <1>1, <1>2, PassedCalls, EndedCalls DEF Kept
<1>8. /\ Kept(c, Ended(Warned(c, <<>>, "Cancelled")))
      /\ Kept(c, Ended(Warned(c, <<>>, "FileLimitReached")))
      /\ entry.path \in Places =>
            /\ Kept(c, Passed(Warned(c, entry.path, "Unreadable")))
            /\ Kept(n, Passed(Warned(n, entry.path, "Generated")))
  <2>1. /\ {"Cancelled", "FileLimitReached", "Unreadable", "Generated"} \subseteq WarningKinds
        /\ <<>> \in Places
    BY DEF WarningKinds, LastWords, Places
  <2> QED BY <1>1, <1>2, <2>1, WarnedKeep
<1>9. \A d : Kept(n, d) => Kept(c, d)
  BY <1>2 DEF Kept
<1> QED BY <1>3, <1>4, <1>5, <1>6, <1>7, <1>8, <1>9

LEMMA StepAdds ==
  ASSUME RepositoryInv, RepositoryNext
  PROVE  \A q \in Readers : Added(reader[q], reader'[q])
<1>1. ASSUME NEW r \in Readers, \/ BeginScan(r) \/ Return(r) \/ \E p \in Fetched : BeginFetch(r, p)
      PROVE  \A q \in Readers : Added(reader[q], reader'[q])
  <2>1. ASSUME NEW d, Becomes(r, d), d.found = <<>>, d.retained = 0
        PROVE  \A q \in Readers : Added(reader[q], reader'[q])
    BY <2>1, OneAdds DEF Added
  <2>2. CASE BeginScan(r)
    <3> DEFINE d == [Ready EXCEPT !.at = "walk", !.job = "scan", !.place = 1]
    <3>1. Becomes(r, d)
      BY <2>2 DEF BeginScan
    <3>2. d.found = <<>> /\ d.retained = 0
      BY DEF Ready
    <3> HIDE DEF d
    <3> QED BY <2>1, <3>1, <3>2
  <2>3. CASE Return(r)
    <3>1. Becomes(r, Ready) /\ Ready.found = <<>> /\ Ready.retained = 0
      BY <2>3 DEF Return, Ready
    <3> QED BY <2>1, <3>1
  <2>4. ASSUME NEW p, BeginFetch(r, p)
        PROVE  \A q \in Readers : Added(reader[q], reader'[q])
    <3> DEFINE d == Loading([Ready EXCEPT !.job = "fetch"], p)
    <3>1. Becomes(r, d)
      BY <2>4 DEF BeginFetch
    <3>2. d.found = <<>> /\ d.retained = 0
      BY DEF Ready, Loading
    <3> HIDE DEF d
    <3> QED BY <2>1, <3>1, <3>2
  <2> QED BY <1>1, <2>2, <2>3, <2>4
<1>2. ASSUME NEW r \in Readers, CancelScan(r)
      PROVE  \A q \in Readers : Added(reader[q], reader'[q])
  <2> DEFINE d == [reader[r] EXCEPT !.cancelled = TRUE]
  <2>1. Becomes(r, d) /\ reader[r] \in Calls
    BY <1>2 DEF CancelScan, RepositoryInv, CallOK
  <2>2. Added(reader[r], d)
    BY <2>1 DEF Calls, Added
  <2> HIDE DEF d
  <2> QED BY <2>1, <2>2, OneAdds
<1>3. CASE Tick
  BY <1>3 DEF Tick, Added
<1>4. ASSUME NEW p, NEW content, Edit(p, content), NEW q \in Readers
      PROVE  Added(reader[q], reader'[q])
  <2>1. reader[q] \in Calls
    BY DEF RepositoryInv, CallOK
  <2>2. \/ reader'[q] = reader[q]
        \/ reader'[q] = [reader[q] EXCEPT !.during = @ \cup {content}]
    BY <1>4 DEF Edit
  <2> QED BY <2>1, <2>2 DEF Calls, Added
<1> QED BY <1>1, <1>2, <1>3, <1>4, LoadAdds, VisitAdds
       DEF RepositoryNext, Scan, Fetch, World, Readers

LEMMA CountedInvariant == RepositorySpec => [](\A r \in Readers : Counted(reader[r]))
<1> DEFINE I == \A r \in Readers : Counted(reader[r])
<1>1. RepositoryInit => I
  BY DEF RepositoryInit, Ready, Counted
<1>2. ASSUME I, RepositoryInv, [RepositoryNext]_repositoryVars PROVE I'
  <2>1. CASE RepositoryNext
    <3> SUFFICES ASSUME NEW r \in Readers PROVE Counted(reader'[r])
      BY DEF Counted, BytesFound, BytePlaces
    <3>1. Added(reader[r], reader'[r]) /\ reader[r] \in Calls /\ Counted(reader[r])
      BY <1>2, <2>1, StepAdds DEF RepositoryInv, CallOK
    <3> QED BY <3>1, AddedCounted
  <2>2. CASE UNCHANGED repositoryVars
    BY <1>2, <2>2 DEF repositoryVars, Counted, BytesFound, BytePlaces
  <2> QED BY <1>2, <2>1, <2>2
<1> HIDE DEF I
<1>3. RepositorySpec => []I
  BY <1>1, <1>2, RepositoryInvariant, PTL DEF RepositorySpec
<1> QED BY <1>3 DEF I

THEOREM ScansAccount == RepositorySpec => []ScanAccounts
<1> DEFINE I == \A r \in Readers : Counted(reader[r])
<1>1. I /\ EveryEntryExplained => ScanAccounts
  BY DEF ScanAccounts, Counted
<1>2. RepositorySpec => []I
  BY CountedInvariant
<1> HIDE DEF I
<1> QED BY <1>1, <1>2, ScansExplain, PTL

-----------------------------------------------------------------------------
(* The inductive invariant of build_context.                               *)

Count == Len(candidates)

\* Whatever the scores are that build_context is called with.
AnyCandidate == [source : Nat, hash : Hashes, score : Nat]

InputOK ==
    /\ candidates \in Seq(AnyCandidate) /\ tokens \in [Hashes -> Tokens]
    /\ budget \in Budgets
    /\ next \in 1 .. 2 * Count + 1

\* The winners are candidates of their contents, and none that was considered
\* is better.
WinnersInv ==
    /\ \A h \in DOMAIN winners :
          winners[h] \in Indexes /\ candidates[winners[h]].hash = h
    /\ \A i \in Indexes : i < next =>
          /\ candidates[i].hash \in DOMAIN winners
          /\ ~Beats(candidates[i], candidates[winners[candidates[i].hash]])

Omissions == [index : Indexes, reason : {"duplicate", "budget"}, kept : Indexes]

ReasonsInv ==
    /\ omissions \in Seq(Omissions) /\ items \in Seq(Indexes)
    /\ omissions # <<>> => ~Considering
    /\ \A k \in DOMAIN omissions :
          LET o == omissions[k]
          IN  /\ o.reason = "duplicate" =>
                    o.index \notin Winning /\ o.kept = winners[candidates[o.index].hash]
              /\ o.reason = "budget" => Packing /\ used + Size(o.index) > budget

Early(m) == {i \in Winning : i < m}

\* What the loops have accounted for.
AccountInv ==
    /\ used \in Nat /\ used <= budget
    /\ ~Packing => items = <<>> /\ ranked = {} /\ used = 0
    /\ Recording =>
          /\ Len(omissions) + Cardinality(Early(next - Count)) = next - Count - 1
          /\ \A i \in Indexes : i < next - Count => i \in Winning \cup Omitted
    /\ Packing =>
          /\ ranked \subseteq Winning
          /\ Len(omissions) + Len(items) + Cardinality(ranked) = Count
          /\ Indexes \subseteq Winning \cup Omitted
          /\ Winning \subseteq ranked \cup Packed \cup OverBudget

BundleInv == InputOK /\ WinnersInv /\ ReasonsInv /\ AccountInv

LEMMA InputFacts ==
  ASSUME InputOK
  PROVE  /\ Count \in Nat /\ Indexes = 1 .. Count /\ next \in Nat
         /\ \A i \in Indexes : /\ candidates[i] \in AnyCandidate
                               /\ candidates[i].hash \in Hashes
                               /\ candidates[i].source \in Nat
                               /\ candidates[i].score \in Nat
                               /\ Size(i) \in Nat
         /\ budget \in Nat
         /\ Considering \/ Recording \/ Packing
         /\ Considering => next \in Indexes
         /\ Recording => next - Count \in Indexes /\ ~Considering /\ ~Packing
         /\ Packing => ~Considering
<1>1. Count \in Nat /\ Indexes = 1 .. Count
  BY DEF InputOK, Count, Indexes
<1>2. next \in Nat /\ next >= 1 /\ next <= 2 * Count + 1
  BY <1>1 DEF InputOK
<1>3. \A i \in Indexes : candidates[i] \in AnyCandidate
  BY DEF InputOK, Indexes
<1>4. \A i \in Indexes : /\ candidates[i].hash \in Hashes
                         /\ candidates[i].source \in Nat /\ candidates[i].score \in Nat
  BY <1>3, ContextAssumption DEF AnyCandidate, ContextAssumption
<1>5. \A i \in Indexes : Size(i) \in Nat
  BY <1>4, ContextAssumption DEF ContextAssumption, InputOK, Size
<1>6. budget \in Nat
  BY ContextAssumption DEF ContextAssumption, InputOK
<1>7. /\ Considering \/ Recording \/ Packing
      /\ Considering => next \in Indexes
      /\ Recording => next - Count \in Indexes /\ ~Considering /\ ~Packing
      /\ Packing => ~Considering
  BY <1>1, <1>2 DEF Considering, Recording, Packing, Count
<1> QED BY <1>1, <1>2, <1>3, <1>4, <1>5, <1>6, <1>7

LEMMA WinnersAreIndexes ==
  ASSUME InputOK, WinnersInv
  PROVE  /\ Winning \subseteq Indexes /\ IsFiniteSet(Winning)
         /\ \A m : IsFiniteSet(Early(m)) /\ Cardinality(Early(m)) \in Nat
<1>1. Winning \subseteq Indexes
  BY DEF WinnersInv, Winning
<1>2. IsFiniteSet(Indexes)
  BY InputFacts, FS_Interval
<1>3. IsFiniteSet(Winning)
  BY <1>1, <1>2, FS_Subset
<1>4. ASSUME NEW m
      PROVE  IsFiniteSet(Early(m)) /\ Cardinality(Early(m)) \in Nat
  <2>1. Early(m) \subseteq Winning
    BY DEF Early
  <2> QED BY <2>1, <1>3, FS_Subset, FS_CardinalityType
<1> QED BY <1>1, <1>3, <1>4

LEMMA FreshBundle ==
  ASSUME InputOK, next = 1, winners = <<>>, ranked = {}, items = <<>>, omissions = <<>>, used = 0
  PROVE  BundleInv
<1>1. DOMAIN winners = {} /\ Winning = {}
  BY DEF Winning
<1>2. WinnersInv
  BY <1>1, InputFacts DEF WinnersInv
<1>3. ReasonsInv
  BY DEF ReasonsInv
<1>4. budget \in Nat /\ Count \in Nat /\ Indexes = 1 .. Count
  BY InputFacts
<1>5. ~Recording
  BY <1>4 DEF Recording, Count
<1>6. Packing => Count = 0 /\ Indexes = {}
  BY <1>4 DEF Packing, Count
<1>7. Cardinality(ranked) = 0 /\ Len(omissions) = 0 /\ Len(items) = 0
  BY FS_EmptySet
<1>8. AccountInv
  BY <1>1, <1>4, <1>5, <1>6, <1>7 DEF AccountInv
<1> QED BY <1>2, <1>3, <1>8 DEF BundleInv

LEMMA BundleInit == Init => BundleInv
<1> SUFFICES ASSUME Init PROVE BundleInv
  OBVIOUS
<1>1. PICK n \in 0 .. MaxLength : candidates \in [1 .. n -> AnyCandidate]
  <2>1. Candidate \subseteq AnyCandidate
    BY ContextAssumption DEF ContextAssumption, Candidate, AnyCandidate
  <2>2. PICK n \in 0 .. MaxLength : candidates \in [1 .. n -> Candidate]
    BY DEF Init
  <2> QED BY <2>1, <2>2
<1>2. candidates \in Seq(AnyCandidate) /\ n \in Nat /\ Count = n
  BY <1>1, ContextAssumption DEF ContextAssumption, Count
<1>3. InputOK
  BY <1>2 DEF Init, InputOK
<1> QED BY <1>3, FreshBundle DEF Init

\* The winner of a content is replaced by one that is better, so that those
\* considered before are not better either.
LEMMA BeatsIsOrder ==
  ASSUME NEW c \in AnyCandidate, NEW d \in AnyCandidate, NEW e \in AnyCandidate
  PROVE  /\ ~Beats(c, c)
         /\ ~Beats(c, d) /\ Beats(e, d) => ~Beats(c, e)
<1>1. /\ c.score \in Nat /\ d.score \in Nat /\ e.score \in Nat
      /\ c.source \in Nat /\ d.source \in Nat /\ e.source \in Nat
  BY ContextAssumption DEF ContextAssumption, AnyCandidate
<1> QED BY <1>1 DEF Beats

LEMMA ConsiderKeeps ==
  ASSUME BundleInv, Consider
  PROVE  BundleInv'
<1> DEFINE i == next
           c == candidates[i]
<1>1. /\ InputOK /\ WinnersInv /\ ReasonsInv /\ AccountInv /\ Considering
      /\ winners' = WithWinner(i) /\ next' = next + 1
      /\ UNCHANGED <<candidates, tokens, budget, ranked, items, omissions, used>>
  BY DEF BundleInv, Consider, input
<1>2. /\ Count \in Nat /\ Indexes = 1 .. Count /\ i \in Indexes /\ ~Recording /\ ~Packing
      /\ next \in Nat
      /\ \A j \in Indexes : candidates[j] \in AnyCandidate
  BY <1>1, InputFacts
<1>3. Indexes' = Indexes /\ Count' = Count
  BY <1>1 DEF Indexes, Count
<1>4. InputOK'
  BY <1>1, <1>2, <1>3 DEF InputOK, Considering, Count
<1>5. DOMAIN winners' = DOMAIN winners \cup {c.hash}
  BY <1>1 DEF WithWinner
<1>6. \A h \in DOMAIN winners : h # c.hash => winners'[h] = winners[h]
  BY <1>1 DEF WithWinner
<1>7. /\ \/ winners'[c.hash] = i
         \/ c.hash \in DOMAIN winners /\ winners'[c.hash] = winners[c.hash]
      /\ c.hash \in DOMAIN winners =>
            IF Beats(c, candidates[winners[c.hash]]) THEN winners'[c.hash] = i
            ELSE winners'[c.hash] = winners[c.hash]
      /\ c.hash \notin DOMAIN winners => winners'[c.hash] = i
  BY <1>1 DEF WithWinner
<1>8. \A h \in DOMAIN winners' :
         winners'[h] \in Indexes /\ candidates[winners'[h]].hash = h
  BY <1>1, <1>2, <1>5, <1>6, <1>7 DEF WinnersInv
<1>9. ASSUME NEW j \in Indexes, j < next'
      PROVE  /\ candidates[j].hash \in DOMAIN winners'
             /\ ~Beats(candidates[j], candidates[winners'[candidates[j].hash]])
  <2>1. CASE j = i
    <3>1. candidates[j].hash \in DOMAIN winners'
      BY <2>1, <1>5
    <3>2. ~Beats(c, c)
      BY <1>2, BeatsIsOrder
    <3> QED BY <2>1, <3>1, <3>2, <1>7
  <2>2. CASE j # i
    <3>1. j < next
      BY <2>2, <1>9, <1>1, <1>2
    <3> DEFINE h == candidates[j].hash
    <3>2. h \in DOMAIN winners /\ ~Beats(candidates[j], candidates[winners[h]])
      BY <3>1, <1>1, <1>9 DEF WinnersInv
    <3>3. winners[h] \in Indexes /\ candidates[winners[h]] \in AnyCandidate
      BY <3>2, <1>1, <1>2 DEF WinnersInv
    <3>4. CASE h # c.hash
      BY <3>2, <3>4, <1>5, <1>6
    <3>5. CASE h = c.hash /\ Beats(c, candidates[winners[h]])
      <4>1. ~Beats(candidates[j], c)
        BY <3>2, <3>3, <3>5, <1>2, BeatsIsOrder
      <4> QED BY <4>1, <3>2, <3>5, <1>5, <1>7
    <3>6. CASE h = c.hash /\ ~Beats(c, candidates[winners[h]])
      BY <3>2, <3>6, <1>5, <1>7
    <3> QED BY <3>4, <3>5, <3>6
  <2> QED BY <2>1, <2>2
<1>10. WinnersInv'
  BY <1>1, <1>3, <1>8, <1>9 DEF WinnersInv
<1>11. omissions = <<>> /\ items = <<>> /\ ranked = {} /\ used = 0
  BY <1>1, <1>2 DEF ReasonsInv, AccountInv
<1>12. ReasonsInv'
  BY <1>1, <1>11 DEF ReasonsInv
<1>13. Len(omissions') = 0 /\ Len(items') = 0
  BY <1>1, <1>11
<1>14. ~Packing'
  BY <1>1, <1>2, <1>3 DEF Packing, Considering, Count
<1>15. Recording' => next' - Count = 1
  BY <1>1, <1>2, <1>3 DEF Recording, Considering, Count
<1>16. ASSUME Recording'
       PROVE  /\ Cardinality(Early(next - Count)') = 0
              /\ \A j \in Indexes : ~(j < next' - Count)
  <2>1. \A j \in Indexes : ~(j < next' - Count)
    BY <1>2, <1>3, <1>15, <1>16
  <2>2. Early(next - Count)' = {}
    BY <1>3, <1>8, <2>1 DEF Early, Winning
  <2> QED BY <2>1, <2>2, FS_EmptySet
<1>17. Recording' => /\ Len(omissions') + Cardinality(Early(next - Count)') = next' - Count' - 1
                     /\ \A j \in Indexes : ~(j < next' - Count')
  BY <1>3, <1>13, <1>15, <1>16
<1>18. AccountInv'
  BY <1>1, <1>3, <1>11, <1>14, <1>17 DEF AccountInv
<1> QED BY <1>4, <1>10, <1>12, <1>18 DEF BundleInv

\* An appended omission adds its index to the omitted.
LEMMA RecordKeeps ==
  ASSUME BundleInv, Record
  PROVE  BundleInv'
<1> DEFINE i == next - Len(candidates)
           winner == winners[candidates[i].hash]
           o == Omission(i, "duplicate", winner)
<1>1. /\ InputOK /\ WinnersInv /\ ReasonsInv /\ AccountInv /\ Recording
      /\ omissions' = IF winner = i THEN omissions ELSE Append(omissions, o)
      /\ next' = next + 1
      /\ ranked' = IF i = Len(candidates) THEN Winning ELSE ranked
      /\ UNCHANGED <<candidates, tokens, budget, winners, items, used>>
  BY DEF BundleInv, Record, input
<1>2. /\ Count \in Nat /\ Indexes = 1 .. Count /\ i \in Indexes /\ ~Considering /\ ~Packing
      /\ next \in Nat /\ Count = Len(candidates) /\ budget \in Nat
  BY <1>1, InputFacts DEF Count
<1>3. /\ Indexes' = Indexes /\ Count' = Count /\ Winning' = Winning
      /\ Omissions' = Omissions
  BY <1>1 DEF Indexes, Count, Winning, Omissions
<1>4. InputOK'
  BY <1>1, <1>2, <1>3 DEF InputOK, Recording
<1>5. ~Considering' /\ ~Considering
  BY <1>1, <1>2 DEF Recording, Considering
<1>6. \A j \in Indexes : j < next /\ j < next'
  BY <1>1, <1>2
<1>7. WinnersInv'
  BY <1>1, <1>3, <1>6 DEF WinnersInv, Beats
<1>8. /\ winner \in Indexes /\ candidates[winner].hash = candidates[i].hash
      /\ candidates[i].hash \in DOMAIN winners
  BY <1>1, <1>2, <1>6 DEF WinnersInv
<1>9. winner # i => i \notin Winning
  BY <1>1 DEF WinnersInv, Winning
<1>10. winner = i => i \in Winning
  BY <1>8 DEF Winning
<1>11. /\ o \in Omissions /\ o.index = i /\ o.reason = "duplicate" /\ o.kept = winner
  BY <1>2, <1>8 DEF Omission, Omissions
<1>12. omissions \in Seq(Omissions) /\ Len(omissions) \in Nat
  BY <1>1 DEF ReasonsInv
<1>13. \A k \in DOMAIN omissions :
         /\ omissions[k].reason = "duplicate" =>
               /\ omissions[k].index \notin Winning
               /\ omissions[k].kept = winners[candidates[omissions[k].index].hash]
         /\ omissions[k].reason # "budget"
  BY <1>1, <1>2 DEF ReasonsInv
<1> HIDE DEF o
<1>14. winner # i => /\ omissions' \in Seq(Omissions) /\ Len(omissions') = Len(omissions) + 1
                     /\ DOMAIN omissions' = DOMAIN omissions \cup {Len(omissions) + 1}
                     /\ omissions'[Len(omissions) + 1] = o
                     /\ \A k \in DOMAIN omissions : omissions'[k] = omissions[k]
  BY <1>1, <1>11, <1>12, AppendedElement
<1>15. \A k \in DOMAIN omissions' :
         /\ omissions'[k].reason = "duplicate" =>
               /\ omissions'[k].index \notin Winning
               /\ omissions'[k].kept = winners[candidates[omissions'[k].index].hash]
         /\ omissions'[k].reason # "budget"
  <2>1. CASE winner = i
    BY <2>1, <1>1, <1>13
  <2>2. CASE winner # i
    BY <2>2, <1>9, <1>11, <1>13, <1>14
  <2> QED BY <2>1, <2>2
<1>16. omissions' \in Seq(Omissions)
  BY <1>1, <1>12, <1>14
<1>17. ReasonsInv'
  BY <1>1, <1>3, <1>5, <1>15, <1>16 DEF ReasonsInv
<1>18. Omitted \subseteq Omitted' /\ (winner # i => i \in Omitted')
  <2>1. CASE winner = i
    BY <2>1, <1>1 DEF Omitted
  <2>2. CASE winner # i
    <3>1. \A k \in DOMAIN omissions :
            k \in DOMAIN omissions' /\ omissions'[k].index = omissions[k].index
      BY <2>2, <1>14
    <3>2. /\ Len(omissions) + 1 \in DOMAIN omissions'
          /\ omissions'[Len(omissions) + 1].index = i
      BY <2>2, <1>11, <1>14
    <3> QED BY <3>1, <3>2 DEF Omitted
  <2> QED BY <2>1, <2>2
<1>19. \A j \in Indexes : j < i + 1 => j \in Winning \cup Omitted'
  <2>1. \A j \in Indexes : j < i => j \in Winning \cup Omitted
    BY <1>1, <1>2 DEF AccountInv
  <2> QED BY <2>1, <1>2, <1>10, <1>18
<1>20. Len(omissions') + Cardinality(Early(i + 1)) = i
  <2>1. /\ IsFiniteSet(Early(i)) /\ Cardinality(Early(i)) \in Nat
        /\ Winning \subseteq Indexes
    BY <1>1, WinnersAreIndexes
  <2>2. Len(omissions) + Cardinality(Early(i)) = i - 1
    BY <1>1, <1>2 DEF AccountInv
  <2> HIDE DEF i
  <2>5. \A j \in Winning : j < i + 1 <=> j < i \/ j = i
    BY <2>1, <1>2
  <2>6. ~(i < i)
    BY <1>2
  <2>3. CASE winner = i
    <3>1. Early(i + 1) = Early(i) \cup {i} /\ i \notin Early(i)
      BY <2>3, <2>5, <2>6, <1>10 DEF Early
    <3>2. Cardinality(Early(i + 1)) = Cardinality(Early(i)) + 1
      BY <3>1, <2>1, FS_AddElement
    <3> QED BY <3>2, <2>1, <2>2, <2>3, <1>1, <1>2, <1>12
  <2>4. CASE winner # i
    <3>1. Early(i + 1) = Early(i)
      BY <2>4, <2>5, <1>9 DEF Early
    <3> QED BY <3>1, <2>1, <2>2, <2>4, <1>2, <1>12, <1>14
  <2> QED BY <2>3, <2>4
<1>21. Early(next - Count)' = Early(i + 1)
  BY <1>1, <1>2, <1>3 DEF Early
<1>22. used = 0 /\ items = <<>> /\ ranked = {}
  BY <1>1, <1>2 DEF AccountInv
<1>23. CASE i < Count
  <2>1. ~Packing' /\ ranked' = {}
    BY <1>1, <1>2, <1>3, <1>22, <1>23 DEF Packing, Count
  <2>2. next' - Count' = i + 1 /\ i + 1 - 1 = i
    BY <1>1, <1>2, <1>3
  <2>3. /\ Len(omissions') + Cardinality(Early(next - Count)') = next' - Count' - 1
        /\ \A j \in Indexes' : j < next' - Count' => j \in Winning' \cup Omitted'
    BY <2>2, <1>2, <1>3, <1>19, <1>20, <1>21
  <2>4. AccountInv'
    BY <2>1, <2>3, <1>1, <1>2, <1>22 DEF AccountInv
  <2> QED BY <2>4, <1>4, <1>7, <1>17 DEF BundleInv
<1>24. CASE i = Count
  <2>1. ~Recording' /\ ranked' = Winning
    BY <1>1, <1>2, <1>3, <1>24 DEF Recording, Count
  <2>2. Early(i + 1) = Winning
    BY <1>1, <1>2, <1>24, WinnersAreIndexes DEF Early
  <2>3. Packing'
    BY <1>1, <1>2, <1>3, <1>24 DEF Packing, Count
  <2>4. Len(omissions') + Len(items') + Cardinality(ranked') = Count'
    <3>1. Len(items') = 0 /\ Cardinality(ranked') = Cardinality(Early(i + 1))
      BY <1>1, <1>22, <2>1, <2>2
    <3>2. Len(omissions') \in Nat
      BY <1>16
    <3> QED BY <3>1, <3>2, <1>2, <1>3, <1>20, <1>24
  <2>5. Indexes \subseteq Winning \cup Omitted'
    BY <1>2, <1>19, <1>24
  <2>6. AccountInv'
    BY <2>1, <2>3, <2>4, <2>5, <1>1, <1>2, <1>3, <1>22 DEF AccountInv
  <2> QED BY <2>6, <1>4, <1>7, <1>17 DEF BundleInv
<1> QED BY <1>2, <1>23, <1>24

LEMMA PackKeeps ==
  ASSUME BundleInv, Pack
  PROVE  BundleInv'
<1>1. PICK i \in ranked :
         /\ ranked' = ranked \ {i}
         /\ \/ /\ Fits(i)
               /\ used' = used + Size(i)
               /\ items' = Append(items, i)
               /\ UNCHANGED omissions
            \/ /\ ~Fits(i)
               /\ omissions' = Append(omissions, Omission(i, "budget", i))
               /\ UNCHANGED <<used, items>>
  BY DEF Pack
<1>2. /\ InputOK /\ WinnersInv /\ ReasonsInv /\ AccountInv /\ Packing
      /\ UNCHANGED <<candidates, tokens, budget, next, winners>>
  BY DEF BundleInv, Pack, input
<1>3. /\ Count \in Nat /\ ~Considering /\ ~Recording /\ budget \in Nat
      /\ \A j \in Indexes : Size(j) \in Nat
  BY <1>2, InputFacts
<1>4. /\ Indexes' = Indexes /\ Count' = Count /\ Winning' = Winning
      /\ Omissions' = Omissions /\ Packing' /\ ~Considering' /\ ~Recording'
      /\ \A j : Size(j)' = Size(j)
  BY <1>2, <1>3 DEF Indexes, Count, Winning, Omissions, Packing, Considering, Recording, Size
<1>5. InputOK'
  BY <1>2, <1>4 DEF InputOK
<1>6. WinnersInv'
  BY <1>2, <1>4 DEF WinnersInv, Beats
<1>7. /\ used \in Nat /\ used <= budget
      /\ ranked \subseteq Winning
      /\ Len(omissions) + Len(items) + Cardinality(ranked) = Count
      /\ Indexes \subseteq Winning \cup Omitted
      /\ Winning \subseteq ranked \cup Packed \cup OverBudget
  BY <1>2 DEF AccountInv
<1>8. /\ IsFiniteSet(ranked) /\ Cardinality(ranked) \in Nat
      /\ IsFiniteSet(ranked') /\ Cardinality(ranked') = Cardinality(ranked) - 1
      /\ Cardinality(ranked') \in Nat
      /\ i \in Indexes /\ i \in Winning /\ ranked' \subseteq Winning
  <2>1. IsFiniteSet(Winning) /\ Winning \subseteq Indexes
    BY <1>2, WinnersAreIndexes
  <2>2. IsFiniteSet(ranked) /\ IsFiniteSet(ranked')
    BY <2>1, <1>1, <1>7, FS_Subset
  <2>3. Cardinality(ranked') = Cardinality(ranked) - 1
    BY <2>2, <1>1, FS_RemoveElement
  <2> QED BY <2>1, <2>2, <2>3, <1>1, <1>7, FS_CardinalityType
<1>9. /\ omissions \in Seq(Omissions) /\ items \in Seq(Indexes)
      /\ \A k \in DOMAIN omissions :
            /\ omissions[k].reason = "duplicate" =>
                  /\ omissions[k].index \notin Winning
                  /\ omissions[k].kept = winners[candidates[omissions[k].index].hash]
            /\ omissions[k].reason = "budget" => used + Size(omissions[k].index) > budget
            /\ omissions[k].index \in Indexes
  <2>1. omissions \in Seq(Omissions) /\ items \in Seq(Indexes)
    BY <1>2 DEF ReasonsInv
  <2>2. \A k \in DOMAIN omissions : omissions[k] \in Omissions
    BY <2>1
  <2>3. \A k \in DOMAIN omissions : omissions[k].index \in Indexes
    BY <2>2 DEF Omissions
  <2> QED BY <2>1, <2>3, <1>2 DEF ReasonsInv
<1>10. CASE Fits(i)
  <2>1. /\ used' = used + Size(i) /\ items' = Append(items, i) /\ omissions' = omissions
    BY <1>1, <1>10
  <2>2. /\ items' \in Seq(Indexes) /\ Len(items') = Len(items) + 1
        /\ DOMAIN items' = DOMAIN items \cup {Len(items) + 1} /\ items'[Len(items) + 1] = i
        /\ \A k \in DOMAIN items : items'[k] = items[k]
    BY <2>1, <1>8, <1>9, AppendedElement
  <2>3. Packed' = Packed \cup {i} /\ OverBudget' = OverBudget /\ Omitted' = Omitted
    BY <2>1, <2>2 DEF Packed, OverBudget, Omitted
  <2>4. used' \in Nat /\ used' <= budget /\ used' >= used
    BY <2>1, <1>3, <1>7, <1>8, <1>10 DEF Fits
  <2>5. \A k \in DOMAIN omissions :
           omissions[k].reason = "budget" => used' + Size(omissions[k].index) > budget
    BY <2>4, <1>3, <1>7, <1>9
  <2>6. ReasonsInv'
    BY <2>1, <2>2, <2>5, <1>2, <1>4, <1>9 DEF ReasonsInv
  <2>7. Len(omissions') + Len(items') + Cardinality(ranked') = Count
    BY <2>1, <2>2, <1>3, <1>7, <1>8, <1>9
  <2>8. Winning \subseteq ranked' \cup Packed' \cup OverBudget'
    BY <2>3, <1>1, <1>7
  <2>9. AccountInv'
    BY <2>3, <2>4, <2>7, <2>8, <1>2, <1>4, <1>7, <1>8 DEF AccountInv
  <2> QED BY <2>6, <2>9, <1>5, <1>6 DEF BundleInv
<1>11. CASE ~Fits(i)
  <2> DEFINE o == Omission(i, "budget", i)
  <2>1. used' = used /\ items' = items /\ omissions' = Append(omissions, o)
    BY <1>1, <1>11
  <2>2. /\ o \in Omissions /\ o.index = i /\ o.reason = "budget" /\ o.kept = i
    BY <1>8 DEF Omission, Omissions
  <2> HIDE DEF o
  <2>3. /\ omissions' \in Seq(Omissions) /\ Len(omissions') = Len(omissions) + 1
        /\ DOMAIN omissions' = DOMAIN omissions \cup {Len(omissions) + 1}
        /\ omissions'[Len(omissions) + 1] = o
        /\ \A k \in DOMAIN omissions : omissions'[k] = omissions[k]
    BY <2>1, <2>2, <1>9, AppendedElement
  <2>4. Packed' = Packed /\ OverBudget' = OverBudget \cup {i} /\ Omitted \subseteq Omitted'
    <3>1. Packed' = Packed /\ Omitted \subseteq Omitted'
      BY <2>1, <2>3 DEF Packed, Omitted
    <3>2. {k \in DOMAIN omissions' : omissions'[k].reason = "budget"} =
             {k \in DOMAIN omissions : omissions[k].reason = "budget"} \cup {Len(omissions) + 1}
      BY <2>2, <2>3
    <3>3. OverBudget' = OverBudget \cup {i}
      BY <3>2, <2>2, <2>3 DEF OverBudget
    <3> QED BY <3>1, <3>3
  <2>5. used + Size(i) > budget
    BY <1>3, <1>7, <1>8, <1>11 DEF Fits
  <2>6. \A k \in DOMAIN omissions' :
           /\ omissions'[k].reason = "duplicate" =>
                 /\ omissions'[k].index \notin Winning
                 /\ omissions'[k].kept = winners[candidates[omissions'[k].index].hash]
           /\ omissions'[k].reason = "budget" => used + Size(omissions'[k].index) > budget
    BY <2>2, <2>3, <2>5, <1>9
  <2>7. ReasonsInv'
    BY <2>1, <2>3, <2>6, <1>2, <1>4, <1>9 DEF ReasonsInv
  <2>8. Len(omissions') + Len(items') + Cardinality(ranked') = Count
    BY <2>1, <2>3, <1>3, <1>7, <1>8, <1>9
  <2>9. /\ Winning \subseteq ranked' \cup Packed' \cup OverBudget'
        /\ Indexes \subseteq Winning \cup Omitted'
    BY <2>4, <1>1, <1>7
  <2>10. AccountInv'
    BY <2>1, <2>8, <2>9, <1>2, <1>4, <1>7, <1>8 DEF AccountInv
  <2> QED BY <2>7, <2>10, <1>5, <1>6 DEF BundleInv
<1> QED BY <1>10, <1>11

\* Of the candidates of a content, the one that no other beats is unique up
\* to its place.
LEMMA BestWin ==
  ASSUME BundleInv
  PROVE  WinnersAreBest
<1> SUFFICES ASSUME ~Considering
             PROVE  {candidates[i] : i \in Winning} = BestOf({candidates[i] : i \in Indexes})
  BY DEF WinnersAreBest
<1> DEFINE W(i) == winners[candidates[i].hash]
<1>1. InputOK /\ WinnersInv
  BY DEF BundleInv
<1>2. /\ \A i \in Indexes : /\ candidates[i] \in AnyCandidate /\ candidates[i].score \in Nat
                            /\ candidates[i].source \in Nat
      /\ \A i \in Indexes : i < next
  BY <1>1, InputFacts DEF Considering, Count
<1>3. \A i \in Indexes : /\ candidates[i].hash \in DOMAIN winners
                         /\ W(i) \in Winning /\ W(i) \in Indexes
                         /\ candidates[W(i)].hash = candidates[i].hash
                         /\ ~Beats(candidates[i], candidates[W(i)])
  BY <1>1, <1>2 DEF WinnersInv, Winning
<1>4. \A i \in Winning : i \in Indexes /\ W(i) = i
  BY <1>1 DEF WinnersInv, Winning
<1>5. ASSUME NEW i \in Winning, NEW j \in Indexes, candidates[j].hash = candidates[i].hash
      PROVE  \/ candidates[j].score < candidates[i].score
             \/ /\ candidates[j].score = candidates[i].score
                /\ candidates[j].source >= candidates[i].source
  <2>1. ~Beats(candidates[j], candidates[i])
    BY <1>3, <1>4, <1>5
  <2> QED BY <2>1, <1>2, <1>4 DEF Beats
<1>6. ASSUME NEW i \in Indexes,
             \A j \in Indexes : candidates[j].hash = candidates[i].hash =>
                \/ candidates[j].score < candidates[i].score
                \/ /\ candidates[j].score = candidates[i].score
                   /\ candidates[j].source >= candidates[i].source
      PROVE  candidates[W(i)] = candidates[i]
  <2>1. ~Beats(candidates[i], candidates[W(i)]) /\ W(i) \in Indexes
        /\ candidates[W(i)].hash = candidates[i].hash
    BY <1>3
  <2>2. /\ candidates[W(i)].score = candidates[i].score
        /\ candidates[W(i)].source = candidates[i].source
    BY <2>1, <1>2, <1>6 DEF Beats
  <2> QED BY <2>1, <2>2, <1>2 DEF AnyCandidate
<1> HIDE DEF W
<1>7. \A i \in Winning : candidates[i] \in BestOf({candidates[j] : j \in Indexes})
  BY <1>4, <1>5 DEF BestOf
<1>8. \A c \in BestOf({candidates[j] : j \in Indexes}) : \E i \in Winning : c = candidates[i]
  <2> TAKE c \in BestOf({candidates[j] : j \in Indexes})
  <2>1. PICK i \in Indexes : c = candidates[i]
    BY DEF BestOf
  <2>2. candidates[W(i)] = candidates[i]
    BY <2>1, <1>6 DEF BestOf
  <2> QED BY <2>1, <2>2, <1>3
<1> QED BY <1>7, <1>8

\* What the invariant says of the end.
LEMMA BundleConsequences ==
  ASSUME BundleInv
  PROVE  BundleExplained
<1>1. InputOK /\ WinnersInv /\ ReasonsInv /\ AccountInv
  BY DEF BundleInv
<1>2. /\ Count \in Nat /\ Indexes = 1 .. Count /\ next \in Nat /\ Count = Len(candidates)
      /\ omissions \in Seq(Omissions) /\ items \in Seq(Indexes)
      /\ Packing => ~Considering
  BY <1>1, InputFacts DEF ReasonsInv, Count
<1>3. \A k \in DOMAIN omissions : omissions[k] \in Omissions
  BY <1>2
<1>4. \A k \in DOMAIN omissions :
         /\ omissions[k].index \in Indexes /\ omissions[k].kept \in Indexes
         /\ omissions[k].reason = "duplicate" =>
               /\ omissions[k].index \notin Winning
               /\ omissions[k].kept = winners[candidates[omissions[k].index].hash]
         /\ omissions[k].reason = "budget" => used + Size(omissions[k].index) > budget
  BY <1>1, <1>3 DEF ReasonsInv, Omissions
<1>5. used <= budget
  BY <1>1 DEF AccountInv
<1>6. ASSUME Done
      PROVE  EveryCandidateExplained /\ DuplicatesTraceable /\ NoRoomWasLeft
  <2>1. /\ ranked = {} /\ Packing
        /\ Len(omissions) + Len(items) + Cardinality(ranked) = Count
        /\ Indexes \subseteq Winning \cup Omitted
        /\ Winning \subseteq Packed \cup OverBudget
    BY <1>1, <1>6 DEF Done, AccountInv
  <2>2. OverBudget \subseteq Omitted
    BY DEF OverBudget, Omitted
  <2>3. Packed \cup Omitted = Indexes
    <3>1. Packed \subseteq Indexes
      BY <1>2 DEF Packed
    <3>2. Omitted \subseteq Indexes
      BY <1>4 DEF Omitted
    <3> QED BY <2>1, <2>2, <3>1, <3>2
  <2>4. Trace.candidate = Trace.duplicate + Trace.included + Trace.overBudget
    <3> DEFINE duplicates == Cardinality({k \in DOMAIN omissions :
                                             omissions[k].reason = "duplicate"})
    <3>1. duplicates \in Nat
      <4>1. IsFiniteSet(DOMAIN omissions)
        BY <1>2, FS_Interval
      <4>2. IsFiniteSet({k \in DOMAIN omissions : omissions[k].reason = "duplicate"})
        BY <4>1, FS_Subset
      <4> QED BY <4>2, FS_CardinalityType
    <3>2. Len(omissions) \in Nat /\ Len(items) \in Nat /\ Cardinality(ranked) = 0
      BY <1>2, <2>1, FS_EmptySet
    <3>3. /\ Trace.candidate = Count /\ Trace.duplicate = duplicates
          /\ Trace.included = Len(items) /\ Trace.overBudget = Len(omissions) - duplicates
      BY <1>2 DEF Trace
    <3> HIDE DEF duplicates
    <3> QED BY <3>1, <3>2, <3>3, <2>1, <1>2
  <2>5. ASSUME NEW k \in DOMAIN omissions, omissions[k].reason = "duplicate"
        PROVE  /\ omissions[k].kept # omissions[k].index
               /\ candidates[omissions[k].kept].hash = candidates[omissions[k].index].hash
               /\ ~Beats(candidates[omissions[k].index], candidates[omissions[k].kept])
               /\ omissions[k].kept \in Packed \cup OverBudget
    <3> DEFINE j == omissions[k].index
    <3>1. j \in Indexes /\ j \notin Winning /\ omissions[k].kept = winners[candidates[j].hash]
      BY <2>5, <1>4
    <3>2. j < next
      BY <2>1, <3>1, <1>2 DEF Packing
    <3>3. /\ candidates[j].hash \in DOMAIN winners
          /\ ~Beats(candidates[j], candidates[winners[candidates[j].hash]])
      BY <3>1, <3>2, <1>1 DEF WinnersInv
    <3>4. /\ omissions[k].kept \in Winning
          /\ candidates[omissions[k].kept].hash = candidates[j].hash
      BY <3>1, <3>3, <1>1 DEF WinnersInv, Winning
    <3> QED BY <3>1, <3>3, <3>4, <2>1
  <2>6. DuplicatesTraceable
    BY <2>5 DEF DuplicatesTraceable
  <2>7. NoRoomWasLeft
    BY <1>4 DEF NoRoomWasLeft
  <2> QED BY <2>3, <2>4, <2>6, <2>7 DEF EveryCandidateExplained
<1>7. ~Done => EveryCandidateExplained /\ DuplicatesTraceable /\ NoRoomWasLeft
  BY DEF EveryCandidateExplained, DuplicatesTraceable, NoRoomWasLeft
<1> QED BY <1>5, <1>6, <1>7, BestWin DEF BundleExplained

LEMMA BundleStutters ==
  ASSUME BundleInv, UNCHANGED vars
  PROVE  BundleInv'
<1>1. /\ Count' = Count /\ Indexes' = Indexes /\ Winning' = Winning /\ Omissions' = Omissions
      /\ Omitted' = Omitted /\ Packed' = Packed /\ OverBudget' = OverBudget
      /\ Considering' = Considering /\ Recording' = Recording /\ Packing' = Packing
      /\ UNCHANGED <<candidates, tokens, budget, next, winners, ranked, items, omissions, used>>
  BY DEF vars, input, Count, Indexes, Winning, Omissions, Omitted, Packed, OverBudget,
         Considering, Recording, Packing
<1>2. Early(next - Count)' = Early(next - Count)
  BY <1>1 DEF Early
<1>3. InputOK' /\ WinnersInv' /\ ReasonsInv'
  BY <1>1 DEF BundleInv, InputOK, WinnersInv, ReasonsInv, Size, Beats
<1>4. AccountInv'
  BY <1>1, <1>2 DEF BundleInv, AccountInv
<1> QED BY <1>3, <1>4 DEF BundleInv

\* Whatever candidates come in whatever order, with whatever counts and
\* budget: the bundle stays within its budget, every candidate is in it or
\* left out with a reason, a duplicate for one of its content that is no worse
\* and was kept or did not fit, any other for a budget that has no room for it
\* in the end either; and the order of the candidates has no part in which of
\* them win (build_context).
THEOREM BundlesAreExplained == Spec => []BundleExplained
<1>1. ASSUME BundleInv, [Next]_vars PROVE BundleInv'
  BY <1>1, ConsiderKeeps, RecordKeeps, PackKeeps, BundleStutters DEF Next
<1> QED BY <1>1, BundleInit, BundleConsequences, PTL DEF Spec

-----------------------------------------------------------------------------
(* Ranks.                                                                  *)

Choice == [used : Nat, selected : Seq(AnyCandidate)]
NextChoice(cs, count, limit, k, last) ==
    IF last.used + count[cs[k].hash] > limit THEN last
    ELSE [used |-> last.used + count[cs[k].hash], selected |-> Append(last.selected, cs[k])]

\* The recursion of select_within_budget has its solution.
LEMMA SelectionSteps ==
  ASSUME NEW cs \in Seq(AnyCandidate), NEW count \in [Hashes -> Nat], NEW limit \in Nat
  PROVE  LET f == Selections(cs, count, limit)
         IN  /\ f[0] = [used |-> 0, selected |-> <<>>]
             /\ \A k \in 1 .. Len(cs) : f[k] = NextChoice(cs, count, limit, k, f[k - 1])
<1> DEFINE N == Len(cs)
           first == [used |-> 0, selected |-> <<>>]
           F(f) == [k \in 0 .. N |-> IF k = 0 THEN first ELSE NextChoice(cs, count, limit, k, f[k - 1])]
           step == [x \in (1 .. N) \X Choice |-> NextChoice(cs, count, limit, x[1], x[2])]
<1>1. N \in Nat /\ first \in Choice
  BY DEF Choice
<1>2. ASSUME NEW k \in 1 .. N, NEW v \in Choice
      PROVE  NextChoice(cs, count, limit, k, v) \in Choice
  <2>1. cs[k] \in AnyCandidate /\ cs[k].hash \in Hashes
    <3>1. cs[k] \in AnyCandidate
      OBVIOUS
    <3> QED BY <3>1 DEF AnyCandidate
  <2>2. v.used \in Nat /\ v.selected \in Seq(AnyCandidate) /\ count[cs[k].hash] \in Nat
    BY <2>1 DEF Choice
  <2>3. Append(v.selected, cs[k]) \in Seq(AnyCandidate) /\ v.used + count[cs[k].hash] \in Nat
    BY <2>1, <2>2
  <2> QED BY <2>3 DEF NextChoice, Choice
<1>3. step \in [(1 .. N) \X Choice -> Choice]
  BY <1>2
<1>4. \A k \in 1 .. N, v \in Choice : step[<<k, v>>] = NextChoice(cs, count, limit, k, v)
  OBVIOUS
<1> HIDE DEF first, step, N
<1>5. PICK f : DeterminedBy(f, Choice, first, N, step)
  BY <1>1, <1>3, StepByStep
<1>6. \A k \in 1 .. N : k \in 0 .. N /\ k - 1 \in 0 .. N /\ k # 0
  BY <1>1
<1>7. f = F(f)
  <2>1. \A k \in 0 .. N : k = 0 \/ k \in 1 .. N
    BY <1>1
  <2>2. \A k \in 1 .. N : f[k] = NextChoice(cs, count, limit, k, f[k - 1])
    BY <1>4, <1>5, <1>6 DEF DeterminedBy
  <2>3. \A k \in 0 .. N : f[k] = F(f)[k]
    BY <1>5, <1>6, <2>1, <2>2 DEF DeterminedBy
  <2> QED BY <1>5, <2>3 DEF DeterminedBy
<1>8. Selections(cs, count, limit) = CHOOSE g : g = F(g)
  BY DEF Selections, NextChoice, first, N
<1> DEFINE g == Selections(cs, count, limit)
<1>9. g = F(g)
  BY <1>7, <1>8
<1> HIDE DEF g
<1>10. g[0] = first /\ \A k \in 1 .. N : g[k] = NextChoice(cs, count, limit, k, g[k - 1])
  <2>1. 0 \in 0 .. N
    BY <1>1
  <2>2. \A k \in 0 .. N : F(g)[k] = IF k = 0 THEN first ELSE NextChoice(cs, count, limit, k, g[k - 1])
    OBVIOUS
  <2> QED BY <1>6, <1>9, <2>1, <2>2
<1> QED BY <1>10 DEF g, first, N

\* Ranks under a strict total order.
StrictOrder(R, A) ==
    /\ \A c \in A : <<c, c>> \notin R
    /\ \A c, d, e \in A : <<c, d>> \in R /\ <<d, e>> \in R => <<c, e>> \in R
    /\ \A c, d \in A : c = d \/ <<c, d>> \in R \/ <<d, c>> \in R

Below(R, A, c) == {d \in A : <<d, c>> \in R}

LEMMA RanksDiffer ==
  ASSUME NEW A, IsFiniteSet(A), NEW R, StrictOrder(R, A)
  PROVE  /\ \A c \in A : Cardinality(Below(R, A, c)) \in 0 .. Cardinality(A) - 1
         /\ \A c, d \in A : Cardinality(Below(R, A, c)) = Cardinality(Below(R, A, d)) => c = d
<1>1. ASSUME NEW c \in A
      PROVE  /\ IsFiniteSet(Below(R, A, c)) /\ Cardinality(Below(R, A, c)) \in Nat
             /\ c \notin Below(R, A, c) /\ Below(R, A, c) \in SUBSET A
  BY FS_Subset, FS_CardinalityType DEF Below, StrictOrder
<1>2. ASSUME NEW S \in SUBSET A, NEW T \in SUBSET S, NEW x \in S, x \notin T
      PROVE  Cardinality(T) < Cardinality(S)
  <2>1. IsFiniteSet(S) /\ IsFiniteSet(T)
    BY FS_Subset
  <2>2. Cardinality(T) <= Cardinality(S) /\ Cardinality(S) # Cardinality(T)
    BY <1>2, <2>1, FS_Subset
  <2> QED BY <2>1, <2>2, FS_CardinalityType
<1>3. \A c \in A : Cardinality(Below(R, A, c)) \in 0 .. Cardinality(A) - 1
  <2> SUFFICES ASSUME NEW c \in A PROVE Cardinality(Below(R, A, c)) \in 0 .. Cardinality(A) - 1
    OBVIOUS
  <2>1. Cardinality(Below(R, A, c)) < Cardinality(A)
    BY <1>1, <1>2
  <2>2. Cardinality(Below(R, A, c)) \in Nat /\ Cardinality(A) \in Nat
    BY <1>1, FS_CardinalityType
  <2> QED BY <2>1, <2>2
<1>4. ASSUME NEW c \in A, NEW d \in A, <<c, d>> \in R
      PROVE  Cardinality(Below(R, A, c)) < Cardinality(Below(R, A, d))
  <2>1. Below(R, A, c) \subseteq Below(R, A, d) /\ c \in Below(R, A, d)
    BY <1>4 DEF Below, StrictOrder
  <2> QED BY <1>1, <1>2, <2>1
<1>5. ASSUME NEW c \in A, NEW d \in A, Cardinality(Below(R, A, c)) = Cardinality(Below(R, A, d))
      PROVE  c = d
  <2>1. Cardinality(Below(R, A, c)) \in Nat /\ Cardinality(Below(R, A, d)) \in Nat
    BY <1>1
  <2>2. ~(<<c, d>> \in R) /\ ~(<<d, c>> \in R)
    BY <1>4, <1>5, <2>1
  <2> QED BY <2>2 DEF StrictOrder
<1> QED BY <1>3, <1>5

LEMMA EveryRankIsHad ==
  ASSUME NEW A, IsFiniteSet(A), NEW R, StrictOrder(R, A), NEW k \in 1 .. Cardinality(A)
  PROVE  \E c \in A : Cardinality(Below(R, A, c)) = k - 1
<1> DEFINE n == Cardinality(A)
           T == 0 .. n - 1
           f == [c \in A |-> Cardinality(Below(R, A, c))]
<1>1. n \in Nat
  BY FS_CardinalityType
<1>2. IsFiniteSet(T) /\ Cardinality(T) = n
  <2>1. 0 \in Int /\ n - 1 \in Int
    BY <1>1
  <2> HIDE DEF n
  <2>2. IsFiniteSet(T) /\ Cardinality(T) = IF 0 > n - 1 THEN 0 ELSE (n - 1) - 0 + 1
    BY <2>1, FS_Interval
  <2> QED BY <1>1, <2>2
<1>3. f \in Injection(A, T)
  <2>1. f \in [A -> T] /\ \A c, d \in A : f[c] = f[d] => c = d
    BY RanksDiffer
  <2> HIDE DEF f, T
  <2> QED BY <2>1 DEF Injection, IsInjective
<1>4. k - 1 \in T
  BY <1>1
<1> HIDE DEF f, T, n
<1>5. f \in Surjection(A, T)
  BY <1>2, <1>3, FS_Injection DEF n
<1>6. PICK c \in A : f[c] = k - 1
  BY <1>4, <1>5 DEF Surjection
<1> QED BY <1>6 DEF f

\* Candidates to rank: finitely many, of different contents.
Rankable(A) ==
    /\ IsFiniteSet(A) /\ A \subseteq AnyCandidate
    /\ \A c, d \in A : c.hash = d.hash => c = d

Before(A, c) == {d \in A : Precedes(d, c)}

LEMMA PrecedesIsOrder ==
  ASSUME NEW A, Rankable(A)
  PROVE  \A c, d, e \in A :
            /\ ~Precedes(c, c)
            /\ Precedes(c, d) /\ Precedes(d, e) => Precedes(c, e)
            /\ c = d \/ Precedes(c, d) \/ Precedes(d, c)
            /\ Precedes(c, d) => ~Precedes(d, c)
<1>1. \A c \in A : c.source \in Nat /\ c.score \in Nat /\ c.hash \in Nat
  <2>1. \A c \in A : c \in AnyCandidate
    BY DEF Rankable
  <2> QED BY <2>1, ContextAssumption DEF AnyCandidate, ContextAssumption
<1> SUFFICES ASSUME NEW c \in A, NEW d \in A, NEW e \in A
             PROVE  /\ ~Precedes(c, c)
                    /\ Precedes(c, d) /\ Precedes(d, e) => Precedes(c, e)
                    /\ c = d \/ Precedes(c, d) \/ Precedes(d, c)
                    /\ Precedes(c, d) => ~Precedes(d, c)
  OBVIOUS
<1>2. /\ c.source \in Nat /\ c.score \in Nat /\ c.hash \in Nat
      /\ d.source \in Nat /\ d.score \in Nat /\ d.hash \in Nat
      /\ e.source \in Nat /\ e.score \in Nat /\ e.hash \in Nat
  BY <1>1
<1>3. c.hash = d.hash => c = d
  BY DEF Rankable
<1>4. ~Precedes(c, c) /\ (Precedes(c, d) => ~Precedes(d, c))
  BY <1>2 DEF Precedes
<1>5. Precedes(c, d) /\ Precedes(d, e) => Precedes(c, e)
  BY <1>2 DEF Precedes
<1>6. c = d \/ Precedes(c, d) \/ Precedes(d, c)
  BY <1>2, <1>3 DEF Precedes
<1> QED BY <1>4, <1>5, <1>6

\* The order of the ranks has each candidate once, at its rank.
LEMMA OrderOfRanks ==
  ASSUME NEW A, Rankable(A)
  PROVE  /\ InOrder(A) \in Seq(A) /\ InOrder(A) \in Seq(AnyCandidate)
         /\ Len(InOrder(A)) = Cardinality(A) /\ Cardinality(A) \in Nat
         /\ DOMAIN InOrder(A) = 1 .. Cardinality(A)
         /\ \A c \in A : /\ Cardinality(Before(A, c)) + 1 \in 1 .. Cardinality(A)
                         /\ InOrder(A)[Cardinality(Before(A, c)) + 1] = c
<1> DEFINE R == {p \in A \X A : Precedes(p[1], p[2])}
           P(c, k) == c \in A /\ Cardinality(Before(A, c)) = k - 1
           f == [k \in 1 .. Cardinality(A) |-> CHOOSE c : P(c, k)]
<1>1. IsFiniteSet(A) /\ A \subseteq AnyCandidate /\ Cardinality(A) \in Nat
  BY FS_CardinalityType DEF Rankable
<1>2. \A c, d \in A : <<c, d>> \in R <=> Precedes(c, d)
  OBVIOUS
<1> HIDE DEF R
<1>3. StrictOrder(R, A)
  BY <1>2, PrecedesIsOrder DEF StrictOrder
<1>4. \A c \in A : Below(R, A, c) = Before(A, c)
  BY <1>2 DEF Below, Before
<1>5. \A c, d \in A : Cardinality(Before(A, c)) = Cardinality(Before(A, d)) => c = d
  BY <1>1, <1>3, <1>4, RanksDiffer
<1>6. \A c \in A : Cardinality(Before(A, c)) \in 0 .. Cardinality(A) - 1
  BY <1>1, <1>3, <1>4, RanksDiffer
<1>7. \A k \in 1 .. Cardinality(A) : \E c : P(c, k)
  BY <1>1, <1>3, <1>4, EveryRankIsHad
<1>8. InOrder(A) = f
  BY DEF InOrder, Before
<1>9. \A k \in 1 .. Cardinality(A) : f[k] \in A /\ Cardinality(Before(A, f[k])) = k - 1
  <2> SUFFICES ASSUME NEW k \in 1 .. Cardinality(A) PROVE P(f[k], k)
    OBVIOUS
  <2>1. \E c : P(c, k)
    BY <1>7
  <2>2. f[k] = CHOOSE c : P(c, k)
    OBVIOUS
  <2> HIDE DEF P, f
  <2> QED BY <2>1, <2>2
<1>10. DOMAIN f = 1 .. Cardinality(A)
  OBVIOUS
<1> HIDE DEF f, P
<1>11. f \in Seq(A) /\ f \in Seq(AnyCandidate) /\ Len(f) = Cardinality(A)
  <2>1. \A k \in 1 .. Cardinality(A) : f[k] \in A /\ f[k] \in AnyCandidate
    BY <1>1, <1>9
  <2>2. f = [k \in 1 .. Cardinality(A) |-> f[k]]
    BY DEF f
  <2>3. f \in [1 .. Cardinality(A) -> A] /\ f \in [1 .. Cardinality(A) -> AnyCandidate]
    BY <2>1, <2>2
  <2> QED BY <1>1, <2>3
<1>12. ASSUME NEW c \in A
       PROVE  /\ Cardinality(Before(A, c)) + 1 \in 1 .. Cardinality(A)
              /\ f[Cardinality(Before(A, c)) + 1] = c
  <2> DEFINE n == Cardinality(Before(A, c))
  <2>1. n \in 0 .. Cardinality(A) - 1
    BY <1>6
  <2> HIDE DEF n
  <2>2. n + 1 \in 1 .. Cardinality(A) /\ (n + 1) - 1 = n
    BY <1>1, <2>1
  <2>3. f[n + 1] \in A /\ Cardinality(Before(A, f[n + 1])) = n
    BY <1>9, <2>2
  <2> QED BY <1>5, <2>2, <2>3 DEF n
<1> QED BY <1>1, <1>8, <1>10, <1>11, <1>12

HashSet(A) == {c.hash : c \in A}

\* What the packing of the first ranks has come to: W are the winners, R those
\* that wait, P those packed, in the order of list, O those without room.
RanksOK(count, limit, W, R, P, O, list, sum) ==
    /\ R \subseteq W /\ P \cup O = W \ R /\ P \cap O = {}
    /\ \A c \in W \ R, d \in R : Precedes(c, d)
    /\ IsFiniteSet(Units(count, HashSet(P))) /\ sum = Sum(count, HashSet(P))
    /\ \A c \in P : Sum(count, HashSet(Before(P, c))) + count[c.hash] <= limit
    /\ \A c \in O : Sum(count, HashSet(Before(P, c))) + count[c.hash] > limit
    /\ list \in Seq(P) /\ Len(list) = Cardinality(P)
    /\ \A k \in DOMAIN list : Cardinality(Before(P, list[k])) = k - 1
    /\ Selections(InOrder(W), count, limit)[Cardinality(W \ R)] =
          [used |-> sum, selected |-> list]

LEMMA PackRanks ==
  ASSUME NEW count \in [Hashes -> Nat], NEW limit \in Nat, NEW W, NEW R, NEW P, NEW O,
         NEW list, NEW sum, Rankable(W), RanksOK(count, limit, W, R, P, O, list, sum),
         NEW c \in R, \A d \in R \ {c} : Precedes(c, d)
  PROVE  /\ sum \in Nat
         /\ sum + count[c.hash] <= limit =>
               RanksOK(count, limit, W, R \ {c}, P \cup {c}, O, Append(list, c),
                       sum + count[c.hash])
         /\ sum + count[c.hash] > limit =>
               RanksOK(count, limit, W, R \ {c}, P, O \cup {c}, list, sum)
<1> DEFINE Q == P \cup {c}
           S == R \ {c}
           n == Cardinality(W \ R)
<1>1. /\ R \subseteq W /\ P \cup O = W \ R /\ P \cap O = {} /\ P \subseteq W
      /\ \A d \in W \ R, e \in R : Precedes(d, e)
      /\ c \in W /\ c \notin P /\ c \notin O
  BY DEF RanksOK
<1>2. /\ S \subseteq W /\ W \ S = (W \ R) \cup {c} /\ c \notin W \ R
      /\ Q \cup O = W \ S /\ P \cup (O \cup {c}) = W \ S
      /\ Q \cap O = {} /\ P \cap (O \cup {c}) = {}
  BY <1>1
<1>3. \A d \in W \ S, e \in S : Precedes(d, e)
  BY <1>1, <1>2
<1>4. /\ IsFiniteSet(W) /\ IsFiniteSet(P) /\ Cardinality(P) \in Nat
      /\ IsFiniteSet(W \ R) /\ n \in Nat /\ Cardinality(W \ S) = n + 1
      /\ Cardinality(Q) = Cardinality(P) + 1
  <2>1. IsFiniteSet(W) /\ IsFiniteSet(P) /\ IsFiniteSet(W \ R)
    BY <1>1, FS_Subset DEF Rankable
  <2>2. Cardinality((W \ R) \cup {c}) = Cardinality(W \ R) + 1
    BY <1>2, <2>1, FS_AddElement
  <2>3. Cardinality(P \cup {c}) = Cardinality(P) + 1
    BY <1>1, <2>1, FS_AddElement
  <2> QED BY <1>2, <2>1, <2>2, <2>3, FS_CardinalityType
<1>5. /\ \A d \in W \ R : Before(Q, d) = Before(P, d)
      /\ Before(Q, c) = P /\ Before(P, c) = P /\ Before(W, c) = W \ R
  <2>1. \A d \in W : ~Precedes(d, d) /\ \A e \in W : Precedes(d, e) => ~Precedes(e, d)
    BY PrecedesIsOrder
  <2> QED BY <1>1, <2>1 DEF Before
<1>6. /\ c.hash \in Hashes /\ count[c.hash] \in Nat /\ c.hash \notin HashSet(P)
      /\ HashSet(Q) = HashSet(P) \cup {c.hash}
  <2>1. c \in AnyCandidate /\ \A d \in P : d.hash # c.hash
    BY <1>1 DEF Rankable
  <2> QED BY <2>1 DEF AnyCandidate, HashSet
<1>7. /\ IsFiniteSet(Units(count, HashSet(P))) /\ sum = Sum(count, HashSet(P))
      /\ sum \in Nat
      /\ IsFiniteSet(Units(count, HashSet(Q))) /\ sum + count[c.hash] = Sum(count, HashSet(Q))
  <2> DEFINE H == HashSet(P)
             h == c.hash
  <2>1. IsFiniteSet(Units(count, H)) /\ sum = Sum(count, H)
    BY DEF RanksOK
  <2>2. h \notin H /\ count[h] \in Nat /\ HashSet(Q) = H \cup {h}
    BY <1>6
  <2> HIDE DEF H, h, Q
  <2>3. /\ IsFiniteSet(Units(count, H \cup {h}))
        /\ Sum(count, H \cup {h}) = Sum(count, H) + count[h] /\ Sum(count, H) \in Nat
    BY <2>1, <2>2, SumOfMore
  <2> QED BY <2>1, <2>2, <2>3 DEF H, h
<1>8. /\ \A d \in P : Sum(count, HashSet(Before(P, d))) + count[d.hash] <= limit
      /\ \A d \in O : Sum(count, HashSet(Before(P, d))) + count[d.hash] > limit
      /\ Sum(count, HashSet(Before(P, c))) = sum /\ Sum(count, HashSet(Before(Q, c))) = sum
  BY <1>5, <1>7 DEF RanksOK
<1>9. /\ list \in Seq(P) /\ Len(list) = Cardinality(P)
      /\ \A k \in DOMAIN list : Cardinality(Before(P, list[k])) = k - 1
  BY DEF RanksOK
<1> DEFINE f == Selections(InOrder(W), count, limit)
<1>10. /\ f[n] = [used |-> sum, selected |-> list]
       /\ f[n + 1] = IF sum + count[c.hash] > limit THEN f[n]
                     ELSE [used |-> sum + count[c.hash], selected |-> Append(list, c)]
  <2> DEFINE cs == InOrder(W)
  <2>1. f[n] = [used |-> sum, selected |-> list]
    BY DEF RanksOK
  <2>2. cs \in Seq(AnyCandidate) /\ n + 1 \in 1 .. Len(cs) /\ cs[n + 1] = c
    BY <1>1, <1>5, OrderOfRanks
  <2> HIDE DEF cs, n
  <2>3. f[n + 1] = NextChoice(cs, count, limit, n + 1, f[(n + 1) - 1])
    BY <2>2, SelectionSteps DEF cs
  <2>4. (n + 1) - 1 = n
    BY <1>4 DEF n
  <2>5. f[n + 1] = NextChoice(cs, count, limit, n + 1, f[n])
    BY <2>3, <2>4
  <2> HIDE DEF f
  <2>6. NextChoice(cs, count, limit, n + 1, f[n]) =
           IF f[n].used + count[c.hash] > limit THEN f[n]
           ELSE [used |-> f[n].used + count[c.hash], selected |-> Append(f[n].selected, c)]
    BY <2>2 DEF NextChoice
  <2>7. f[n].used = sum /\ f[n].selected = list
    BY <2>1
  <2> QED BY <2>1, <2>5, <2>6, <2>7
<1>11. ASSUME sum + count[c.hash] > limit
       PROVE  RanksOK(count, limit, W, S, P, O \cup {c}, list, sum)
  <2>1. f[Cardinality(W \ S)] = [used |-> sum, selected |-> list]
    BY <1>4, <1>10, <1>11
  <2>2. \A d \in O \cup {c} : Sum(count, HashSet(Before(P, d))) + count[d.hash] > limit
    BY <1>8, <1>11
  <2> HIDE DEF S
  <2> QED BY <1>2, <1>3, <1>7, <1>8, <1>9, <2>1, <2>2 DEF RanksOK
<1>12. ASSUME sum + count[c.hash] <= limit
       PROVE  RanksOK(count, limit, W, S, Q, O, Append(list, c), sum + count[c.hash])
  <2> DEFINE longer == Append(list, c)
  <2>0. ~(sum + count[c.hash] > limit)
    BY <1>6, <1>7, <1>12
  <2>1. f[Cardinality(W \ S)] = [used |-> sum + count[c.hash], selected |-> longer]
    BY <1>4, <1>10, <2>0
  <2>2. /\ \A d \in Q : Sum(count, HashSet(Before(Q, d))) + count[d.hash] <= limit
        /\ \A d \in O : Sum(count, HashSet(Before(Q, d))) + count[d.hash] > limit
    BY <1>1, <1>5, <1>8, <1>12
  <2>3. /\ longer \in Seq(Q) /\ Len(longer) = Len(list) + 1
        /\ DOMAIN longer = DOMAIN list \cup {Len(list) + 1}
        /\ longer[Len(list) + 1] = c /\ \A k \in DOMAIN list : longer[k] = list[k] /\ list[k] \in P
    <3>1. list \in Seq(P) /\ list \in Seq(Q) /\ c \in Q
      BY <1>9
    <3> HIDE DEF Q
    <3> QED BY <3>1, AppendedElement, ElementOf
  <2>4. Len(longer) = Cardinality(Q)
    BY <1>4, <1>9, <2>3
  <2>5. \A k \in DOMAIN longer : Cardinality(Before(Q, longer[k])) = k - 1
    <3>1. \A k \in DOMAIN list : Before(Q, longer[k]) = Before(P, list[k])
      BY <1>1, <1>5, <2>3
    <3>2. Cardinality(Before(Q, longer[Len(list) + 1])) = (Len(list) + 1) - 1
      BY <1>4, <1>5, <1>9, <2>3
    <3> HIDE DEF longer, Q
    <3> QED BY <1>9, <2>3, <3>1, <3>2
  <2>6. /\ S \subseteq W /\ Q \cup O = W \ S /\ Q \cap O = {}
        /\ \A d \in W \ S, e \in S : Precedes(d, e)
        /\ IsFiniteSet(Units(count, HashSet(Q))) /\ sum + count[c.hash] = Sum(count, HashSet(Q))
        /\ longer \in Seq(Q)
    BY <1>2, <1>3, <1>7, <2>3
  <2> HIDE DEF f
  <2> DEFINE total == sum + count[c.hash]
  <2>7. /\ f[Cardinality(W \ S)] = [used |-> total, selected |-> longer]
        /\ total = Sum(count, HashSet(Q))
    BY <2>1, <2>6
  <2> HIDE DEF S, Q, longer, total
  <2>8. RanksOK(count, limit, W, S, Q, O, longer, total)
    BY <2>2, <2>4, <2>5, <2>6, <2>7 DEF RanksOK, f
  <2> QED BY <2>8 DEF longer, total, S, Q
<1> QED BY <1>7, <1>11, <1>12

Of(S) == {candidates[i] : i \in S}
Selected == [k \in DOMAIN items |-> candidates[items[k]]]

\* What the third loop has done so far is what the ranks say.
RankInv ==
    Packing => RanksOK(tokens, budget, Of(Winning), Of(ranked), Of(Packed), Of(OverBudget),
                       Selected, used)

\* The winners are of different contents.
LEMMA WinnersAreRankable ==
  ASSUME InputOK, WinnersInv
  PROVE  /\ Rankable(Of(Winning))
         /\ \A i, j \in Winning : candidates[i].hash = candidates[j].hash => i = j
         /\ \A i, j \in Winning : candidates[i] = candidates[j] => i = j
<1>1. Winning \subseteq Indexes /\ IsFiniteSet(Winning)
  BY WinnersAreIndexes
<1>2. \A i \in Winning : i = winners[candidates[i].hash]
  BY DEF WinnersInv, Winning
<1>3. \A i, j \in Winning : candidates[i].hash = candidates[j].hash => i = j
  BY <1>2
<1>4. \A i \in Winning : candidates[i] \in AnyCandidate
  BY <1>1, InputFacts
<1>5. IsFiniteSet(Of(Winning))
  <2> DEFINE f == [i \in Winning |-> candidates[i]]
             S == Of(Winning)
  <2>1. f \in [Winning -> S] /\ \A c \in S : \E i \in Winning : f[i] = c
    BY DEF Of
  <2> HIDE DEF f, S
  <2>2. f \in Surjection(Winning, S)
    BY <2>1 DEF Surjection
  <2> QED BY <1>1, <2>2, FS_Surjection DEF S
<1>6. Rankable(Of(Winning))
  BY <1>3, <1>4, <1>5 DEF Rankable, Of
<1> QED BY <1>3, <1>6

\* Before the first of the ranks.
LEMMA NoRanks ==
  ASSUME NEW count \in [Hashes -> Nat], NEW limit \in Nat, NEW W, Rankable(W)
  PROVE  RanksOK(count, limit, W, W, {}, {}, <<>>, 0)
<1>1. HashSet({}) = {} /\ Units(count, {}) = {} /\ IsFiniteSet(Units(count, {})) /\ Sum(count, {}) = 0
  BY FS_EmptySet DEF HashSet, Units, Sum
<1>2. W \ W = {} /\ Cardinality({}) = 0
  BY FS_EmptySet
<1>3. Selections(InOrder(W), count, limit)[0] = [used |-> 0, selected |-> <<>>]
  BY OrderOfRanks, SelectionSteps
<1>4. <<>> \in Seq({}) /\ Len(<<>>) = 0 /\ DOMAIN <<>> = {}
  OBVIOUS
<1> QED BY <1>1, <1>2, <1>3, <1>4 DEF RanksOK

LEMMA TokenFacts ==
  ASSUME InputOK
  PROVE  tokens \in [Hashes -> Nat] /\ budget \in Nat
BY ContextAssumption DEF InputOK, ContextAssumption

LEMMA PackKeepsRanks ==
  ASSUME BundleInv, RankInv, Pack
  PROVE  RankInv'
<1>1. PICK i \in ranked :
         /\ \A j \in ranked \ {i} : Precedes(candidates[i], candidates[j])
         /\ ranked' = ranked \ {i}
         /\ \/ /\ Fits(i)
               /\ used' = used + Size(i)
               /\ items' = Append(items, i)
               /\ UNCHANGED omissions
            \/ /\ ~Fits(i)
               /\ omissions' = Append(omissions, Omission(i, "budget", i))
               /\ UNCHANGED <<used, items>>
  BY DEF Pack
<1>2. /\ InputOK /\ WinnersInv /\ ReasonsInv /\ AccountInv /\ Packing
      /\ UNCHANGED <<candidates, tokens, budget, next, winners>>
  BY DEF BundleInv, Pack, input
<1>3. /\ omissions \in Seq(Omissions) /\ items \in Seq(Indexes) /\ ranked \subseteq Winning
      /\ Winning \subseteq Indexes /\ tokens \in [Hashes -> Nat] /\ budget \in Nat
  BY <1>2, WinnersAreIndexes, TokenFacts DEF ReasonsInv, AccountInv
<1>4. Indexes' = Indexes /\ Winning' = Winning /\ \A S : Of(S)' = Of(S)
  BY <1>2 DEF Indexes, Winning, Of
<1> DEFINE c == candidates[i]
           W == Of(Winning)
           R == Of(ranked)
           P == Of(Packed)
           O == Of(OverBudget)
<1>5. /\ Rankable(W) /\ c \in R /\ R \ {c} = Of(ranked \ {i})
      /\ \A d \in R \ {c} : Precedes(c, d)
  <2>1. /\ Rankable(W) /\ \A k, j \in Winning : candidates[k] = candidates[j] => k = j
    BY <1>2, WinnersAreRankable
  <2>2. c \in R /\ R \ {c} = Of(ranked \ {i})
    BY <1>1, <1>3, <2>1 DEF Of
  <2>3. \A d \in Of(ranked \ {i}) : Precedes(c, d)
    BY <1>1 DEF Of
  <2> QED BY <2>1, <2>2, <2>3
<1>6. RanksOK(tokens, budget, W, R, P, O, Selected, used)
  BY <1>2 DEF RankInv
<1>7. /\ used + tokens[c.hash] <= budget =>
            RanksOK(tokens, budget, W, R \ {c}, P \cup {c}, O, Append(Selected, c),
                    used + tokens[c.hash])
      /\ used + tokens[c.hash] > budget =>
            RanksOK(tokens, budget, W, R \ {c}, P, O \cup {c}, Selected, used)
  <2> HIDE DEF c, W, R, P, O
  <2> QED BY <1>3, <1>5, <1>6, PackRanks
<1>8. /\ used \in Nat /\ tokens[c.hash] \in Nat /\ Size(i) = tokens[c.hash]
  BY <1>1, <1>2, <1>3, InputFacts DEF AccountInv, Size
<1>9. /\ Of(Winning)' = W /\ Of(ranked)' = R \ {c}
  BY <1>1, <1>4, <1>5
<1>10. CASE Fits(i)
  <2>1. used' = used + tokens[c.hash] /\ items' = Append(items, i) /\ omissions' = omissions
        /\ used + tokens[c.hash] <= budget
    BY <1>1, <1>8, <1>10 DEF Fits
  <2>2. /\ Len(items') = Len(items) + 1 /\ Len(items) \in Nat
        /\ DOMAIN items' = DOMAIN items \cup {Len(items) + 1} /\ items'[Len(items) + 1] = i
        /\ \A k \in DOMAIN items : items'[k] = items[k]
        /\ DOMAIN items = 1 .. Len(items) /\ DOMAIN items' = 1 .. Len(items) + 1
    BY <1>1, <1>3, <2>1, AppendedElement
  <2>3. Packed' = Packed \cup {i} /\ OverBudget' = OverBudget
    BY <2>1, <2>2 DEF Packed, OverBudget
  <2>4. Of(Packed)' = P \cup {c} /\ Of(OverBudget)' = O
    <3>1. Of(Packed \cup {i}) = P \cup {c}
      BY DEF Of
    <3> QED BY <1>4, <2>3, <3>1
  <2>5. Selected' = Append(Selected, c)
    <3> DEFINE s == Selected
               n == Len(items)
    <3>1. s = [k \in 1 .. n |-> candidates[items[k]]] /\ n \in Nat
      BY <2>2 DEF Selected
    <3>2. s \in Seq(AnyCandidate) /\ Len(s) = n
      <4>0. \A k \in 1 .. n : items[k] \in Indexes
        BY <1>3, <2>2, ElementOf
      <4>1. \A k \in 1 .. n : candidates[items[k]] \in AnyCandidate
        BY <1>2, <4>0, InputFacts
      <4> HIDE DEF s, n
      <4>2. s \in [1 .. n -> AnyCandidate]
        BY <3>1, <4>1
      <4> QED BY <3>1, <4>2
    <3>3. Append(s, c) = [k \in 1 .. n + 1 |-> IF k = n + 1 THEN c ELSE s[k]]
      <4> DEFINE t == Append(s, c)
      <4>1. c \in AnyCandidate
        BY <1>1, <1>2, <1>3, InputFacts
      <4> HIDE DEF s, n, c, t
      <4>2. /\ t \in Seq(AnyCandidate) /\ Len(t) = n + 1 /\ t[n + 1] = c
            /\ DOMAIN s = 1 .. n /\ \A k \in DOMAIN s : t[k] = s[k]
        BY <3>2, <4>1, AppendedElement DEF t
      <4>3. t = [k \in 1 .. n + 1 |-> t[k]]
        BY <3>1, <4>2
      <4>4. \A k \in 1 .. n + 1 : t[k] = IF k = n + 1 THEN c ELSE s[k]
        BY <3>1, <4>2
      <4>5. t = [k \in 1 .. n + 1 |-> IF k = n + 1 THEN c ELSE s[k]]
        BY <4>3, <4>4
      <4> QED BY <4>5 DEF t
    <3>4. Selected' = [k \in 1 .. n + 1 |-> candidates[items'[k]]]
      BY <1>2, <2>2 DEF Selected
    <3>5. \A k \in 1 .. n + 1 : candidates[items'[k]] = IF k = n + 1 THEN c ELSE s[k]
      <4> SUFFICES ASSUME NEW k \in 1 .. n + 1
                   PROVE  candidates[items'[k]] = IF k = n + 1 THEN c ELSE s[k]
        OBVIOUS
      <4>1. k = n + 1 \/ k \in 1 .. n
        BY <2>2
      <4>2. k \in 1 .. n => k # n + 1 /\ s[k] = candidates[items[k]]
        BY <2>2, <3>1
      <4> QED BY <2>2, <4>1, <4>2
    <3> HIDE DEF s, n, c
    <3> QED BY <3>3, <3>4, <3>5 DEF s
  <2>6. RanksOK(tokens, budget, W, R \ {c}, P \cup {c}, O, Append(Selected, c), used + tokens[c.hash])
    BY <1>7, <2>1
  <2>7. tokens' = tokens /\ budget' = budget
    BY <1>2
  <2> HIDE DEF c, W, R, P, O
  <2> QED BY <1>9, <2>1, <2>4, <2>5, <2>6, <2>7 DEF RankInv
<1>11. CASE ~Fits(i)
  <2> DEFINE o == Omission(i, "budget", i)
  <2>1. /\ used' = used /\ items' = items /\ omissions' = Append(omissions, o)
        /\ used + tokens[c.hash] > budget
    BY <1>1, <1>3, <1>8, <1>11 DEF Fits
  <2>2. o \in Omissions /\ o.index = i /\ o.reason = "budget"
    BY <1>1, <1>3 DEF Omission, Omissions
  <2> HIDE DEF o
  <2>3. /\ DOMAIN omissions' = DOMAIN omissions \cup {Len(omissions) + 1}
        /\ omissions'[Len(omissions) + 1] = o
        /\ \A k \in DOMAIN omissions : omissions'[k] = omissions[k]
    BY <1>3, <2>1, <2>2, AppendedElement
  <2>4. Packed' = Packed /\ OverBudget' = OverBudget \cup {i}
    <3>1. {k \in DOMAIN omissions' : omissions'[k].reason = "budget"} =
             {k \in DOMAIN omissions : omissions[k].reason = "budget"} \cup {Len(omissions) + 1}
      BY <2>2, <2>3
    <3> QED BY <2>1, <2>2, <2>3, <3>1 DEF OverBudget, Packed
  <2>5. Of(Packed)' = P /\ Of(OverBudget)' = O \cup {c}
    <3>1. Of(OverBudget \cup {i}) = O \cup {c}
      BY DEF Of
    <3> QED BY <1>4, <2>4, <3>1
  <2>6. Selected' = Selected
    BY <1>2, <2>1 DEF Selected
  <2>7. RanksOK(tokens, budget, W, R \ {c}, P, O \cup {c}, Selected, used)
    BY <1>7, <2>1
  <2>8. tokens' = tokens /\ budget' = budget
    BY <1>2
  <2> HIDE DEF c, W, R, P, O
  <2> QED BY <1>9, <2>1, <2>5, <2>6, <2>7, <2>8 DEF RankInv
<1> QED BY <1>10, <1>11

\* Before the third loop nothing is packed or left out for the budget.
LEMMA UnpackedRanks ==
  ASSUME InputOK, WinnersInv, ranked = Winning, items = <<>>, used = 0,
         \A k \in DOMAIN omissions : omissions[k].reason = "duplicate"
  PROVE  RankInv
<1>1. Packed = {} /\ OverBudget = {} /\ Selected = <<>>
  BY DEF Packed, OverBudget, Selected
<1>2. Of({}) = {}
  BY DEF Of
<1>3. RanksOK(tokens, budget, Of(Winning), Of(Winning), {}, {}, <<>>, 0)
  BY NoRanks, WinnersAreRankable, TokenFacts
<1> QED BY <1>1, <1>2, <1>3 DEF RankInv

LEMMA StepKeepsRanks ==
  ASSUME BundleInv, RankInv, [Next]_vars, BundleInv'
  PROVE  RankInv'
<1>1. InputOK /\ WinnersInv /\ ReasonsInv /\ AccountInv /\ Count \in Nat /\ next \in Nat
  BY InputFacts DEF BundleInv
<1>2. CASE Consider
  <2>1. next <= Count /\ next >= 1 /\ next' = next + 1 /\ Len(candidates') = Count
    BY <1>1, <1>2 DEF Consider, Considering, Count, input, InputOK
  <2>2. ~Packing'
    BY <1>1, <2>1 DEF Packing
  <2> QED BY <2>2 DEF RankInv
<1>3. CASE Record
  <2>1. /\ next \in Count + 1 .. 2 * Count /\ next' = next + 1 /\ Len(candidates') = Count
        /\ ~Packing /\ Recording
    BY <1>1, <1>3, InputFacts DEF Record, Recording, Count, input
  <2>2. CASE next - Count # Count
    <3>1. ~Packing'
      BY <1>1, <2>1, <2>2 DEF Packing
    <3> QED BY <3>1 DEF RankInv
  <2>3. CASE next - Count = Count
    <3>1. /\ ranked' = Winning /\ items' = items /\ used' = used /\ winners' = winners
      BY <1>3, <2>3 DEF Record, Count
    <3>2. ranked' = Winning' /\ items' = <<>> /\ used' = 0
      BY <1>1, <2>1, <3>1 DEF Winning, AccountInv
    <3>3. \A k \in DOMAIN omissions : omissions[k].reason = "duplicate"
      <4>1. omissions \in Seq(Omissions) /\ \A k \in DOMAIN omissions : omissions[k].reason # "budget"
        BY <1>1, <2>1 DEF ReasonsInv
      <4>2. \A k \in DOMAIN omissions : omissions[k] \in Omissions
        BY <4>1, ElementOf
      <4> QED BY <4>1, <4>2 DEF Omissions
    <3>4. omissions' = omissions \/ \E o \in Omissions :
             o.reason = "duplicate" /\ omissions' = Append(omissions, o)
      <4> DEFINE i == next - Count
                 o == Omission(i, "duplicate", winners[candidates[i].hash])
      <4>1. omissions' = omissions \/ omissions' = Append(omissions, o)
        BY <1>3 DEF Record, Count
      <4>2. i \in Indexes /\ i < next
        BY <1>1, <2>1, InputFacts
      <4>3. winners[candidates[i].hash] \in Indexes
        BY <1>1, <4>2 DEF WinnersInv
      <4>4. o \in Omissions /\ o.reason = "duplicate"
        BY <4>2, <4>3 DEF Omission, Omissions
      <4> HIDE DEF o
      <4> QED BY <4>1, <4>4
    <3>5. \A k \in DOMAIN omissions' : omissions'[k].reason = "duplicate"
      <4>1. omissions \in Seq(Omissions)
        BY <1>1 DEF ReasonsInv
      <4>2. ASSUME NEW o \in Omissions, o.reason = "duplicate", omissions' = Append(omissions, o)
            PROVE  \A k \in DOMAIN omissions' : omissions'[k].reason = "duplicate"
        <5>1. /\ DOMAIN omissions' = DOMAIN omissions \cup {Len(omissions) + 1}
              /\ omissions'[Len(omissions) + 1] = o
              /\ \A k \in DOMAIN omissions : omissions'[k] = omissions[k]
          BY <4>1, <4>2, AppendedElement
        <5> QED BY <3>3, <4>2, <5>1
      <4> QED BY <3>3, <3>4, <4>2
    <3>6. Packed' = {} /\ OverBudget' = {} /\ Selected' = <<>>
      BY <3>2, <3>5 DEF Packed, OverBudget, Selected
    <3>7. /\ Of(Winning)' = Of(Winning) /\ Of(ranked)' = Of(Winning)
          /\ Of(Packed)' = {} /\ Of(OverBudget)' = {} /\ tokens' = tokens /\ budget' = budget
      BY <1>3, <3>1, <3>6 DEF Of, Winning, Record, input
    <3>8. RanksOK(tokens, budget, Of(Winning), Of(Winning), {}, {}, <<>>, 0)
      BY <1>1, NoRanks, WinnersAreRankable, TokenFacts
    <3> QED BY <3>2, <3>6, <3>7, <3>8 DEF RankInv
  <2> QED BY <2>2, <2>3
<1>4. CASE Pack
  BY <1>4, PackKeepsRanks
<1>5. CASE UNCHANGED vars
  <2>1. /\ Winning' = Winning /\ Packed' = Packed /\ OverBudget' = OverBudget
        /\ Packing' = Packing /\ Selected' = Selected /\ \A S : Of(S)' = Of(S)
        /\ UNCHANGED <<tokens, budget, ranked, used>>
    BY <1>5 DEF vars, input, Winning, Packed, OverBudget, Packing, Selected, Of
  <2> QED BY <2>1 DEF RankInv
<1> QED BY <1>2, <1>3, <1>4, <1>5 DEF Next

LEMMA SumOfFewer ==
  ASSUME NEW size, NEW T, IsFiniteSet(Units(size, T)), NEW S \in SUBSET T
  PROVE  /\ IsFiniteSet(Units(size, S)) /\ Sum(size, S) \in Nat /\ Sum(size, T) \in Nat
         /\ Sum(size, S) <= Sum(size, T)
<1>1. Units(size, S) \subseteq Units(size, T)
  BY DEF Units
<1>2. IsFiniteSet(Units(size, S)) /\ Cardinality(Units(size, S)) <= Cardinality(Units(size, T))
  BY <1>1, FS_Subset
<1> QED BY <1>2, FS_CardinalityType DEF Sum

\* What the ranks say in the end.
LEMMA RankConsequences ==
  ASSUME BundleInv, RankInv
  PROVE  CountIsOfItems /\ PackingIsSelection /\ OrderIndependent
<1> DEFINE W == Of(Winning)
           P == Of(Packed)
           O == Of(OverBudget)
<1>1. InputOK /\ WinnersInv /\ ReasonsInv /\ AccountInv /\ Rankable(W)
  BY WinnersAreRankable DEF BundleInv
<1>2. tokens \in [Hashes -> Nat] /\ budget \in Nat /\ items \in Seq(Indexes)
  BY <1>1, TokenFacts DEF ReasonsInv
<1>3. \A S : HashSet(Of(S)) = HashesOf(S)
  BY DEF HashSet, Of, HashesOf
<1>4. \A S : TokensOf(S) = Sum(tokens, S)
  BY DEF TokensOf, Sum, Units
<1>5. CountIsOfItems
  <2>1. CASE Packing
    <3>1. used = Sum(tokens, HashSet(P))
      BY <2>1 DEF RankInv, RanksOK
    <3> QED BY <1>3, <1>4, <3>1 DEF CountIsOfItems
  <2>2. CASE ~Packing
    <3>1. used = 0 /\ items = <<>>
      BY <1>1, <2>2 DEF AccountInv
    <3>2. HashesOf(Packed) = {} /\ Sum(tokens, {}) = 0
      BY <3>1, SumOfNone DEF Packed, HashesOf
    <3> QED BY <1>4, <3>1, <3>2 DEF CountIsOfItems
  <2> QED BY <2>1, <2>2
<1>6. ASSUME Done PROVE RanksOK(tokens, budget, W, {}, P, O, Selected, used)
  <2>1. Of(ranked) = {}
    BY <1>6 DEF Done, Of
  <2> QED BY <1>6, <2>1 DEF Done, RankInv
<1>7. PackingIsSelection
  <2> SUFFICES ASSUME Done
               PROVE  Selection(InOrder(W)) = [used |-> used, selected |-> Selected]
    BY DEF PackingIsSelection, Of, Selected
  <2>1. W \ {} = W /\ Len(InOrder(W)) = Cardinality(W)
    BY <1>1, OrderOfRanks
  <2>2. Selections(InOrder(W), tokens, budget)[Cardinality(W \ {})] =
           [used |-> used, selected |-> Selected]
    BY <1>6 DEF RanksOK
  <2> HIDE DEF W
  <2> QED BY <2>1, <2>2 DEF Selection
<1>8. OrderIndependent
  <2> SUFFICES ASSUME Done
               PROVE  /\ P = {c \in W : Sum(tokens, HashSet(Before(P, c))) + tokens[c.hash] <= budget}
                      /\ BundleHash = [k \in DOMAIN InOrder(P) |-> Digested(InOrder(P)[k])]
    <3>1. Done => BestOf({candidates[i] : i \in Indexes}) = W
      <4>1. WinnersAreBest
        BY BestWin
      <4>2. Done => ~Considering
        BY <1>1, InputFacts DEF Done
      <4> QED BY <4>1, <4>2 DEF WinnersAreBest, Of
    <3>2. \A c : TokensOf({d.hash : d \in {d \in P : Precedes(d, c)}}) = Sum(tokens, HashSet(Before(P, c)))
      BY <1>4 DEF HashSet, Before
    <3>3. P = {candidates[i] : i \in Packed}
      BY DEF Of
    <3> HIDE DEF P, W
    <3>4. {c \in W : TokensOf({d.hash : d \in {d \in P : Precedes(d, c)}}) + tokens[c.hash] <= budget}
             = {c \in W : Sum(tokens, HashSet(Before(P, c))) + tokens[c.hash] <= budget}
      BY <3>2
    <3> SUFFICES ASSUME Done
                 PROVE  /\ P = {c \in BestOf({candidates[i] : i \in Indexes}) :
                                   TokensOf({d.hash : d \in {d \in P : Precedes(d, c)}})
                                      + tokens[c.hash] <= budget}
                        /\ BundleHash = [k \in DOMAIN InOrder(P) |-> Digested(InOrder(P)[k])]
      BY <3>3 DEF OrderIndependent
    <3> QED BY <3>1, <3>4
  <2>1. /\ P \cup O = W /\ P \cap O = {} /\ IsFiniteSet(Units(tokens, HashSet(P)))
        /\ \A c \in P : Sum(tokens, HashSet(Before(P, c))) + tokens[c.hash] <= budget
        /\ \A c \in O : Sum(tokens, HashSet(Before(P, c))) + tokens[c.hash] > budget
        /\ Selected \in Seq(P) /\ Len(Selected) = Cardinality(P)
        /\ \A k \in DOMAIN Selected : Cardinality(Before(P, Selected[k])) = k - 1
    BY <1>6 DEF RanksOK
  <2>2. ASSUME NEW c \in W
        PROVE  Sum(tokens, HashSet(Before(P, c))) \in Nat /\ tokens[c.hash] \in Nat
    <3>1. HashSet(Before(P, c)) \in SUBSET HashSet(P)
      BY DEF HashSet, Before
    <3>2. c \in AnyCandidate
      BY <1>1 DEF Rankable
    <3> QED BY <1>2, <2>1, <3>1, <3>2, SumOfFewer DEF AnyCandidate
  <2>3. P = {c \in W : Sum(tokens, HashSet(Before(P, c))) + tokens[c.hash] <= budget}
    <3>1. \A c \in W : c \in O => ~(Sum(tokens, HashSet(Before(P, c))) + tokens[c.hash] <= budget)
      BY <1>2, <2>1, <2>2
    <3> HIDE DEF W, P, O
    <3> QED BY <2>1, <3>1
  <2>4. BundleHash = [k \in DOMAIN InOrder(P) |-> Digested(InOrder(P)[k])]
    <3>1. Rankable(P)
      <4>1. P \subseteq W
        BY <2>1
      <4> HIDE DEF P, W
      <4> QED BY <1>1, <4>1, FS_Subset DEF Rankable
    <3>2. DOMAIN InOrder(P) = 1 .. Cardinality(P)
      BY <3>1, OrderOfRanks
    <3>3. DOMAIN Selected = DOMAIN items /\ DOMAIN Selected = 1 .. Cardinality(P)
      BY <1>2, <2>1 DEF Selected
    <3>4. \A k \in DOMAIN Selected : InOrder(P)[k] = Selected[k]
      <4> SUFFICES ASSUME NEW k \in DOMAIN Selected PROVE InOrder(P)[k] = Selected[k]
        OBVIOUS
      <4>1. Selected[k] \in P /\ Cardinality(Before(P, Selected[k])) = k - 1 /\ k \in Int
        <5>1. k \in 1 .. Cardinality(P) /\ Cardinality(P) \in Nat
          BY <3>1, <3>3, OrderOfRanks
        <5> QED BY <2>1, <5>1, ElementOf
      <4>2. (k - 1) + 1 = k
        BY <4>1
      <4> HIDE DEF P
      <4>3. InOrder(P)[Cardinality(Before(P, Selected[k])) + 1] = Selected[k]
        BY <3>1, <4>1, OrderOfRanks
      <4> QED BY <4>1, <4>2, <4>3
    <3>5. \A k \in DOMAIN items : Selected[k] = candidates[items[k]]
      BY DEF Selected
    <3> HIDE DEF P
    <3> QED BY <3>2, <3>3, <3>4, <3>5 DEF BundleHash
  <2> QED BY <2>3, <2>4
<1> QED BY <1>5, <1>7, <1>8

\* Before the first loop.
LEMMA FreshRanks ==
  ASSUME BundleInv, ranked = {}, items = <<>>, omissions = <<>>, used = 0, winners = <<>>
  PROVE  RankInv
<1>1. DOMAIN winners = {} /\ Winning = {}
  BY DEF Winning
<1> QED BY <1>1, UnpackedRanks DEF BundleInv

\* What the budget is spent on follows from the ranks (build_context), however
\* the providers ordered the candidates and whatever scores they came with: the
\* count is that of the items, they are what select_within_budget selects of the
\* winners, and the set of candidates alone determines them and their digest.
THEOREM PackingFollowsRanks ==
  Spec => [](CountIsOfItems /\ PackingIsSelection /\ OrderIndependent)
<1> DEFINE I == BundleInv /\ RankInv
<1>1. ASSUME Init PROVE I
  BY <1>1, BundleInit, FreshRanks DEF Init
<1>2. ASSUME I, [Next]_vars PROVE I'
  <2>1. BundleInv'
    BY <1>2, ConsiderKeeps, RecordKeeps, PackKeeps, BundleStutters DEF Next
  <2> QED BY <1>2, <2>1, StepKeepsRanks
<1>3. I => CountIsOfItems /\ PackingIsSelection /\ OrderIndependent
  BY RankConsequences
<1> HIDE DEF I
<1> QED BY <1>1, <1>2, <1>3, PTL DEF Spec

-----------------------------------------------------------------------------
(* The inductive invariant of build_baseline_context.                      *)

\* The score of a source: a named path is above what any of 31 terms gives.
LEMMA ScoreFacts ==
  ASSUME NEW s, NEW n \in Nat, n = terms[found[s]]
  PROVE  /\ Score(Signals(s)) \in Nat
         /\ s \in named => Score(Signals(s)) >= 4000
         /\ s \notin named /\ n <= 31 => Score(Signals(s)) <= 3900
         /\ Score(Signals(s)) > 0 <=> s \in named \/ n > 0
<1> DEFINE r == Signals(s)
           count == IF n < 255 THEN n ELSE 255
<1>1. /\ (r.exact <=> n > 0) /\ r.count = count /\ (r.path <=> s \in named) /\ ~r.diagnostic
      /\ r.freshness = 0
  BY DEF Signals, MaxTermCount
<1>2. count \in Nat /\ (n <= 31 => count <= 31) /\ (count > 0 <=> n > 0)
  OBVIOUS
<1> HIDE DEF r, count
<1>3. Score(r) = (IF n > 0 THEN 800 ELSE 0) + 100 * count + (IF s \in named THEN 4000 ELSE 0) + 0 + 0
  <2>1. /\ (IF r.exact THEN 800 ELSE 0) = (IF n > 0 THEN 800 ELSE 0)
        /\ (IF r.path THEN 4000 ELSE 0) = (IF s \in named THEN 4000 ELSE 0)
        /\ (IF r.diagnostic THEN 1000 ELSE 0) = 0
    BY <1>1
  <2> QED BY <1>1, <2>1 DEF Score
<1> QED BY <1>2, <1>3 DEF r

\* What a scan returns is made of sources there are.
LEMMA ScannedSources ==
  ASSUME NEW A \in SUBSET Nat, IsFiniteSet(A)
  PROVE  /\ Len(Scanned(A)) = Cardinality(A) /\ Cardinality(A) \in Nat
         /\ DOMAIN Scanned(A) = 1 .. Cardinality(A)
         /\ Scanned(A) = [k \in 1 .. Cardinality(A) |-> Scanned(A)[k]]
         /\ \A k \in 1 .. Cardinality(A) : \E s \in A :
               Scanned(A)[k] = [source |-> s, hash |-> found[s], score |-> Score(Signals(s))]
<1> DEFINE R == {p \in A \X A : p[1] < p[2]}
           P(s, k) == s \in A /\ Cardinality({p \in A : p < s}) = k - 1
           F(s) == [source |-> s, hash |-> found[s], score |-> Score(Signals(s))]
<1>1. \A s, p \in A : <<p, s>> \in R <=> p < s
  OBVIOUS
<1> HIDE DEF R
<1>2. StrictOrder(R, A)
  BY <1>1 DEF StrictOrder
<1>3. \A s \in A : Below(R, A, s) = {p \in A : p < s}
  BY <1>1 DEF Below
<1>4. Cardinality(A) \in Nat
  BY FS_CardinalityType
<1>5. \A k \in 1 .. Cardinality(A) : \E s : P(s, k)
  <2> SUFFICES ASSUME NEW k \in 1 .. Cardinality(A) PROVE \E s : P(s, k)
    OBVIOUS
  <2>1. PICK s \in A : Cardinality(Below(R, A, s)) = k - 1
    BY <1>2, EveryRankIsHad
  <2> QED BY <1>3, <2>1
<1>6. Scanned(A) = [k \in 1 .. Cardinality(A) |-> F(CHOOSE s : P(s, k))]
  BY DEF Scanned
<1> HIDE DEF F
<1>7. ASSUME NEW k \in 1 .. Cardinality(A) PROVE \E s \in A : Scanned(A)[k] = F(s)
  <2>1. \E s : P(s, k)
    BY <1>5
  <2>2. Scanned(A)[k] = F(CHOOSE s : P(s, k))
    BY <1>6
  <2> HIDE DEF P
  <2>3. P(CHOOSE s : P(s, k), k)
    BY <2>1
  <2> QED BY <2>2, <2>3 DEF P
<1>8. DOMAIN Scanned(A) = 1 .. Cardinality(A) /\ Scanned(A) = [k \in 1 .. Cardinality(A) |-> Scanned(A)[k]]
  BY <1>6
<1>9. Len(Scanned(A)) = Cardinality(A)
  BY <1>4, <1>8
<1> QED BY <1>4, <1>7, <1>8, <1>9 DEF F

\* Where candidates come from.
BaselineInput ==
    /\ named \subseteq Sources /\ DOMAIN found \subseteq Sources
    /\ \A s \in DOMAIN found : found[s] \in Hashes
    /\ \A h \in Hashes : terms[h] \in Nat
    /\ \A i \in Indexes : \E s \in Relevant :
          candidates[i] = [source |-> s, hash |-> found[s], score |-> Score(Signals(s))]

BaselineInv == BundleInv /\ RankInv /\ BaselineInput

LEMMA BaselineStart == BaselineInit => BaselineInv
<1> SUFFICES ASSUME BaselineInit PROVE BaselineInv
  OBVIOUS
<1> USE ContextAssumption, BaselineAssumption DEF ContextAssumption, BaselineAssumption
<1>1. PICK A \in SUBSET Sources : found \in [A -> Hashes]
  BY DEF BaselineInit
<1>2. /\ named \subseteq Sources /\ DOMAIN found \subseteq Sources
      /\ \A s \in DOMAIN found : found[s] \in Hashes
      /\ \A h \in Hashes : terms[h] \in Nat
  BY <1>1 DEF BaselineInit
<1>3. Relevant \subseteq DOMAIN found /\ Relevant \in SUBSET Nat /\ IsFiniteSet(Relevant)
  <2>1. Relevant \subseteq DOMAIN found
    BY DEF Relevant
  <2> QED BY <1>2, <2>1, FS_Subset
<1> DEFINE n == Cardinality(Relevant)
<1>4. /\ Len(candidates) = n /\ n \in Nat /\ DOMAIN candidates = 1 .. n
      /\ candidates = [k \in 1 .. n |-> candidates[k]]
      /\ \A k \in 1 .. n : \E s \in Relevant :
            candidates[k] = [source |-> s, hash |-> found[s], score |-> Score(Signals(s))]
  <2>1. candidates = Scanned(Relevant)
    BY DEF BaselineInit
  <2> DEFINE B == Relevant
  <2>2. B \in SUBSET Nat /\ IsFiniteSet(B)
    BY <1>3
  <2> HIDE DEF B
  <2>3. /\ Len(Scanned(B)) = Cardinality(B) /\ Cardinality(B) \in Nat
        /\ DOMAIN Scanned(B) = 1 .. Cardinality(B)
        /\ Scanned(B) = [k \in 1 .. Cardinality(B) |-> Scanned(B)[k]]
        /\ \A k \in 1 .. Cardinality(B) : \E s \in B :
              Scanned(B)[k] = [source |-> s, hash |-> found[s], score |-> Score(Signals(s))]
    BY <2>2, ScannedSources
  <2> QED BY <2>1, <2>3 DEF B
<1> HIDE DEF n
<1>5. \A k \in 1 .. n : candidates[k] \in AnyCandidate
  <2> SUFFICES ASSUME NEW k \in 1 .. n PROVE candidates[k] \in AnyCandidate
    OBVIOUS
  <2>1. PICK s \in Relevant :
           candidates[k] = [source |-> s, hash |-> found[s], score |-> Score(Signals(s))]
    BY <1>4
  <2>2. s \in Nat /\ found[s] \in Hashes /\ terms[found[s]] \in Nat
    BY <1>2, <1>3
  <2>3. Score(Signals(s)) \in Nat
    BY <2>2, ScoreFacts
  <2> QED BY <2>1, <2>2, <2>3 DEF AnyCandidate
<1>6. candidates \in Seq(AnyCandidate)
  <2>1. candidates \in [1 .. n -> AnyCandidate]
    BY <1>4, <1>5
  <2> QED BY <1>4, <2>1
<1>7. InputOK
  <2>1. next = 1 /\ tokens \in [Hashes -> Tokens] /\ budget \in Budgets
    BY DEF BaselineInit
  <2>2. 1 \in 1 .. 2 * Count + 1
    BY <1>4 DEF Count
  <2> QED BY <1>6, <2>1, <2>2 DEF InputOK
<1>8. BundleInv /\ RankInv
  BY <1>7, FreshBundle, FreshRanks DEF BaselineInit
<1> QED BY <1>2, <1>4, <1>8 DEF BaselineInv, BaselineInput, Indexes

\* What an omission for the budget is.
LEMMA OverBudgetFacts ==
  ASSUME BundleInv, NEW k \in DOMAIN omissions, omissions[k].reason = "budget"
  PROVE  omissions[k].index \in Indexes /\ omissions[k].index \in OverBudget
<1>1. omissions \in Seq(Omissions)
  BY DEF BundleInv, ReasonsInv
<1>2. omissions[k] \in Omissions
  BY <1>1, ElementOf
<1> QED BY <1>2 DEF Omissions, OverBudget

LEMMA NamedAreKept ==
  ASSUME BaselineInv
  PROVE  NamedPathKept
<1> SUFFICES ASSUME \A h \in Hashes : terms[h] <= 31, Done,
                    NEW k \in DOMAIN omissions, omissions[k].reason = "budget",
                    candidates[omissions[k].index].source \in named
             PROVE  TokensOf(HashesOf({j \in Packed \ {omissions[k].index} :
                                          candidates[j].source \in named}))
                       + Size(omissions[k].index) > budget
  BY DEF NamedPathKept, NamedPathNeverCrowdedOut
<1> DEFINE i == omissions[k].index
           c == candidates[i]
           P == Of(Packed)
           O == Of(OverBudget)
           other == {j \in Packed \ {i} : candidates[j].source \in named}
<1>1. /\ BundleInv /\ RankInv /\ BaselineInput /\ InputOK /\ Packing /\ i \in Indexes
      /\ i \in OverBudget /\ c \in O
  BY OverBudgetFacts DEF BaselineInv, BundleInv, Done, Of
<1>2. RanksOK(tokens, budget, Of(Winning), Of(ranked), P, O, Selected, used)
  BY <1>1 DEF RankInv
<1>3. /\ IsFiniteSet(Units(tokens, HashSet(P))) /\ P \cap O = {}
      /\ Sum(tokens, HashSet(Before(P, c))) + tokens[c.hash] > budget
  BY <1>1, <1>2 DEF RanksOK
<1>4. ASSUME NEW j \in Indexes
      PROVE  /\ candidates[j].source \in named => candidates[j].score >= 4000
             /\ candidates[j].source \notin named => candidates[j].score <= 3900
             /\ candidates[j].score \in Nat
  <2>1. PICK s \in Relevant :
           candidates[j] = [source |-> s, hash |-> found[s], score |-> Score(Signals(s))]
    BY <1>1 DEF BaselineInput
  <2>2. s \in DOMAIN found
    BY DEF Relevant
  <2>3. terms[found[s]] \in Nat /\ terms[found[s]] <= 31
    BY <1>1, <2>2 DEF BaselineInput
  <2> QED BY <2>1, <2>3, ScoreFacts
<1>5. Packed \subseteq Indexes
  <2>1. items \in Seq(Indexes)
    BY <1>1 DEF BundleInv, ReasonsInv
  <2> QED BY <2>1, ElementOf DEF Packed
<1>6. HashSet(Before(P, c)) \subseteq HashesOf(other)
  <2> SUFFICES ASSUME NEW d \in P, Precedes(d, c) PROVE d.hash \in HashesOf(other)
    BY DEF HashSet, Before
  <2>1. PICK j \in Packed : d = candidates[j]
    BY DEF Of
  <2>2. j # i
    BY <1>1, <1>3, <2>1
  <2>3. d.score >= c.score
    BY <1>1, <1>4, <1>5, <2>1 DEF Precedes
  <2>4. candidates[j].source \in named
    <3>1. c.score >= 4000 /\ c.score \in Nat /\ d.score \in Nat
      BY <1>1, <1>4, <1>5, <2>1
    <3> HIDE DEF c
    <3>2. ~(d.score <= 3900)
      BY <2>3, <3>1
    <3> QED BY <1>4, <1>5, <2>1, <3>2
  <2> QED BY <2>1, <2>2, <2>4 DEF HashesOf
<1>7. HashesOf(other) \subseteq HashSet(P)
  BY DEF HashesOf, HashSet, Of
<1>8. /\ Sum(tokens, HashSet(Before(P, c))) <= Sum(tokens, HashesOf(other))
      /\ Sum(tokens, HashSet(Before(P, c))) \in Nat /\ Sum(tokens, HashesOf(other)) \in Nat
  <2> DEFINE S == HashSet(Before(P, c))
             T == HashesOf(other)
             U == HashSet(P)
  <2>1. IsFiniteSet(Units(tokens, U)) /\ S \in SUBSET T /\ T \in SUBSET U
    BY <1>3, <1>6, <1>7
  <2> HIDE DEF S, T, U
  <2>2. IsFiniteSet(Units(tokens, T)) /\ Sum(tokens, T) \in Nat
    BY <2>1, SumOfFewer
  <2>3. Sum(tokens, S) \in Nat /\ Sum(tokens, S) <= Sum(tokens, T)
    BY <2>1, <2>2, SumOfFewer
  <2> QED BY <2>2, <2>3 DEF S, T
<1>9. /\ TokensOf(HashesOf(other)) = Sum(tokens, HashesOf(other)) /\ Size(i) = tokens[c.hash]
      /\ Size(i) \in Nat /\ budget \in Nat
  <2>1. TokensOf(HashesOf(other)) = Sum(tokens, HashesOf(other))
    BY DEF TokensOf, Sum, Units
  <2> QED BY <1>1, <2>1, InputFacts DEF Size
<1> HIDE DEF other, P, c
<1>10. TokensOf(HashesOf(other)) + Size(i) > budget
  BY <1>3, <1>8, <1>9
<1> QED BY <1>10 DEF other

LEMMA MatchesGetBudget ==
  ASSUME BaselineInv
  PROVE  BudgetGoesToMatches
<1> SUFFICES ASSUME NEW i \in Packed
             PROVE  \/ candidates[i].source \in named \/ terms[candidates[i].hash] > 0
                    \/ \A s \in DOMAIN found : s \notin named /\ terms[found[s]] = 0
  BY DEF BudgetGoesToMatches
<1>1. BaselineInput /\ i \in Indexes
  <2>1. items \in Seq(Indexes)
    BY DEF BaselineInv, BundleInv, ReasonsInv
  <2> QED BY <2>1, ElementOf DEF Packed, BaselineInv
<1>2. PICK s \in Relevant :
         candidates[i] = [source |-> s, hash |-> found[s], score |-> Score(Signals(s))]
  BY <1>1 DEF BaselineInput
<1>3. \A p \in DOMAIN found : /\ terms[found[p]] \in Nat
                              /\ Score(Signals(p)) > 0 <=> p \in named \/ terms[found[p]] > 0
  BY <1>1, ScoreFacts DEF BaselineInput
<1> DEFINE matching == {p \in DOMAIN found : Score(Signals(p)) > 0}
<1>4. CASE matching = {}
  BY <1>3, <1>4
<1>5. CASE matching # {}
  <2>1. s \in matching
    BY <1>5 DEF Relevant
  <2> QED BY <1>2, <1>3, <2>1
<1> QED BY <1>4, <1>5

\* What the parts of a score add up to.
LEMMA TotalSteps ==
  ASSUME NEW N \in Nat, NEW parts, Len(parts) = N, \A k \in 1 .. N : parts[k].value \in Nat
  PROVE  \E f : /\ f[0] = 0 /\ \A k \in 1 .. N : f[k] = f[k - 1] + parts[k].value
                /\ Total(parts) = f[N]
<1> DEFINE F(f) == [k \in 0 .. N |-> IF k = 0 THEN 0 ELSE f[k - 1] + parts[k].value]
           step == [x \in (1 .. N) \X Nat |-> x[2] + parts[x[1]].value]
<1>1. step \in [(1 .. N) \X Nat -> Nat] /\ 0 \in Nat
  OBVIOUS
<1>2. \A k \in 1 .. N, v \in Nat : step[<<k, v>>] = v + parts[k].value
  OBVIOUS
<1> HIDE DEF step
<1>3. PICK f : DeterminedBy(f, Nat, 0, N, step)
  BY <1>1, StepByStep
<1>4. \A k \in 1 .. N : k \in 0 .. N /\ k - 1 \in 0 .. N /\ k # 0
  OBVIOUS
<1>5. f = F(f)
  <2>1. \A k \in 0 .. N : k = 0 \/ k \in 1 .. N
    OBVIOUS
  <2>2. \A k \in 1 .. N : f[k] = f[k - 1] + parts[k].value
    BY <1>2, <1>3, <1>4 DEF DeterminedBy
  <2>3. \A k \in 0 .. N : f[k] = F(f)[k]
    BY <1>3, <1>4, <2>1, <2>2 DEF DeterminedBy
  <2> QED BY <1>3, <2>3 DEF DeterminedBy
<1> DEFINE g == CHOOSE g : g = F(g)
<1>6. g = F(g)
  BY <1>5
<1>7. Total(parts) = g[N]
  BY DEF Total
<1> HIDE DEF g
<1>8. g[0] = 0 /\ \A k \in 1 .. N : g[k] = g[k - 1] + parts[k].value
  <2>1. 0 \in 0 .. N
    OBVIOUS
  <2>2. \A k \in 0 .. N : F(g)[k] = IF k = 0 THEN 0 ELSE g[k - 1] + parts[k].value
    OBVIOUS
  <2> QED BY <1>4, <1>6, <2>1, <2>2
<1> QED BY <1>7, <1>8

LEMMA PartsAddUp ==
  ASSUME NEW s, NEW n \in Nat, n = terms[found[s]]
  PROVE  /\ Total(Breakdown(Signals(s))) = Score(Signals(s))
         /\ \A k \in DOMAIN Breakdown(Signals(s)) : Breakdown(Signals(s))[k].value > 0
<1> DEFINE r == Signals(s)
           count == IF n < 255 THEN n ELSE 255
           exact == [kind |-> "exact_match", value |-> 800]
           cover == [kind |-> "query_coverage", value |-> 100 * count]
           path == [kind |-> "path_match", value |-> 4000]
           parts == Breakdown(r)
<1>1. /\ (r.exact <=> n > 0) /\ r.count = count /\ (r.path <=> s \in named) /\ ~r.diagnostic
      /\ r.freshness = 0
  BY DEF Signals, MaxTermCount
<1>2. count \in Nat /\ (count > 0 <=> n > 0)
  OBVIOUS
<1>3. exact.value = 800 /\ cover.value = 100 * count /\ path.value = 4000
  OBVIOUS
<1> HIDE DEF r, count, exact, cover, path
<1>4. Score(r) = (IF n > 0 THEN 800 ELSE 0) + 100 * count + (IF s \in named THEN 4000 ELSE 0) + 0 + 0
  <2>1. /\ (IF r.exact THEN 800 ELSE 0) = (IF n > 0 THEN 800 ELSE 0)
        /\ (IF r.path THEN 4000 ELSE 0) = (IF s \in named THEN 4000 ELSE 0)
        /\ (IF r.diagnostic THEN 1000 ELSE 0) = 0
    BY <1>1
  <2> QED BY <1>1, <2>1 DEF Score
<1> DEFINE first == IF n > 0 THEN <<exact>> ELSE <<>>
           second == IF n > 0 THEN <<cover>> ELSE <<>>
           third == IF s \in named THEN <<path>> ELSE <<>>
           S == {exact, cover, path}
<1>5. parts = first \o second \o third \o <<>> \o <<>>
  <2> DEFINE p1 == IF r.exact THEN <<[kind |-> "exact_match", value |-> 800]>> ELSE <<>>
             p2 == IF r.count > 0 THEN <<[kind |-> "query_coverage", value |-> 100 * r.count]>> ELSE <<>>
             p3 == IF r.path THEN <<[kind |-> "path_match", value |-> 4000]>> ELSE <<>>
             p4 == IF r.diagnostic THEN <<[kind |-> "diagnostic_priority", value |-> 1000]>> ELSE <<>>
             p5 == IF r.freshness > 0 THEN <<[kind |-> "freshness", value |-> r.freshness]>> ELSE <<>>
  <2>1. parts = p1 \o p2 \o p3 \o p4 \o p5
    BY DEF Breakdown
  <2>2. cover = [kind |-> "query_coverage", value |-> 100 * r.count]
    BY <1>1 DEF cover
  <2>3. p1 = first
    BY <1>1 DEF exact
  <2>4. p2 = second
    BY <1>1, <1>2, <2>2
  <2>5. p3 = third
    BY <1>1 DEF path
  <2>6. p4 = <<>> /\ p5 = <<>>
    BY <1>1
  <2> HIDE DEF p1, p2, p3, p4, p5, first, second, third, parts
  <2> QED BY <2>1, <2>3, <2>4, <2>5, <2>6
<1> HIDE DEF parts
<1>6. first \in Seq(S) /\ second \in Seq(S) /\ third \in Seq(S)
  <2>1. exact \in S /\ cover \in S /\ path \in S
    OBVIOUS
  <2> HIDE DEF S
  <2>2. <<>> \in Seq(S) /\ \A a \in S : <<a>> \in Seq(S)
    OBVIOUS
  <2> QED BY <2>1, <2>2
<1>7. parts = first \o second \o third
  <2> HIDE DEF first, second, third, S
  <2>1. first \o second \o third \in Seq(S)
    BY <1>6
  <2>2. \A t \in Seq(S) : t \o <<>> = t
    OBVIOUS
  <2> QED BY <1>5, <2>1, <2>2
<1>8. /\ Len(parts) = Len(first) + Len(second) + Len(third)
      /\ parts \in Seq(S)
      /\ \A k \in 1 .. Len(first) : parts[k] = first[k]
      /\ \A k \in 1 .. Len(second) : parts[Len(first) + k] = second[k]
      /\ \A k \in 1 .. Len(third) : parts[Len(first) + Len(second) + k] = third[k]
  <2> HIDE DEF first, second, third, S
  <2> QED BY <1>6, <1>7
<1>9. /\ Len(first) = (IF n > 0 THEN 1 ELSE 0) /\ Len(second) = (IF n > 0 THEN 1 ELSE 0)
      /\ Len(third) = (IF s \in named THEN 1 ELSE 0)
      /\ n > 0 => first[1] = exact /\ second[1] = cover
      /\ s \in named => third[1] = path
  OBVIOUS
<1> HIDE DEF first, second, third
<1> DEFINE N == Len(parts)
<1>10. N \in Nat /\ \A k \in 1 .. N : parts[k] \in S
  BY <1>8, ElementOf
<1>11. \A p \in S : p.value \in Nat /\ (n > 0 => p.value > 0)
  BY <1>2, <1>3
<1> HIDE DEF S, N
<1>12. PICK f : /\ f[0] = 0 /\ \A k \in 1 .. N : f[k] = f[k - 1] + parts[k].value
                /\ Total(parts) = f[N]
  <2>1. \A k \in 1 .. N : parts[k].value \in Nat
    BY <1>10, <1>11
  <2> QED BY <1>10, <2>1, TotalSteps DEF N
<1>13. /\ N >= 1 => f[1] = parts[1].value
       /\ N >= 2 => f[2] = f[1] + parts[2].value
       /\ N >= 3 => f[3] = f[2] + parts[3].value
  <2>1. /\ N >= 1 => f[1] = f[1 - 1] + parts[1].value
        /\ N >= 2 => f[2] = f[2 - 1] + parts[2].value
        /\ N >= 3 => f[3] = f[3 - 1] + parts[3].value
    BY <1>10, <1>12
  <2>2. N >= 1 => parts[1].value \in Nat
    BY <1>10, <1>11
  <2> QED BY <1>12, <2>1, <2>2
<1>14. CASE n > 0 /\ s \in named
  <2>1. N = 3 /\ parts[1] = exact /\ parts[2] = cover /\ parts[3] = path
    BY <1>8, <1>9, <1>14 DEF N
  <2>2. Total(parts) = 800 + 100 * count + 4000
    BY <1>2, <1>3, <1>12, <1>13, <2>1
  <2>3. Total(parts) = Score(r)
    BY <1>2, <1>4, <1>14, <2>2
  <2>4. \A k \in DOMAIN parts : parts[k].value > 0
    BY <1>8, <1>10, <1>11, <1>14 DEF N
  <2> QED BY <2>3, <2>4 DEF parts, r
<1>15. CASE n > 0 /\ s \notin named
  <2>1. N = 2 /\ parts[1] = exact /\ parts[2] = cover
    BY <1>8, <1>9, <1>15 DEF N
  <2>2. Total(parts) = 800 + 100 * count
    BY <1>2, <1>3, <1>12, <1>13, <2>1
  <2>3. Total(parts) = Score(r)
    BY <1>2, <1>4, <1>15, <2>2
  <2>4. \A k \in DOMAIN parts : parts[k].value > 0
    BY <1>8, <1>10, <1>11, <1>15 DEF N
  <2> QED BY <2>3, <2>4 DEF parts, r
<1>16. CASE ~(n > 0) /\ s \in named
  <2>1. N = 1 /\ parts[1] = path
    BY <1>8, <1>9, <1>16 DEF N
  <2>2. Total(parts) = 4000
    BY <1>3, <1>12, <1>13, <2>1
  <2>3. Total(parts) = Score(r)
    BY <1>2, <1>4, <1>16, <2>2
  <2>4. \A k \in DOMAIN parts : parts[k].value > 0
    <3> DEFINE t == parts
    <3>1. t \in Seq(S) /\ Len(t) = 1
      BY <1>8, <2>1 DEF N
    <3> HIDE DEF t
    <3>2. DOMAIN t = 1 .. 1
      BY <3>1
    <3> QED BY <1>3, <2>1, <3>2 DEF t
  <2> QED BY <2>3, <2>4 DEF parts, r
<1>17. CASE ~(n > 0) /\ s \notin named
  <2>1. N = 0
    BY <1>8, <1>9, <1>17 DEF N
  <2>2. Total(parts) = 0
    BY <1>12, <2>1
  <2>3. Total(parts) = Score(r)
    BY <1>2, <1>4, <1>17, <2>2
  <2>4. \A k \in DOMAIN parts : parts[k].value > 0
    BY <1>8, <2>1 DEF N
  <2> QED BY <2>3, <2>4 DEF parts, r
<1> QED BY <1>14, <1>15, <1>16, <1>17

\* An item's score is made of its parts.
LEMMA PartsExplain ==
  ASSUME BaselineInv
  PROVE  ScoresExplained
<1> SUFFICES ASSUME NEW i \in Packed
             PROVE  /\ Total(Breakdown(Signals(candidates[i].source))) = candidates[i].score
                    /\ \A k \in DOMAIN Breakdown(Signals(candidates[i].source)) :
                          Breakdown(Signals(candidates[i].source))[k].value > 0
  BY DEF ScoresExplained
<1>1. BaselineInput /\ i \in Indexes
  <2>1. items \in Seq(Indexes)
    BY DEF BaselineInv, BundleInv, ReasonsInv
  <2> QED BY <2>1, ElementOf DEF Packed, BaselineInv
<1>2. PICK s \in Relevant :
         candidates[i] = [source |-> s, hash |-> found[s], score |-> Score(Signals(s))]
  BY <1>1 DEF BaselineInput
<1>3. candidates[i].source = s /\ candidates[i].score = Score(Signals(s))
  BY <1>2
<1>4. terms[found[s]] \in Nat
  BY <1>1 DEF BaselineInput, Relevant
<1>5. /\ Total(Breakdown(Signals(s))) = Score(Signals(s))
      /\ \A k \in DOMAIN Breakdown(Signals(s)) : Breakdown(Signals(s))[k].value > 0
  BY <1>4, PartsAddUp
<1> QED BY <1>3, <1>5

LEMMA BaselineKeeps ==
  ASSUME BaselineInv, [BaselineNext]_baselineVars
  PROVE  BaselineInv'
<1>1. BundleInv /\ RankInv /\ BaselineInput
  BY DEF BaselineInv
<1>2. [Next]_vars /\ UNCHANGED <<named, terms, found>>
  BY DEF BaselineNext, baselineVars
<1>3. UNCHANGED candidates
  BY <1>2 DEF Next, Consider, Record, Pack, vars, input
<1>4. BundleInv'
  BY <1>1, <1>2, ConsiderKeeps, RecordKeeps, PackKeeps, BundleStutters DEF Next
<1>5. RankInv'
  BY <1>1, <1>2, <1>4, StepKeepsRanks
<1>6. /\ \A s : Signals(s)' = Signals(s)
      /\ Relevant' = Relevant /\ Indexes' = Indexes
  BY <1>2, <1>3 DEF Signals, Relevant, Indexes
<1>7. BaselineInput'
  BY <1>1, <1>2, <1>3, <1>6 DEF BaselineInput
<1> QED BY <1>4, <1>5, <1>7 DEF BaselineInv

\* What build_baseline_context packs follows from what the query names and
\* mentions: besides the above, a named path is never crowded out by what is
\* merely mentioned, as long as no content has more than 31 of the terms; no
\* budget goes to what is not mentioned when something is; and each score is
\* the sum of the parts that its item reports.
THEOREM BudgetIsSpentByRank == BaselineSpec => []BudgetFollowsRanks
<1>1. BaselineInv => BudgetFollowsRanks
  BY RankConsequences, NamedAreKept, MatchesGetBudget, PartsExplain
  DEF BaselineInv, BudgetFollowsRanks
<1> QED BY <1>1, BaselineStart, BaselineKeeps, PTL DEF BaselineSpec

=============================================================================
