---------------------------- MODULE AuditLogProofs ----------------------------
(***************************************************************************)
(* What the audit log promises, for any number of writers and entries:      *)
(* writers that take turns write one chain, up to the first line a crash    *)
(* ruined, and verify() detects the edits of it that leave hashes alone.    *)
(* Whether they take turns or not, an anchor holds of every log that is     *)
(* unedited and verifies, and shows whatever was removed from the end.      *)
(***************************************************************************)
EXTENDS AuditLog, SequenceTheorems, TLAPS

\* Every line can be read.
Whole(lines) == \A i \in DOMAIN lines : Readable(lines[i])

\* Lines, stamps and tails are what they are written as (no set of hashes is
\* named: a hash contains the hash before it).
Shapes ==
  /\ \E S : file \in Seq(S)
  /\ \E T : tail \in [Writers -> T]
  /\ stamps \in Nat
  /\ ragged \in BOOLEAN
  /\ harm \in HarmKinds \cup {"none"}

IsLine(l) == l = [seq |-> l.seq, stamp |-> l.stamp, prev |-> l.prev, hash |-> l.hash]

\* An entry says which it is, and its digest covers all it says.
Sealed(l) ==
  /\ l.seq \in Nat /\ l.stamp \in Nat \ {0}
  /\ l.hash = Digest(l.seq, l.stamp, l.prev)

\* Up to the first ruined line every entry is in its place; behind it none is, since a
\* writer counts the entry that was lost with the line.
ChainSoFar ==
  /\ \A i \in 1..Len(file) : IsLine(file[i])
  /\ \A i \in 1..Len(file) : Readable(file[i]) => Sealed(file[i]) /\ file[i].seq >= i
  /\ \A i \in 1..Len(file) : (\A j \in 1..i : Readable(file[j])) => Linked(file, i)
  /\ ragged => Len(file) > 0

\* Whoever has the log open is not behind, and knows its true end if no line is ruined.
TailsAreTrue ==
  \A w \in Writers :
    tail[w] # Closed =>
      /\ tail[w].seq \in Nat /\ tail[w].seq >= Len(file)
      /\ Whole(file) => tail[w] = TailOf(file)

OneOpen == \A v, w \in Writers : tail[v] # Closed /\ tail[w] # Closed => v = w

Bad(lines, i) == ~(Readable(lines[i]) /\ Linked(lines, i))
Detected == \E i \in 1..Len(file) : Bad(file, i)

InTurns ==
  /\ Shapes
  /\ harm = "none" => OneOpen /\ ChainSoFar /\ TailsAreTrue
  /\ harm \in {"edit", "drop", "repeat", "swap"} => Detected

\* Of writers that ever had the log open together, nothing is said here.
AuditInv == overlapped \/ InTurns
------------------------------------------------------------------------------
(* Lemmas about lines. *)

\* Appending a line keeps the lines there are.
LEMMA AppendKeeps ==
  ASSUME NEW S, NEW lines \in Seq(S), NEW e
  PROVE  /\ Append(lines, e) \in Seq(S \cup {e})
         /\ Len(Append(lines, e)) = Len(lines) + 1
         /\ Len(lines) \in Nat
         /\ \A i \in 1..Len(lines) : Append(lines, e)[i] = lines[i]
         /\ Append(lines, e)[Len(lines) + 1] = e
<1>1. lines \in Seq(S \cup {e})
  BY SeqMonotonic
<1> QED BY <1>1, AppendProperties, LenProperties

\* Whether a line is in its place depends only on it and the line before.
LEMMA LinkKept ==
  ASSUME NEW a, NEW b, NEW i, a[i] = b[i], i # 1 => a[i - 1] = b[i - 1]
  PROVE  /\ Linked(a, i) <=> Linked(b, i)
         /\ Bad(a, i) <=> Bad(b, i)
<1>1. HashBefore(a, i) = HashBefore(b, i)
  BY DEF HashBefore
<1> QED BY <1>1 DEF Linked, Bad

\* So a line's place in the chain, good or bad, is not changed by later ones.
LEMMA AppendKeepsLinks ==
  ASSUME NEW S, NEW lines \in Seq(S), NEW e, NEW i \in 1..Len(lines)
  PROVE  /\ Linked(Append(lines, e), i) <=> Linked(lines, i)
         /\ Bad(Append(lines, e), i) <=> Bad(lines, i)
<1>1. Append(lines, e)[i] = lines[i] /\ Len(lines) \in Nat
  BY AppendKeeps
<1>2. i # 1 => Append(lines, e)[i - 1] = lines[i - 1]
  <2>1. i # 1 => i - 1 \in 1..Len(lines)
    BY <1>1
  <2> QED BY <2>1, AppendKeeps
<1> QED BY <1>1, <1>2, LinkKept

\* A file without lines is whole; a whole file's lines can all be read.
LEMMA WholeLines ==
  ASSUME NEW S, NEW lines \in Seq(S)
  PROVE  Whole(lines) <=> \A i \in 1..Len(lines) : Readable(lines[i])
BY LenProperties DEF Whole

\* The entry append() builds on the true end of the chain continues it.
LEMMA EntryContinues ==
  ASSUME NEW S, NEW lines \in Seq(S), NEW n \in Nat \ {0},
         Len(lines) > 0 => Linked(lines, Len(lines))
  PROVE  Linked(Append(lines, EntryAfter(TailOf(lines), n)), Len(lines) + 1)
<1> DEFINE e == EntryAfter(TailOf(lines), n)
           new == Append(lines, e)
<1>1. Len(lines) \in Nat /\ new[Len(lines) + 1] = e
  BY AppendKeeps
<1>2. e.stamp = n /\ e.hash = Digest(e.seq, n, e.prev)
  BY DEF EntryAfter
<1>3. e.seq = Len(lines) + 1 /\ e.prev = HashBefore(new, Len(lines) + 1)
  <2>1. CASE Len(lines) = 0
    <3>1. lines = <<>>
      BY <2>1, EmptySeq
    <3> QED BY <2>1, <3>1 DEF EntryAfter, TailOf, Beginning, HashBefore
  <2>2. CASE Len(lines) > 0
    <3>1. lines # <<>>
      BY <2>2, EmptySeq
    <3>2. TailOf(lines) = [seq |-> Len(lines), hash |-> lines[Len(lines)].hash]
      BY <2>2, <3>1 DEF TailOf, HeadOf, Linked
    <3>3. new[Len(lines)] = lines[Len(lines)]
      BY <1>1, <2>2, AppendKeeps
    <3> QED BY <1>1, <2>2, <3>2, <3>3 DEF EntryAfter, HashBefore
  <2> QED BY <1>1, <2>1, <2>2
<1>4. Linked(new, Len(lines) + 1)
  <2> HIDE DEF e
  <2> QED BY <1>1, <1>2, <1>3 DEF Linked
<1> QED BY <1>4

\* What append() writes is an entry, one further than the tail it was built on.
LEMMA EntryIsSealed ==
  ASSUME NEW t, t.seq \in Nat, NEW n \in Nat \ {0}
  PROVE  /\ IsLine(EntryAfter(t, n)) /\ Sealed(EntryAfter(t, n))
         /\ EntryAfter(t, n).seq = t.seq + 1
         /\ HeadOf(EntryAfter(t, n)).seq = t.seq + 1
BY DEF EntryAfter, IsLine, Sealed, HeadOf
------------------------------------------------------------------------------
(* Lemmas about edits: of what the writers wrote, each leaves a line out of place. *)

\* A line that moved up is out of place there.
LEMMA MovedUpIsBad ==
  ASSUME ChainSoFar, Len(file) \in Nat,
         NEW i \in 1..Len(file), NEW lines, NEW j \in Nat, j < i, lines[j] = file[i]
  PROVE  Bad(lines, j)
<1>1. Readable(file[i]) => file[i].seq \in Nat /\ file[i].seq >= i
  BY DEF ChainSoFar, Sealed
<1>2. Readable(file[i]) => file[i].seq # j
  BY <1>1
<1> QED BY <1>2 DEF Bad, Linked

\* No line has two places.
LEMMA RepeatedIsBad ==
  ASSUME NEW lines, NEW i \in Nat, lines[i] = lines[i + 1]
  PROVE  Bad(lines, i) \/ Bad(lines, i + 1)
<1>1. lines[i].seq # i \/ lines[i + 1].seq # i + 1
  OBVIOUS
<1> QED BY <1>1 DEF Bad, Linked

\* Three sequences in a row, of which the second is one line: what is around the seam.
LEMMA ThreeParts ==
  ASSUME NEW S, NEW a \in Seq(S), NEW l \in Seq(S), NEW b \in Seq(S), NEW n \in Nat \ {0},
         Len(a) = n - 1, Len(l) = 1, Len(b) > 0
  PROVE  /\ a \o l \o b \in Seq(S)
         /\ n + 1 \in 1..Len(a \o l \o b)
         /\ (a \o l \o b)[n] = l[1]
         /\ (a \o l \o b)[n + 1] = b[1]
<1>1. PICK c \in Seq(S) : c = a \o l /\ Len(c) = Len(a) + Len(l) /\ c[n] = l[1]
  <2>1. /\ a \o l \in Seq(S)
        /\ Len(a \o l) = Len(a) + Len(l)
        /\ \A j \in 1..Len(a) + Len(l) : (a \o l)[j] = IF j <= Len(a) THEN a[j] ELSE l[j - Len(a)]
    BY ConcatProperties
  <2>2. n \in 1..Len(a) + Len(l) /\ ~(n <= Len(a)) /\ n - Len(a) = 1
    OBVIOUS
  <2> QED BY <2>1, <2>2
<1>2. /\ c \o b \in Seq(S)
      /\ Len(c \o b) = Len(c) + Len(b)
      /\ \A j \in 1..Len(c) + Len(b) : (c \o b)[j] = IF j <= Len(c) THEN c[j] ELSE b[j - Len(c)]
  BY ConcatProperties
<1>3. Len(c) = n /\ Len(b) \in Nat
  BY <1>1, LenProperties
<1>4. (c \o b)[n] = c[n] /\ (c \o b)[n + 1] = b[1] /\ n + 1 \in 1..Len(c \o b)
  BY <1>2, <1>3
<1> QED BY <1>1, <1>2, <1>4

\* A line inserted before itself is there twice.
LEMMA InsertRepeats ==
  ASSUME NEW S, NEW lines \in Seq(S), NEW i \in 1..Len(lines)
  PROVE  /\ InsertAt(lines, i, lines[i]) \in Seq(S)
         /\ i + 1 \in 1..Len(InsertAt(lines, i, lines[i]))
         /\ InsertAt(lines, i, lines[i])[i] = lines[i]
         /\ InsertAt(lines, i, lines[i])[i + 1] = lines[i]
<1> DEFINE a == SubSeq(lines, 1, i - 1)
           l == <<lines[i]>>
           b == SubSeq(lines, i, Len(lines))
<1>1. Len(lines) \in Nat /\ i \in Nat \ {0} /\ \A j \in 1..Len(lines) : lines[j] \in S
  BY LenProperties, ElementOfSeq
<1>2. a \in Seq(S) /\ Len(a) = i - 1
  BY <1>1, SubSeqProperties
<1>3. b \in Seq(S) /\ Len(b) > 0 /\ b[1] = lines[i]
  BY <1>1, SubSeqProperties
<1>4. l \in Seq(S) /\ Len(l) = 1 /\ l[1] = lines[i]
  BY <1>1
<1>5. InsertAt(lines, i, lines[i]) = a \o l \o b
  BY DEF InsertAt
<1> HIDE DEF a, l, b
<1>6. /\ a \o l \o b \in Seq(S)
      /\ i + 1 \in 1..Len(a \o l \o b)
      /\ (a \o l \o b)[i] = l[1]
      /\ (a \o l \o b)[i + 1] = b[1]
  BY ONLY <1>1, <1>2, <1>3, <1>4, ThreeParts
<1> QED BY <1>3, <1>4, <1>5, <1>6

\* An entry whose content changed no longer agrees with its digest.
LEMMA EditedIsBad ==
  ASSUME ChainSoFar, Len(file) \in Nat,
         NEW i \in 1..Len(file), NEW lines,
         lines[i].seq = file[i].seq, lines[i].prev = file[i].prev,
         lines[i].hash = file[i].hash, lines[i].stamp = 0
  PROVE  Bad(lines, i)
<1>1. CASE ~Readable(file[i])
  BY <1>1 DEF Bad, Readable
<1>2. CASE Readable(file[i])
  <2>1. file[i].stamp # 0 /\ file[i].hash = <<file[i].seq, file[i].stamp, file[i].prev>>
    BY <1>2 DEF ChainSoFar, Sealed, Digest
  <2>2. lines[i].hash # <<lines[i].seq, lines[i].stamp, lines[i].prev>>
    BY <2>1
  <2> QED BY <2>2 DEF Bad, Linked, Digest
<1> QED BY <1>1, <1>2
------------------------------------------------------------------------------
(* The invariant. *)

\* An empty log.
LEMMA InitAudit == Init => AuditInv
<1> SUFFICES ASSUME Init PROVE InTurns
  BY DEF AuditInv
<1>1. file = <<>> /\ Len(file) = 0 /\ file \in Seq({})
  BY EmptySeq DEF Init
<1>2. \E S : file \in Seq(S)
  BY <1>1
<1>3. tail \in [Writers -> {Closed}] /\ \A w \in Writers : tail[w] = Closed
  BY DEF Init
<1>4. \E T : tail \in [Writers -> T]
  BY <1>3
<1>5. Shapes
  BY <1>2, <1>4 DEF Init, Shapes
<1>6. ChainSoFar /\ TailsAreTrue /\ OneOpen
  BY <1>1, <1>3 DEF Init, ChainSoFar, TailsAreTrue, OneOpen
<1> QED BY <1>5, <1>6 DEF Init, InTurns

\* As long as nothing is written, lines stay as good, or bad, as they are.
LEMMA Unwritten ==
  ASSUME UNCHANGED <<file, ragged>>
  PROVE  /\ ChainSoFar => ChainSoFar'
         /\ Detected => Detected'
         /\ TailOf(file)' = TailOf(file) /\ (Whole(file)' <=> Whole(file))
<1>1. ChainSoFar => ChainSoFar'
  BY DEF ChainSoFar, IsLine, Sealed, Readable, Linked, HashBefore
<1>2. Detected => Detected'
  BY DEF Detected, Bad, Readable, Linked, HashBefore
<1>3. TailOf(file)' = TailOf(file) /\ (Whole(file)' <=> Whole(file))
  BY DEF TailOf, HeadOf, Whole, Readable
<1> QED BY <1>1, <1>2, <1>3

\* Opening and closing a log change nothing but who has it open.
LEMMA OpenStep ==
  ASSUME InTurns, NEW w \in Writers, Open(w), ~overlapped'
  PROVE  InTurns'
<1>1. /\ harm = "none" => \A v \in Writers : tail[v] = Closed
      /\ TailReadable(file)
      /\ tail' = [tail EXCEPT ![w] = TailOf(file)]
      /\ UNCHANGED <<file, ragged, stamps, anchors, harm, lost>>
  BY DEF Open
<1>2. PICK T : tail \in [Writers -> T]
  BY DEF InTurns, Shapes
<1>3. /\ tail' \in [Writers -> T \cup {TailOf(file)}]
      /\ tail'[w] = TailOf(file)
      /\ harm = "none" => \A v \in Writers : v # w => tail'[v] = Closed
  BY <1>1, <1>2
<1>4. Shapes'
  <2>1. \E U : tail' \in [Writers -> U]
    BY <1>3
  <2> QED BY <1>1, <2>1 DEF InTurns, Shapes
<1>5. harm = "none" => OneOpen'
  BY <1>3 DEF OneOpen
<1>6. ASSUME harm = "none" PROVE TailsAreTrue'
  <2>1. TailOf(file).seq \in Nat /\ TailOf(file).seq >= Len(file)
    <3>1. PICK S : file \in Seq(S)
      BY DEF InTurns, Shapes
    <3>2. CASE file = <<>>
      BY <3>2, EmptySeq DEF TailOf, Beginning
    <3>3. CASE file # <<>>
      <4>1. Len(file) \in 1..Len(file)
        BY <3>1, <3>3, EmptySeq, LenProperties
      <4>2. Sealed(file[Len(file)]) /\ file[Len(file)].seq >= Len(file)
        BY <1>1, <1>6, <3>3, <4>1 DEF InTurns, ChainSoFar, TailReadable
      <4> QED BY <3>3, <4>2 DEF TailOf, HeadOf, Sealed
    <3> QED BY <3>2, <3>3
  <2> QED BY <1>1, <1>3, <1>6, <2>1, Unwritten DEF TailsAreTrue
<1> QED BY <1>1, <1>4, <1>5, <1>6, Unwritten DEF InTurns

\* A log that is closed keeps its end.
LEMMA CloseStep ==
  ASSUME InTurns, NEW w \in Writers, Close(w)
  PROVE  InTurns'
<1>1. /\ tail' = [tail EXCEPT ![w] = Closed]
      /\ UNCHANGED <<file, ragged, stamps, anchors, harm, lost, overlapped>>
  BY DEF Close
<1>2. PICK T : tail \in [Writers -> T]
  BY DEF InTurns, Shapes
<1>3. /\ tail' \in [Writers -> T \cup {Closed}]
      /\ \A v \in Writers : tail'[v] = Closed \/ tail'[v] = tail[v]
  BY <1>1, <1>2
<1>4. Shapes'
  <2>1. \E U : tail' \in [Writers -> U]
    BY <1>3
  <2> QED BY <1>1, <2>1 DEF InTurns, Shapes
<1>5. OneOpen => OneOpen'
  BY <1>3 DEF OneOpen
<1>6. TailsAreTrue => TailsAreTrue'
  BY <1>1, <1>3, Unwritten DEF TailsAreTrue
<1> QED BY <1>1, <1>4, <1>5, <1>6, Unwritten DEF InTurns

\* A line written to the log, whole or torn, by a writer that is not behind.
LEMMA WriteStep ==
  ASSUME InTurns, NEW S, file \in Seq(S), NEW line, file' = Written(line), harm' = harm,
         ragged' \in BOOLEAN, IsLine(line),
         harm = "none" =>
           /\ Readable(line) => Sealed(line) /\ line.seq >= Len(file) + 1
           /\ Whole(file) /\ Readable(line) => Linked(Append(file, line), Len(file) + 1)
  PROVE  /\ \E U : file' \in Seq(U)
         /\ harm = "none" => /\ ChainSoFar'
                             /\ Whole(file') => Whole(file) /\ file' = Append(file, line)
                             /\ Len(file') <= Len(file) + 1
         /\ Detected => Detected'
<1>1. Len(file) \in Nat /\ ragged \in BOOLEAN
  BY AppendKeeps DEF InTurns, Shapes
<1>0. file \in Seq(S \cup {Torn})
  BY SeqMonotonic
<1>2. \A i : Bad(file, i)' <=> Bad(file', i)
  BY DEF Bad, Readable, Linked, HashBefore
<1>3. ChainSoFar' <=>
        /\ \A i \in 1..Len(file') : IsLine(file'[i])
        /\ \A i \in 1..Len(file') : Readable(file'[i]) => Sealed(file'[i]) /\ file'[i].seq >= i
        /\ \A i \in 1..Len(file') : (\A j \in 1..i : Readable(file'[j])) => Linked(file', i)
        /\ ragged' => Len(file') > 0
  BY DEF ChainSoFar, IsLine, Readable, Sealed, Linked, HashBefore
<1>4. CASE ragged /\ Len(file) > 0
  <2>1. file' = [file EXCEPT ![Len(file)] = Torn] /\ Len(file) \in 1..Len(file)
    BY <1>1, <1>4 DEF Written
  <2>2. /\ file' \in Seq(S \cup {Torn}) /\ Len(file') = Len(file) /\ file'[Len(file)] = Torn
        /\ \A i \in 1..Len(file) : i # Len(file) => file'[i] = file[i]
    BY <1>0, <2>1, ExceptSeq
  <2>3. IsLine(Torn) /\ ~Readable(Torn)
    BY DEF IsLine, Torn, Readable
  <2>4. ~Whole(file')
    BY <2>1, <2>2, <2>3, WholeLines
  <2>5. ASSUME harm = "none" PROVE ChainSoFar'
    <3>1. ChainSoFar
      BY <2>5 DEF InTurns
    <3>2. \A i \in 1..Len(file) : IsLine(file'[i])
      BY <2>2, <2>3, <3>1 DEF ChainSoFar
    <3>3. \A i \in 1..Len(file) : Readable(file'[i]) => Sealed(file'[i]) /\ file'[i].seq >= i
      BY <2>2, <2>3, <3>1 DEF ChainSoFar
    <3>4. ASSUME NEW i \in 1..Len(file), \A j \in 1..i : Readable(file'[j])
          PROVE  Linked(file', i)
      <4>1. i < Len(file)
        BY <1>1, <2>2, <2>3, <3>4
      <4>2. \A j \in 1..i : j \in 1..Len(file) /\ file'[j] = file[j]
        BY <1>1, <2>2, <4>1
      <4>3. i \in 1..i /\ (i # 1 => i - 1 \in 1..i)
        OBVIOUS
      <4>4. Linked(file, i)
        BY <3>1, <3>4, <4>2 DEF ChainSoFar
      <4> QED BY <4>2, <4>3, <4>4, LinkKept
    <3> QED BY <1>3, <1>4, <2>2, <3>2, <3>3, <3>4
  <2>6. Detected => Detected'
    BY <1>2, <2>1, <2>2, <2>3 DEF Detected, Bad
  <2> QED BY <1>1, <2>2, <2>4, <2>5, <2>6
<1>5. CASE ragged /\ Len(file) = 0
  <2>1. file' = file
    BY <1>5, EmptySeq DEF Written
  <2>2. harm # "none"
    BY <1>5 DEF InTurns, ChainSoFar
  <2>3. Detected => Detected'
    BY <1>2, <2>1 DEF Detected
  <2> QED BY <2>1, <2>2, <2>3
<1>6. CASE ~ragged
  <2>1. file' = Append(file, line)
    BY <1>6 DEF Written
  <2>2. /\ file' \in Seq(S \cup {line}) /\ Len(file') = Len(file) + 1
        /\ file'[Len(file) + 1] = line
        /\ \A i \in 1..Len(file) : file'[i] = file[i]
    BY <2>1, AppendKeeps
  <2>3. Whole(file') => Whole(file) /\ Readable(line)
    <3>1. Whole(file') => \A i \in 1..Len(file) + 1 : Readable(file'[i])
      BY <2>2, WholeLines
    <3> QED BY <1>1, <2>2, <3>1, WholeLines
  <2>4. ASSUME harm = "none" PROVE ChainSoFar'
    <3>1. ChainSoFar
      BY <2>4 DEF InTurns
    <3>2. \A i \in 1..Len(file') : i \in 1..Len(file) \/ i = Len(file) + 1
      BY <1>1, <2>2
    <3>3. \A i \in 1..Len(file') : IsLine(file'[i])
      BY <2>2, <3>1, <3>2 DEF ChainSoFar
    <3>4. \A i \in 1..Len(file') : Readable(file'[i]) => Sealed(file'[i]) /\ file'[i].seq >= i
      BY <2>2, <2>4, <3>1, <3>2 DEF ChainSoFar
    <3>5. ASSUME NEW i \in 1..Len(file'), \A j \in 1..i : Readable(file'[j])
          PROVE  Linked(file', i)
      <4>1. CASE i \in 1..Len(file)
        <5>1. \A j \in 1..i : j \in 1..Len(file) /\ file'[j] = file[j]
          BY <1>1, <2>2, <4>1
        <5>2. Linked(file, i)
          BY <3>1, <3>5, <4>1, <5>1 DEF ChainSoFar
        <5> QED BY <2>1, <4>1, <5>2, AppendKeepsLinks
      <4>2. CASE i = Len(file) + 1
        <5>1. \A j \in 1..Len(file) : Readable(file[j])
          BY <1>1, <2>2, <3>5, <4>2
        <5>2. Readable(line)
          BY <1>1, <2>2, <3>5, <4>2
        <5> QED BY <2>1, <2>4, <4>2, <5>1, <5>2, WholeLines
      <4> QED BY <3>2, <4>1, <4>2
    <3>6. Len(file') > 0
      BY <1>1, <2>2
    <3> QED BY <1>3, <3>3, <3>4, <3>5, <3>6
  <2>5. Detected => Detected'
    <3> SUFFICES ASSUME NEW i \in 1..Len(file), Bad(file, i) PROVE Detected'
      BY DEF Detected
    <3>1. Bad(file', i) /\ i \in 1..Len(file')
      BY <1>1, <2>1, <2>2, AppendKeepsLinks
    <3> QED BY <1>2, <3>1 DEF Detected
  <2> QED BY <1>1, <2>1, <2>2, <2>3, <2>4, <2>5
<1> QED BY <1>1, <1>4, <1>5, <1>6

\* An entry appended by a writer that is not behind.
LEMMA AppendStep ==
  ASSUME InTurns, NEW w \in Writers, AppendEntry(w)
  PROVE  InTurns'
<1> DEFINE e == EntryAfter(tail[w], stamps + 1)
<1>1. /\ tail[w] # Closed
      /\ file' = Written(e)
      /\ tail' = [tail EXCEPT ![w] = HeadOf(e)]
      /\ ragged' = FALSE
      /\ stamps' = stamps + 1
      /\ UNCHANGED <<anchors, harm, lost, overlapped>>
  BY DEF AppendEntry
<1>2. PICK S : file \in Seq(S)
  BY DEF InTurns, Shapes
<1>3. PICK T : tail \in [Writers -> T]
  BY DEF InTurns, Shapes
<1>4. /\ tail' \in [Writers -> T \cup {HeadOf(e)}]
      /\ tail'[w] = HeadOf(e)
      /\ \A v \in Writers : v # w => tail'[v] = tail[v]
  BY <1>1, <1>3
<1>5. ASSUME harm = "none"
      PROVE  /\ Sealed(e) /\ e.seq \in Nat /\ e.seq >= Len(file) + 1 /\ HeadOf(e).seq = e.seq
             /\ Whole(file) => Linked(Append(file, e), Len(file) + 1)
  <2>1. /\ tail[w].seq \in Nat /\ tail[w].seq >= Len(file)
        /\ Whole(file) => tail[w] = TailOf(file)
    BY <1>1, <1>5 DEF InTurns, TailsAreTrue
  <2>2. stamps + 1 \in Nat \ {0} /\ Len(file) \in Nat
    BY <1>2, LenProperties DEF InTurns, Shapes
  <2>3. Sealed(e) /\ e.seq = tail[w].seq + 1 /\ HeadOf(e).seq = tail[w].seq + 1
    BY <2>1, <2>2, EntryIsSealed
  <2>4. ASSUME Whole(file) PROVE Linked(Append(file, e), Len(file) + 1)
    <3>1. Len(file) > 0 => Linked(file, Len(file))
      BY <1>2, <1>5, <2>2, <2>4, WholeLines DEF InTurns, ChainSoFar
    <3> QED BY <1>2, <2>1, <2>2, <2>4, <3>1, EntryContinues
  <2> HIDE DEF e
  <2> QED BY <2>1, <2>2, <2>3, <2>4
<1>0. IsLine(e)
  BY DEF EntryAfter, IsLine
<1> HIDE DEF e
<1>6. /\ \E U : file' \in Seq(U)
      /\ harm = "none" => /\ ChainSoFar'
                          /\ Whole(file') => Whole(file) /\ file' = Append(file, e)
                          /\ Len(file') <= Len(file) + 1
      /\ Detected => Detected'
  BY <1>1, <1>2, <1>5, <1>0, WriteStep
<1>7. Shapes'
  <2>1. \E U : tail' \in [Writers -> U]
    BY <1>4
  <2>2. ragged' \in BOOLEAN
    BY <1>1
  <2>3. stamps' \in Nat
    BY <1>1 DEF InTurns, Shapes
  <2>4. harm' \in HarmKinds \cup {"none"}
    BY <1>1 DEF InTurns, Shapes
  <2> QED BY <1>6, <2>1, <2>2, <2>3, <2>4 DEF Shapes
<1>8. OneOpen => OneOpen'
  <2>1. \A v \in Writers : tail'[v] # Closed => tail[v] # Closed
    BY <1>1, <1>4
  <2> QED BY <2>1 DEF OneOpen
<1>9. harm = "none" => TailsAreTrue'
  <2> SUFFICES ASSUME harm = "none", NEW v \in Writers, tail'[v] # Closed
               PROVE  /\ tail'[v].seq \in Nat /\ tail'[v].seq >= Len(file')
                      /\ Whole(file') => tail'[v] = TailOf(file')
    BY DEF TailsAreTrue, TailOf, HeadOf, Whole, Readable
  <2>1. tail'[v] = HeadOf(e)
    BY <1>1, <1>4 DEF InTurns, OneOpen
  <2>2. Len(file) \in Nat /\ Len(file') \in Nat
    BY <1>2, <1>6, LenProperties
  <2>3. HeadOf(e).seq \in Nat /\ HeadOf(e).seq >= Len(file')
    <3>1. HeadOf(e).seq \in Nat /\ HeadOf(e).seq >= Len(file) + 1 /\ Len(file') <= Len(file) + 1
      BY <1>5, <1>6
    <3> QED BY <2>2, <3>1
  <2>4. ASSUME Whole(file') PROVE HeadOf(e) = TailOf(file')
    <3>1. file' = Append(file, e)
      BY <1>6, <2>4
    <3>2. Len(file') = Len(file) + 1 /\ file'[Len(file')] = e
      BY <1>2, <3>1, AppendKeeps
    <3>3. file' # <<>>
      BY <2>2, <3>2, EmptySeq
    <3> QED BY <3>2, <3>3 DEF TailOf
  <2> QED BY <2>1, <2>3, <2>4
<1> QED BY <1>1, <1>6, <1>7, <1>8, <1>9 DEF InTurns

\* A writer that dies in the middle of a line, or before its newline.
LEMMA TearStep ==
  ASSUME InTurns, NEW w \in Writers, NEW kind, TearEntry(w, kind)
  PROVE  InTurns'
<1> DEFINE e == EntryAfter(tail[w], stamps + 1)
           line == IF kind = "part" THEN Torn ELSE e
<1>1. /\ tail[w] # Closed
      /\ file' = Written(line)
      /\ ragged' = TRUE
      /\ tail' = [tail EXCEPT ![w] = Closed]
      /\ stamps' = stamps + 1
      /\ UNCHANGED <<anchors, harm, lost, overlapped>>
  BY DEF TearEntry
<1>2. PICK S : file \in Seq(S)
  BY DEF InTurns, Shapes
<1>3. PICK T : tail \in [Writers -> T]
  BY DEF InTurns, Shapes
<1>4. /\ tail' \in [Writers -> T \cup {Closed}]
      /\ \A v \in Writers : tail'[v] # Closed => v # w /\ tail'[v] = tail[v]
  BY <1>1, <1>3
<1>5. ASSUME harm = "none"
      PROVE  /\ Sealed(e) /\ e.seq >= Len(file) + 1
             /\ Whole(file) => Linked(Append(file, e), Len(file) + 1)
  <2>1. /\ tail[w].seq \in Nat /\ tail[w].seq >= Len(file)
        /\ Whole(file) => tail[w] = TailOf(file)
    BY <1>1, <1>5 DEF InTurns, TailsAreTrue
  <2>2. stamps + 1 \in Nat \ {0} /\ Len(file) \in Nat
    BY <1>2, LenProperties DEF InTurns, Shapes
  <2>3. Sealed(e) /\ e.seq = tail[w].seq + 1
    BY <2>1, <2>2, EntryIsSealed
  <2>4. ASSUME Whole(file) PROVE Linked(Append(file, e), Len(file) + 1)
    <3>1. Len(file) > 0 => Linked(file, Len(file))
      BY <1>2, <1>5, <2>2, <2>4, WholeLines DEF InTurns, ChainSoFar
    <3> QED BY <1>2, <2>1, <2>2, <2>4, <3>1, EntryContinues
  <2> HIDE DEF e
  <2> QED BY <2>1, <2>2, <2>3, <2>4
<1>6. ~Readable(Torn) /\ IsLine(Torn) /\ IsLine(e)
  BY DEF Readable, Torn, IsLine, EntryAfter
<1> HIDE DEF e
<1>7. /\ IsLine(line)
      /\ harm = "none" =>
           /\ Readable(line) => Sealed(line) /\ line.seq >= Len(file) + 1
           /\ Whole(file) /\ Readable(line) => Linked(Append(file, line), Len(file) + 1)
  BY <1>5, <1>6
<1> HIDE DEF line
<1>8. /\ \E U : file' \in Seq(U)
      /\ harm = "none" => ChainSoFar'
      /\ Detected => Detected'
  BY <1>1, <1>2, <1>7, WriteStep
<1>9. Shapes'
  <2>1. \E U : tail' \in [Writers -> U]
    BY <1>4
  <2> QED BY <1>1, <1>8, <2>1 DEF InTurns, Shapes
<1>10. harm = "none" => OneOpen' /\ TailsAreTrue'
  <2>1. harm = "none" => \A v \in Writers : tail'[v] = Closed
    BY <1>1, <1>4 DEF InTurns, OneOpen
  <2> QED BY <2>1 DEF OneOpen, TailsAreTrue
<1> QED BY <1>1, <1>8, <1>9, <1>10 DEF InTurns

\* Anchoring a head changes nothing here.
LEMMA AnchorStep ==
  ASSUME InTurns, NEW w \in Writers, Anchor(w)
  PROVE  InTurns'
<1>1. UNCHANGED <<file, ragged, tail, stamps, harm>>
  BY DEF Anchor
<1>2. Shapes' /\ (OneOpen => OneOpen')
  BY <1>1 DEF InTurns, Shapes, OneOpen
<1>3. TailsAreTrue => TailsAreTrue'
  BY <1>1, Unwritten DEF TailsAreTrue
<1> QED BY <1>1, <1>2, <1>3, Unwritten DEF InTurns

\* Whatever an edit makes of the file, it leaves a line out of place, except
\* that what goes from the end does not.
LEMMA HarmStep ==
  ASSUME InTurns, Harm
  PROVE  InTurns'
<1> USE AuditAssumption
<1>1. PICK i \in DOMAIN file :
        \/ EditEntry(i) \/ DropEntry(i) \/ RepeatEntry(i) \/ SwapEntries(i)
        \/ Truncate(i) \/ Rewrite(i)
  BY DEF Harm
<1>2. PICK S : file \in Seq(S)
  BY DEF InTurns, Shapes
<1>3. Len(file) \in Nat /\ i \in 1..Len(file) /\ i \in Nat
  BY <1>2, LenProperties
<1>4. /\ harm = "none"
      /\ harm' \in Harms
      /\ harm' \in HarmKinds
      /\ harm' # "none"
      /\ ragged' \in {ragged, FALSE}
      /\ stamps' \in {stamps, stamps + 1}
      /\ UNCHANGED tail
  BY <1>1 DEF EditEntry, DropEntry, RepeatEntry, SwapEntries, Truncate, Rewrite,
              Shortened, Altered, Harmed, HarmKinds
<1>5. ChainSoFar /\ ragged' \in BOOLEAN /\ stamps' \in Nat
  <2>1. ragged \in BOOLEAN /\ stamps \in Nat /\ ChainSoFar
    BY <1>4 DEF InTurns, Shapes
  <2>2. ragged' \in BOOLEAN
    BY ONLY <1>4, <2>1, Zenon
  <2>3. stamps' \in Nat
    BY ONLY <1>4, <2>1
  <2> QED BY <2>1, <2>2, <2>3
<1>6. SUFFICES /\ \E U : file' \in Seq(U)
               /\ harm' \notin {"truncate", "rewrite"} => \E j \in 1..Len(file') : Bad(file', j)
  <2>1. \A j : Bad(file', j) <=> Bad(file, j)'
    BY DEF Bad, Linked, HashBefore
  <2> QED BY <1>4, <1>5, <2>1 DEF InTurns, Shapes, Detected
<1>7. CASE EditEntry(i)
  <2>1. file' = [file EXCEPT ![i].stamp = 0]
    BY <1>7 DEF EditEntry, Altered, Harmed
  <2> DEFINE new == [file[i] EXCEPT !.stamp = 0]
  <2>2. file' = [file EXCEPT ![i] = new]
    BY <2>1
  <2>3. file \in Seq(S \cup {new})
    BY <1>2, SeqMonotonic
  <2>4. file' \in Seq(S \cup {new}) /\ Len(file') = Len(file) /\ file'[i] = new
    BY <1>3, <2>2, <2>3, ExceptSeq
  <2>5. IsLine(file[i])
    BY <1>3, <1>5 DEF ChainSoFar
  <2>6. new.seq = file[i].seq /\ new.prev = file[i].prev /\ new.hash = file[i].hash /\ new.stamp = 0
    BY <2>5 DEF IsLine
  <2> HIDE DEF new
  <2>7. Bad(file', i)
    BY <1>3, <1>5, <2>4, <2>6, EditedIsBad
  <2> QED BY <1>3, <2>4, <2>7
<1>8. CASE DropEntry(i)
  <2>1. file' = RemoveAt(file, i) /\ i < Len(file)
    BY <1>8 DEF DropEntry, Altered, Harmed
  <2> DEFINE a == SubSeq(file, 1, i - 1)
             b == SubSeq(file, i + 1, Len(file))
  <2>5. a \in Seq(S) /\ Len(a) = i - 1
    BY <1>2, <1>3, SubSeqProperties
  <2>6. b \in Seq(S) /\ Len(b) = Len(file) - i /\ b[1] = file[i + 1]
    BY <1>2, <1>3, <2>1, SubSeqProperties
  <2>7. file' = a \o b
    BY <2>1 DEF RemoveAt
  <2> HIDE DEF a, b
  <2>2. file' \in Seq(S) /\ i \in 1..Len(file') /\ file'[i] = file[i + 1]
    BY <1>3, <2>1, <2>5, <2>6, <2>7, ConcatProperties
  <2>3. i + 1 \in 1..Len(file) /\ i < i + 1
    BY <1>3, <2>1
  <2>4. Bad(file', i)
    BY <1>3, <1>5, <2>2, <2>3, MovedUpIsBad
  <2> QED BY <2>2, <2>4
<1>9. CASE RepeatEntry(i)
  <2>1. file' = InsertAt(file, i, file[i])
    BY <1>9 DEF RepeatEntry, Altered, Harmed
  <2>2. file' \in Seq(S) /\ i + 1 \in 1..Len(file') /\ file'[i] = file[i] /\ file'[i + 1] = file[i]
    BY <1>2, <1>3, <2>1, InsertRepeats
  <2>3. i \in 1..Len(file')
    BY <1>3, <2>2, LenProperties
  <2>4. Bad(file', i) \/ Bad(file', i + 1)
    BY <1>3, <2>2, RepeatedIsBad
  <2> QED BY <2>2, <2>3, <2>4
<1>10. CASE SwapEntries(i)
  <2>1. file' = [file EXCEPT ![i] = file[i + 1], ![i + 1] = file[i]] /\ i < Len(file)
    BY <1>10 DEF SwapEntries, Altered, Harmed
  <2>2. file' \in Seq(S) /\ i \in 1..Len(file') /\ file'[i] = file[i + 1]
    BY <1>2, <1>3, <2>1
  <2>3. i + 1 \in 1..Len(file) /\ i < i + 1
    BY <1>3, <2>1
  <2>4. Bad(file', i)
    BY <1>3, <1>5, <2>2, <2>3, MovedUpIsBad
  <2> QED BY <2>2, <2>4
<1>11. CASE Truncate(i) \/ Rewrite(i)
  <2> DEFINE kept == SubSeq(file, 1, i - 1)
             e == EntryAfter(TailOf(kept), stamps + 1)
  <2>1. file' \in {kept, Append(kept, e)} /\ harm' \in {"truncate", "rewrite"}
    BY <1>11 DEF Truncate, Rewrite, Shortened, Harmed
  <2>2. kept \in Seq(S)
    BY <1>2, <1>3, SubSeqProperties
  <2> HIDE DEF kept, e
  <2>3. Append(kept, e) \in Seq(S \cup {e})
    BY <2>2, AppendKeeps
  <2> QED BY <2>1, <2>2, <2>3
<1> QED BY <1>1, <1>7, <1>8, <1>9, <1>10, <1>11

\* Every step of writers that take turns, and every edit.
LEMMA AuditStep == AuditInv /\ [Next]_vars => AuditInv'
<1>1. overlapped /\ [Next]_vars => overlapped'
  BY DEF Next, vars, Open, AppendEntry, TearEntry, Close, Anchor, Harm, EditEntry, DropEntry,
         RepeatEntry, SwapEntries, Truncate, Rewrite, Shortened, Altered, Harmed
<1>2. SUFFICES ASSUME InTurns, ~overlapped', [Next]_vars PROVE InTurns'
  BY <1>1 DEF AuditInv
<1>3. ASSUME NEW w \in Writers,
             \/ Open(w) \/ AppendEntry(w) \/ Close(w) \/ Anchor(w)
             \/ \E kind \in Tears : TearEntry(w, kind)
      PROVE  InTurns'
  BY <1>2, <1>3, OpenStep, AppendStep, CloseStep, AnchorStep, TearStep
<1>4. CASE Harm
  BY <1>2, <1>4, HarmStep
<1>5. CASE UNCHANGED vars
  <2>1. UNCHANGED <<file, ragged, tail, stamps, harm>>
    BY <1>5 DEF vars
  <2>2. Shapes' /\ (OneOpen => OneOpen')
    BY <1>2, <2>1 DEF InTurns, Shapes, OneOpen
  <2>3. TailsAreTrue => TailsAreTrue'
    BY <2>1, Unwritten DEF TailsAreTrue
  <2> QED BY <1>2, <2>1, <2>2, <2>3, Unwritten DEF InTurns
<1> QED BY <1>2, <1>3, <1>4, <1>5 DEF Next

\* The invariant holds of every log.
THEOREM AuditInvariant == Spec => []AuditInv
BY InitAudit, AuditStep, PTL DEF Spec

\* Places are numbered from one to the length of the log.
LEMMA LinesAreNumbered == InTurns => Len(file) \in Nat /\ DOMAIN file = 1..Len(file)
<1> SUFFICES ASSUME InTurns PROVE Len(file) \in Nat /\ DOMAIN file = 1..Len(file)
  OBVIOUS
<1>1. PICK S : file \in Seq(S)
  BY DEF InTurns, Shapes
<1> QED BY <1>1, LenProperties

\* What writers that take turns have written is one chain, up to its torn end
\* if a crash cut the last line short.
THEOREM ChainIntactCorrect == Spec => []ChainIntact
<1>1. AuditInv => ChainIntact
  BY LinesAreNumbered DEF AuditInv, InTurns, ChainSoFar, ChainIntact
<1> QED BY <1>1, AuditInvariant, PTL

\* verify() detects every gap, repetition, change of order and entry that no longer
\* agrees with its hash, of a log of any length, and goes on detecting it.
THEOREM EditDetectedCorrect == Spec => []EditDetected
<1>1. AuditInv => EditDetected
  BY LinesAreNumbered DEF AuditInv, InTurns, EditDetected, Detected, Bad, Verified
<1> QED BY <1>1, AuditInvariant, PTL
------------------------------------------------------------------------------
(* Of an unedited log that verifies, every head, cached or anchored, is that of the
   entry it names: a writer whose tail is not the file's writes a line that does not
   verify, whether or not it lives to write its newline. *)

HeadIn(h, lines) == h = Beginning \/ (h.seq \in 1..Len(lines) /\ h = HeadOf(lines[h.seq]))

HeadsStand ==
  /\ \A w \in Writers : tail[w] = Closed \/ HeadIn(tail[w], file)
  /\ \A a \in anchors : HeadIn(a, file)

HeadsInv ==
  /\ \E T : tail \in [Writers -> T]
  /\ harm = "none" =>
       /\ \E S : file \in Seq(S)
       /\ ragged \in BOOLEAN
       /\ ragged => Len(file) > 0
       /\ Verified(file) => HeadsStand

\* A head that was in the file stays in it when a line is appended.
LEMMA HeadKept ==
  ASSUME NEW S, NEW lines \in Seq(S), NEW e, NEW h, HeadIn(h, lines)
  PROVE  HeadIn(h, Append(lines, e))
<1>1. /\ Len(Append(lines, e)) = Len(lines) + 1 /\ Len(lines) \in Nat
      /\ \A i \in 1..Len(lines) : Append(lines, e)[i] = lines[i]
  BY AppendKeeps
<1> QED BY <1>1 DEF HeadIn

\* If a file verifies after something was written to it, that was an entry, it stands
\* behind the last newline and in its place, and the file verified before.
LEMMA VerifiedWritten ==
  ASSUME NEW S, file \in Seq(S), ragged \in BOOLEAN, ragged => Len(file) > 0,
         NEW line, Verified(Written(line))
  PROVE  /\ Written(line) = Append(file, line)
         /\ Verified(file)
         /\ line.seq = Len(file) + 1
<1>1. Len(file) \in Nat /\ DOMAIN file = 1..Len(file) /\ file \in Seq(S \cup {Torn})
  BY LenProperties, SeqMonotonic
<1>2. ~ragged
  <2> SUFFICES ASSUME ragged PROVE FALSE
    OBVIOUS
  <2>1. Written(line) = [file EXCEPT ![Len(file)] = Torn] /\ Len(file) \in 1..Len(file)
    BY <1>1 DEF Written
  <2>2. Written(line)[Len(file)] = Torn /\ Len(file) \in DOMAIN Written(line)
    BY <1>1, <2>1
  <2> QED BY <2>2 DEF Verified, Readable, Torn
<1>3. Written(line) = Append(file, line)
  BY <1>2 DEF Written
<1>4. /\ Len(Append(file, line)) = Len(file) + 1
      /\ DOMAIN Append(file, line) = 1..Len(file) + 1
      /\ Append(file, line)[Len(file) + 1] = line
  BY AppendKeeps, LenProperties
<1>5. ASSUME NEW i \in 1..Len(file) PROVE Readable(file[i]) /\ Linked(file, i)
  <2>1. ~Bad(Append(file, line), i)
    BY <1>1, <1>3, <1>4 DEF Verified, Bad
  <2> QED BY <2>1, AppendKeepsLinks DEF Bad
<1>6. line.seq = Len(file) + 1
  BY <1>1, <1>3, <1>4 DEF Verified, Linked
<1> QED BY <1>1, <1>3, <1>5, <1>6 DEF Verified

\* A line written by whoever has the log open.
LEMMA HeadsWrite ==
  ASSUME HeadsInv, NEW w \in Writers, NEW line, NEW t \in {HeadOf(line), Closed},
         file' = Written(line), tail' = [tail EXCEPT ![w] = t],
         ragged' \in BOOLEAN, UNCHANGED <<anchors, harm>>
  PROVE  HeadsInv'
<1>1. PICK T : tail \in [Writers -> T]
  BY DEF HeadsInv
<1>2. /\ tail' \in [Writers -> T \cup {t}]
      /\ \A v \in Writers : tail'[v] = IF v = w THEN t ELSE tail[v]
  BY <1>1
<1>3. \E U : tail' \in [Writers -> U]
  BY <1>2
<1>4. ASSUME harm = "none"
      PROVE  /\ \E U : file' \in Seq(U)
             /\ Len(file') > 0
             /\ Verified(file') => HeadsStand'
  <2>1. PICK S : file \in Seq(S)
    BY <1>4 DEF HeadsInv
  <2>2. Len(file) \in Nat /\ file \in Seq(S \cup {Torn})
    BY <2>1, LenProperties, SeqMonotonic
  <2>3. ragged \in BOOLEAN /\ (ragged => Len(file) > 0)
    BY <1>4 DEF HeadsInv
  <2>4. (\E U : file' \in Seq(U)) /\ Len(file') > 0
    <3>1. CASE ragged
      <4>1. file' = [file EXCEPT ![Len(file)] = Torn] /\ Len(file) \in 1..Len(file)
        BY <2>2, <2>3, <3>1 DEF Written
      <4>2. file' \in Seq(S \cup {Torn}) /\ Len(file') = Len(file)
        BY <2>2, <4>1, ExceptSeq
      <4> QED BY <2>3, <3>1, <4>2
    <3>2. CASE ~ragged
      <4>1. file' = Append(file, line)
        BY <3>2 DEF Written
      <4>2. file' \in Seq(S \cup {line}) /\ Len(file') = Len(file) + 1
        BY <2>1, <4>1, AppendKeeps
      <4> QED BY <2>2, <4>2
    <3> QED BY <3>1, <3>2
  <2>5. ASSUME Verified(file') PROVE HeadsStand'
    <3>1. file' = Append(file, line) /\ Verified(file) /\ line.seq = Len(file) + 1
      BY <2>1, <2>3, <2>5, VerifiedWritten
    <3>2. HeadsStand
      BY <1>4, <3>1 DEF HeadsInv
    <3>3. Len(file') = Len(file) + 1 /\ file'[Len(file) + 1] = line
      BY <2>1, <3>1, AppendKeeps
    <3>4. HeadIn(HeadOf(line), file')
      BY <2>2, <3>1, <3>3 DEF HeadIn, HeadOf
    <3>5. \A h : HeadIn(h, file) => HeadIn(h, file')
      BY <2>1, <3>1, HeadKept
    <3>6. \A h : HeadIn(h, file)' <=> HeadIn(h, file')
      BY DEF HeadIn, HeadOf
    <3>7. \A v \in Writers : tail'[v] = Closed \/ HeadIn(tail'[v], file')
      BY <1>2, <3>2, <3>4, <3>5 DEF HeadsStand
    <3>8. \A a \in anchors' : HeadIn(a, file')
      BY <3>2, <3>5 DEF HeadsStand
    <3> QED BY <3>7, <3>8 DEF HeadsStand, HeadIn, HeadOf
  <2> QED BY <2>4, <2>5
<1>5. Verified(file)' <=> Verified(file')
  BY DEF Verified, Readable, Linked, HashBefore
<1> QED BY <1>3, <1>4, <1>5 DEF HeadsInv

\* Opening, closing and anchoring take the file's head, drop one, or keep one.
LEMMA HeadsTaken ==
  ASSUME HeadsInv, NEW w \in Writers, Open(w) \/ Close(w) \/ Anchor(w)
  PROVE  HeadsInv'
<1>1. PICK T : tail \in [Writers -> T]
  BY DEF HeadsInv
<1>2. UNCHANGED <<file, ragged, harm>>
  BY DEF Open, Close, Anchor
<1>3. PICK t \in {TailOf(file), Closed, tail[w]} :
        /\ tail' = [tail EXCEPT ![w] = t]
        /\ anchors' \subseteq anchors \cup {tail[w]}
        /\ anchors' # anchors => tail[w] # Closed
  <2>1. CASE Open(w)
    BY <2>1 DEF Open
  <2>2. CASE Close(w)
    BY <2>2 DEF Close
  <2>3. CASE Anchor(w)
    <3>1. tail = [tail EXCEPT ![w] = tail[w]]
      BY <1>1
    <3> QED BY <2>3, <3>1 DEF Anchor
  <2> QED BY <2>1, <2>2, <2>3
<1>4. /\ tail' \in [Writers -> T \cup {t}]
      /\ \A v \in Writers : tail'[v] = IF v = w THEN t ELSE tail[v]
  BY <1>1, <1>3
<1>5. \E U : tail' \in [Writers -> U]
  BY <1>4
<1>6. ASSUME harm = "none", Verified(file) PROVE HeadsStand'
  <2>1. HeadsStand
    BY <1>6 DEF HeadsInv
  <2>2. PICK S : file \in Seq(S)
    BY <1>6 DEF HeadsInv
  <2>3. HeadIn(TailOf(file), file)
    <3>1. CASE file = <<>>
      BY <3>1 DEF TailOf, HeadIn
    <3>2. CASE file # <<>>
      <4>1. Len(file) \in 1..Len(file) /\ DOMAIN file = 1..Len(file)
        BY <2>2, <3>2, EmptySeq, LenProperties
      <4>2. file[Len(file)].seq = Len(file)
        BY <1>6, <4>1 DEF Verified, Linked
      <4>3. TailOf(file) = HeadOf(file[Len(file)]) /\ TailOf(file).seq = Len(file)
        BY <3>2, <4>2 DEF TailOf, HeadOf
      <4> QED BY <4>1, <4>3 DEF HeadIn
    <3> QED BY <3>1, <3>2
  <2>4. \A v \in Writers : tail'[v] = Closed \/ HeadIn(tail'[v], file)
    BY <1>3, <1>4, <2>1, <2>3 DEF HeadsStand
  <2>5. \A a \in anchors' : HeadIn(a, file)
    BY <1>3, <2>1 DEF HeadsStand
  <2>6. \A h : HeadIn(h, file)' <=> HeadIn(h, file)
    BY <1>2 DEF HeadIn, HeadOf
  <2> QED BY <1>2, <2>4, <2>5 DEF HeadsStand, HeadIn, HeadOf
<1>7. Verified(file)' <=> Verified(file)
  BY <1>2 DEF Verified, Readable, Linked, HashBefore
<1> QED BY <1>2, <1>5, <1>6, <1>7 DEF HeadsInv

\* The heads of any log: writers may overlap, and die in the middle of a line.
THEOREM HeadsInvariant == Spec => []HeadsInv
<1>1. Init => HeadsInv
  <2> SUFFICES ASSUME Init PROVE HeadsInv
    OBVIOUS
  <2>1. tail \in [Writers -> {Closed}] /\ \A w \in Writers : tail[w] = Closed
    BY DEF Init
  <2>2. \E T : tail \in [Writers -> T]
    BY <2>1
  <2>3. file \in Seq({})
    BY EmptySeq DEF Init
  <2>4. HeadsStand
    BY <2>1 DEF Init, HeadsStand
  <2> QED BY <2>2, <2>3, <2>4 DEF Init, HeadsInv
<1>2. HeadsInv /\ [Next]_vars => HeadsInv'
  <2> SUFFICES ASSUME HeadsInv, [Next]_vars PROVE HeadsInv'
    OBVIOUS
  <2>1. ASSUME NEW w \in Writers, AppendEntry(w) PROVE HeadsInv'
    <3>1. PICK line : /\ file' = Written(line)
                      /\ tail' = [tail EXCEPT ![w] = HeadOf(line)]
                      /\ ragged' \in BOOLEAN
                      /\ UNCHANGED <<anchors, harm>>
      BY <2>1 DEF AppendEntry
    <3> QED BY <3>1, HeadsWrite
  <2>2. ASSUME NEW w \in Writers, NEW kind \in Tears, TearEntry(w, kind) PROVE HeadsInv'
    <3>1. PICK line : /\ file' = Written(line)
                      /\ tail' = [tail EXCEPT ![w] = Closed]
                      /\ ragged' \in BOOLEAN
                      /\ UNCHANGED <<anchors, harm>>
      BY <2>2 DEF TearEntry
    <3> QED BY <3>1, HeadsWrite
  <2>3. CASE Harm
    <3>1. UNCHANGED tail /\ harm' \in HarmKinds
      BY <2>3, AuditAssumption
      DEF Harm, EditEntry, DropEntry, RepeatEntry, SwapEntries, Truncate, Rewrite,
          Shortened, Altered, Harmed
    <3>2. harm' # "none"
      BY <3>1 DEF HarmKinds
    <3> QED BY <3>1, <3>2 DEF HeadsInv
  <2>4. CASE UNCHANGED vars
    <3>1. UNCHANGED <<file, ragged, tail, anchors, harm>>
      BY <2>4 DEF vars
    <3> QED BY <3>1 DEF HeadsInv, HeadsStand, HeadIn, HeadOf, Verified, Readable, Linked,
                        HashBefore
  <2> QED BY <2>1, <2>2, <2>3, <2>4, HeadsTaken DEF Next
<1> QED BY <1>1, <1>2, PTL DEF Spec

\* No anchor speaks against a log that nobody edited and that verifies (anchor() writes
\* down the cached head), however many writers there are and however they overlap.
THEOREM AnchorsStandCorrect == Spec => []AnchorsStand
<1>1. HeadsInv => AnchorsStand
  <2> SUFFICES ASSUME HeadsInv, harm = "none", Verified(file), NEW a \in anchors
               PROVE  AnchorHolds(a)
    BY DEF AnchorsStand
  <2>1. HeadIn(a, file)
    BY DEF HeadsInv, HeadsStand
  <2>2. CASE a = Beginning
    BY <2>2 DEF Beginning, AnchorHolds
  <2>3. CASE a.seq \in 1..Len(file) /\ a = HeadOf(file[a.seq])
    <3>1. PICK S : file \in Seq(S)
      BY DEF HeadsInv
    <3>2. Len(file) \in Nat
      BY <3>1, LenProperties
    <3>3. HeadOf(file[a.seq]).hash = file[a.seq].hash
      BY DEF HeadOf
    <3> QED BY <2>3, <3>2, <3>3 DEF AnchorHolds
  <2> QED BY <2>1, <2>2, <2>3 DEF HeadIn
<1> QED BY <1>1, HeadsInvariant, PTL

------------------------------------------------------------------------------
(* What went from the end does not come back, however the writers overlap and
   whatever their crashes leave: an entry written later has a stamp of its own. *)

IsEntry(l) ==
  /\ l.seq \in Nat \ {0}
  /\ l.stamp \in 1..stamps
  /\ l.hash = Digest(l.seq, l.stamp, l.prev)

\* Every line is an entry with a stamp given out, or ruined.
LinesAccounted == \A i \in 1..Len(file) : IsEntry(file[i]) \/ file[i] = Torn

\* No two entries have the same stamp, so no two have the same hash.
StampsDiffer ==
  \A i, j \in 1..Len(file) :
    i # j /\ IsEntry(file[i]) /\ IsEntry(file[j]) => file[i].stamp # file[j].stamp

\* A head, cached or anchored, is that of an entry or the beginning.
HeadsProper ==
  /\ \A w \in Writers : tail[w] \in {Closed, Beginning} \/ tail[w].seq \in Nat \ {0}
  /\ \A a \in anchors : a = Beginning \/ a.seq \in Nat \ {0}

\* What is lost had a stamp given out, and is not in the file.
Stamped(h) == \E q, n, p : n \in 1..stamps /\ h = Digest(q, n, p)
LostStayLost ==
  \A h \in lost :
    /\ Stamped(h)
    /\ \A i \in 1..Len(file) : file[i].hash # h

ArchiveInv ==
  /\ stamps \in Nat
  /\ \E T : tail \in [Writers -> T]
  /\ harm \notin {"truncate", "rewrite"} => lost = {}
  /\ harm \in {"none", "truncate", "rewrite"} =>
       /\ \E S : file \in Seq(S)
       /\ ragged \in BOOLEAN
       /\ LinesAccounted /\ StampsDiffer /\ HeadsProper /\ LostStayLost

\* A line of a file that was written to is an old line in its place, a ruined one, or the
\* new one behind them all.
LEMMA WrittenLines ==
  ASSUME NEW S, file \in Seq(S), ragged \in BOOLEAN, NEW line
  PROVE  /\ \E U : Written(line) \in Seq(U)
         /\ \A i \in 1..Len(Written(line)) :
              \/ i \in 1..Len(file) /\ Written(line)[i] = file[i]
              \/ Written(line)[i] = Torn
              \/ Written(line)[i] = line /\ i = Len(file) + 1
<1>1. Len(file) \in Nat /\ file \in Seq(S \cup {Torn})
  BY LenProperties, SeqMonotonic
<1>2. CASE ragged /\ Len(file) > 0
  <2>1. Written(line) = [file EXCEPT ![Len(file)] = Torn] /\ Len(file) \in 1..Len(file)
    BY <1>1, <1>2 DEF Written
  <2>2. /\ Written(line) \in Seq(S \cup {Torn})
        /\ Len(Written(line)) = Len(file)
        /\ \A i \in 1..Len(file) : Written(line)[i] = IF i = Len(file) THEN Torn ELSE file[i]
    BY <1>1, <2>1, ExceptSeq
  <2> QED BY <2>2
<1>3. CASE ragged /\ Len(file) = 0
  <2>1. Written(line) = file
    BY <1>3, EmptySeq DEF Written
  <2> QED BY <2>1
<1>4. CASE ~ragged
  <2>1. Written(line) = Append(file, line)
    BY <1>4 DEF Written
  <2>2. /\ Append(file, line) \in Seq(S \cup {line})
        /\ Len(Append(file, line)) = Len(file) + 1
        /\ \A i \in 1..Len(file) : Append(file, line)[i] = file[i]
        /\ Append(file, line)[Len(file) + 1] = line
    BY AppendKeeps
  <2> QED BY <1>1, <2>1, <2>2
<1> QED BY <1>1, <1>2, <1>3, <1>4

\* Writing an entry with a fresh stamp, or ruining a line, brings back nothing.
LEMMA ArchiveWrite ==
  ASSUME ArchiveInv, harm \in {"none", "truncate", "rewrite"}, NEW line, NEW q \in Nat \ {0}, NEW p,
         line = Torn
         \/ line = [seq |-> q, stamp |-> stamps + 1, prev |-> p, hash |-> Digest(q, stamps + 1, p)],
         file' = Written(line), stamps' = stamps + 1, UNCHANGED <<harm, lost>>
  PROVE  /\ \E S : file' \in Seq(S)
         /\ LinesAccounted' /\ StampsDiffer' /\ LostStayLost'
<1>1. PICK S : file \in Seq(S)
  BY DEF ArchiveInv
<1>2. /\ \E U : file' \in Seq(U)
      /\ \A i \in 1..Len(file') :
           \/ i \in 1..Len(file) /\ file'[i] = file[i]
           \/ file'[i] = Torn
           \/ file'[i] = line /\ i = Len(file) + 1
  BY <1>1, WrittenLines DEF ArchiveInv
<1>3. stamps \in Nat /\ 1..stamps \subseteq 1..stamps' /\ stamps + 1 \in 1..stamps'
      /\ stamps + 1 \notin 1..stamps
  BY DEF ArchiveInv
<1>4. ~IsEntry(Torn)' /\ ~IsEntry(Torn)
  BY DEF IsEntry, Torn
<1>5. line # Torn => IsEntry(line)' /\ line.stamp = stamps + 1 /\ line.hash = Digest(q, stamps + 1, p)
  BY <1>3 DEF IsEntry
<1>6. \A i \in 1..Len(file) : IsEntry(file[i]) => (file[i].stamp \in 1..stamps)
  BY DEF IsEntry
<1>7. LinesAccounted'
  <2> SUFFICES ASSUME NEW i \in 1..Len(file') PROVE IsEntry(file[i])' \/ file'[i] = Torn
    BY DEF LinesAccounted
  <2>1. CASE i \in 1..Len(file) /\ file'[i] = file[i]
    BY <1>3, <2>1 DEF ArchiveInv, LinesAccounted, IsEntry
  <2>2. CASE file'[i] = line
    BY <1>5, <2>2 DEF IsEntry
  <2> QED BY <1>2, <2>1, <2>2
<1>8. StampsDiffer'
  <2> SUFFICES ASSUME NEW i \in 1..Len(file'), NEW j \in 1..Len(file'), i # j,
                      file'[i] # Torn, file'[j] # Torn
               PROVE  file'[i].stamp # file'[j].stamp
    BY <1>4 DEF StampsDiffer, IsEntry
  <2> DEFINE Old(k) == k \in 1..Len(file) /\ file'[k] = file[k] /\ IsEntry(file[k])
  <2>1. \A k \in {i, j} : Old(k) \/ (file'[k].stamp = stamps + 1 /\ k = Len(file) + 1)
    BY <1>2, <1>5 DEF ArchiveInv, LinesAccounted
  <2>2. \A k \in {i, j} : Old(k) => file'[k].stamp # stamps + 1
    BY <1>3, <1>6
  <2>3. Old(i) /\ Old(j) => file'[i].stamp # file'[j].stamp
    BY DEF ArchiveInv, StampsDiffer
  <2> QED BY <2>1, <2>2, <2>3
<1>9. LostStayLost'
  <2> SUFFICES ASSUME NEW h \in lost, NEW i \in 1..Len(file')
               PROVE  Stamped(h)' /\ file'[i].hash # h
    <3>1. \A h \in lost : Stamped(h)'
      BY <1>3 DEF ArchiveInv, LostStayLost, Stamped
    <3> QED BY <3>1 DEF LostStayLost
  <2>1. PICK a, n, b : n \in 1..stamps /\ h = Digest(a, n, b)
    BY DEF ArchiveInv, LostStayLost, Stamped
  <2>2. Torn.hash # h /\ (line # Torn => line.hash # h)
    BY <1>3, <1>5, <2>1 DEF Torn, Genesis, Digest
  <2>3. i \in 1..Len(file) => file[i].hash # h
    BY DEF ArchiveInv, LostStayLost
  <2> QED BY <1>2, <1>3, <2>1, <2>2, <2>3 DEF Stamped
<1> QED BY <1>2, <1>7, <1>8, <1>9

\* What is cut off was entries of their own, and what is put in its place is another.
LEMMA ArchiveShortened ==
  ASSUME ArchiveInv, NEW c \in DOMAIN file,
         harm = "none", harm' \in {"truncate", "rewrite"}, ragged' = FALSE,
         lost' = {file[j].hash : j \in {n \in c..Len(file) : Readable(file[n])}},
         UNCHANGED <<tail, anchors>>,
         NEW U, file' \in Seq(U), stamps' \in {stamps, stamps + 1},
         \A i \in 1..Len(file') :
           \/ i \in 1..c - 1 /\ file'[i] = file[i]
           \/ i = c /\ IsEntry(file[i])' /\ file'[i].stamp = stamps + 1
  PROVE  ArchiveInv'
<1>1. PICK S : file \in Seq(S)
  BY DEF ArchiveInv
<1>2. Len(file) \in Nat /\ c \in 1..Len(file) /\ \A i \in 1..c - 1 : i \in 1..Len(file) /\ i < c
  BY <1>1, LenProperties
<1>3. stamps \in Nat /\ 1..stamps \subseteq 1..stamps' /\ stamps + 1 \notin 1..stamps
  BY DEF ArchiveInv
<1>4. LinesAccounted /\ StampsDiffer /\ HeadsProper
  BY DEF ArchiveInv
<1> DEFINE Kept(i) == i \in 1..Len(file) /\ i < c /\ file'[i] = file[i]
           New(i) == i = c /\ IsEntry(file[i])' /\ file'[i].stamp = stamps + 1
<1>5. \A i \in 1..Len(file') : Kept(i) \/ New(i)
  BY <1>2
<1>6. \A i : Kept(i) => (IsEntry(file[i]) /\ IsEntry(file[i])') \/ file[i] = Torn
  BY <1>3, <1>4 DEF LinesAccounted, IsEntry
<1>7. LinesAccounted'
  BY <1>5, <1>6 DEF LinesAccounted
<1>8. ~IsEntry(Torn)'
  BY DEF IsEntry, Torn
<1>9. \A i : IsEntry(file[i]) => file[i].stamp # stamps + 1
  BY <1>3 DEF IsEntry
<1>10. StampsDiffer'
  <2> SUFFICES ASSUME NEW i \in 1..Len(file'), NEW j \in 1..Len(file'), i # j,
                      file'[i] # Torn, file'[j] # Torn
               PROVE  file'[i].stamp # file'[j].stamp
    BY <1>8 DEF StampsDiffer, IsEntry
  <2> DEFINE Old(k) == k \in 1..Len(file) /\ file'[k] = file[k] /\ IsEntry(file[k])
  <2>1. \A k \in {i, j} : Old(k) \/ (k = c /\ file'[k].stamp = stamps + 1)
    BY <1>5, <1>6
  <2>2. \A k \in {i, j} : Old(k) => file'[k].stamp # stamps + 1
    BY <1>9
  <2>3. Old(i) /\ Old(j) => file'[i].stamp # file'[j].stamp
    BY <1>4 DEF StampsDiffer
  <2> QED BY <2>1, <2>2, <2>3
<1>11. HeadsProper'
  BY <1>4 DEF HeadsProper
<1>12. LostStayLost'
  <2> SUFFICES ASSUME NEW h \in lost'
               PROVE  Stamped(h)' /\ \A i \in 1..Len(file') : file'[i].hash # h
    BY DEF LostStayLost
  <2>1. PICK j \in c..Len(file) : Readable(file[j]) /\ h = file[j].hash
    OBVIOUS
  <2>2. j \in 1..Len(file) /\ ~(j < c)
    BY <1>2
  <2>3. IsEntry(file[j])
    BY <1>4, <2>1, <2>2 DEF LinesAccounted, Readable, Torn
  <2>4. ASSUME NEW i \in 1..Len(file'), IsEntry(file[i])', file'[i].stamp # file[j].stamp
        PROVE  file'[i].hash # h
    BY <2>1, <2>3, <2>4 DEF IsEntry, Digest
  <2>5. ASSUME NEW i \in 1..Len(file') PROVE file'[i].hash # h
    <3>1. CASE New(i)
      <4>1. file[j].stamp # stamps + 1
        BY <1>9, <2>3
      <4> QED BY <2>4, <3>1, <4>1
    <3>2. CASE Kept(i) /\ file[i] = Torn
      BY <2>1, <2>3, <3>2 DEF Torn, Genesis, IsEntry, Digest
    <3>3. CASE Kept(i) /\ IsEntry(file[i]) /\ IsEntry(file[i])'
      <4>1. i # j
        BY <2>2, <3>3
      <4>2. file[i].stamp # file[j].stamp
        BY <1>4, <2>2, <2>3, <3>3, <4>1 DEF StampsDiffer
      <4> QED BY <2>4, <3>3, <4>2
    <3> QED BY <1>5, <1>6, <3>1, <3>2, <3>3
  <2>6. Stamped(h)'
    BY <1>3, <2>1, <2>3 DEF IsEntry, Stamped
  <2> QED BY <2>5, <2>6
<1>13. stamps' \in Nat /\ ragged' \in BOOLEAN /\ \E X : file' \in Seq(X)
  <2>1. stamps' \in Nat
    BY <1>3
  <2>2. ragged' \in BOOLEAN
    BY Zenon
  <2>3. \E X : file' \in Seq(X)
    BY Zenon
  <2> QED BY <2>1, <2>2, <2>3
<1>14. PICK T : tail' \in [Writers -> T]
  BY DEF ArchiveInv
<1>15. harm' \notin {"truncate", "rewrite"} => lost' = {}
  OBVIOUS
<1> QED BY <1>7, <1>10, <1>11, <1>12, <1>13, <1>14, <1>15 DEF ArchiveInv

\* A truncation, and a rewriting of the end.
LEMMA ArchiveTruncate ==
  ASSUME ArchiveInv, NEW c \in DOMAIN file, Truncate(c) \/ Rewrite(c)
  PROVE  ArchiveInv'
<1> DEFINE kept == SubSeq(file, 1, c - 1)
           e == EntryAfter(TailOf(kept), stamps + 1)
<1>1. /\ harm = "none" /\ harm' \in {"truncate", "rewrite"} /\ ragged' = FALSE
      /\ lost' = {file[j].hash : j \in {n \in c..Len(file) : Readable(file[n])}}
      /\ UNCHANGED <<tail, anchors>>
      /\ \/ file' = kept /\ stamps' = stamps
         \/ file' = Append(kept, e) /\ stamps' = stamps + 1
  BY DEF Truncate, Rewrite, Shortened, Harmed
<1>2. PICK S : file \in Seq(S)
  BY <1>1 DEF ArchiveInv
<1>3. Len(file) \in Nat /\ c \in 1..Len(file) /\ stamps \in Nat
  BY <1>2, LenProperties DEF ArchiveInv
<1>4. kept \in Seq(S) /\ Len(kept) = c - 1 /\ \A i \in 1..c - 1 : kept[i] = file[i]
  BY <1>2, <1>3, SubSeqProperties
<1>5. TailOf(kept).seq \in Nat
  <2>1. CASE kept = <<>>
    BY <2>1 DEF TailOf, Beginning
  <2>2. CASE kept # <<>>
    <3>1. c - 1 \in 1..c - 1 /\ c - 1 \in 1..Len(file)
      BY <1>3, <1>4, <2>2, EmptySeq
    <3>2. kept[Len(kept)] = file[c - 1] /\ (IsEntry(file[c - 1]) \/ file[c - 1] = Torn)
      BY <1>1, <1>4, <3>1 DEF ArchiveInv, LinesAccounted
    <3>3. file[c - 1].seq \in Nat
      BY <3>2 DEF IsEntry, Torn
    <3> QED BY <2>2, <3>2, <3>3 DEF TailOf, HeadOf
  <2> QED BY <2>1, <2>2
<1>6. /\ e.seq \in Nat \ {0} /\ e.stamp = stamps + 1
      /\ e.hash = Digest(e.seq, stamps + 1, e.prev)
  BY <1>5 DEF EntryAfter
<1> HIDE DEF kept, e
<1>7. CASE file' = kept /\ stamps' = stamps
  <2>1. \A i \in 1..Len(file') : i \in 1..c - 1 /\ file'[i] = file[i]
    BY <1>4, <1>7
  <2>2. file' \in Seq(S) /\ stamps' \in {stamps, stamps + 1}
    BY <1>4, <1>7
  <2> QED BY <1>1, <2>1, <2>2, ArchiveShortened
<1>8. CASE file' = Append(kept, e) /\ stamps' = stamps + 1
  <2>1. /\ file' \in Seq(S \cup {e}) /\ Len(file') = c /\ file'[c] = e
        /\ \A i \in 1..c - 1 : file'[i] = kept[i]
    <3>1. /\ Append(kept, e) \in Seq(S \cup {e})
          /\ Len(Append(kept, e)) = Len(kept) + 1
          /\ \A i \in 1..Len(kept) : Append(kept, e)[i] = kept[i]
          /\ Append(kept, e)[Len(kept) + 1] = e
      BY <1>4, AppendKeeps
    <3> QED BY <1>3, <1>4, <1>8, <3>1
  <2>2. IsEntry(file[c])' /\ file'[c].stamp = stamps + 1
    BY <1>3, <1>6, <1>8, <2>1 DEF IsEntry
  <2>3. ASSUME NEW i \in 1..Len(file')
        PROVE  \/ i \in 1..c - 1 /\ file'[i] = file[i]
               \/ i = c /\ IsEntry(file[i])' /\ file'[i].stamp = stamps + 1
    BY <1>3, <1>4, <2>1, <2>2
  <2> QED BY <1>1, <1>8, <2>1, <2>3, ArchiveShortened
<1> QED BY <1>1, <1>7, <1>8

\* What a writer does to the log.
LEMMA ArchiveWriter ==
  ASSUME ArchiveInv, NEW w \in Writers,
         \/ Open(w) \/ AppendEntry(w) \/ Close(w) \/ Anchor(w)
         \/ \E kind \in Tears : TearEntry(w, kind)
  PROVE  ArchiveInv'
<1>1. PICK T : tail \in [Writers -> T]
  BY DEF ArchiveInv
<1>2. CASE AppendEntry(w) \/ \E kind \in Tears : TearEntry(w, kind)
  <2> DEFINE e == EntryAfter(tail[w], stamps + 1)
  <2>1. PICK line \in {e, Torn}, t \in {HeadOf(e), Closed} :
          /\ tail[w] # Closed
          /\ file' = Written(line)
          /\ tail' = [tail EXCEPT ![w] = t]
          /\ ragged' \in BOOLEAN
          /\ stamps' = stamps + 1
          /\ UNCHANGED <<anchors, harm, lost>>
    BY <1>2 DEF AppendEntry, TearEntry
  <2>2. stamps' \in Nat /\ (\E U : tail' \in [Writers -> U]) /\ (harm' \notin {"truncate", "rewrite"} => lost' = {})
    <3> HIDE DEF e
    <3>1. tail' \in [Writers -> T \cup {t}]
      BY <1>1, <2>1
    <3>2. \E U : tail' \in [Writers -> U]
      BY <3>1
    <3> QED BY <2>1, <3>2 DEF ArchiveInv
  <2>3. ASSUME harm \in {"none", "truncate", "rewrite"}
        PROVE  /\ \E S : file' \in Seq(S)
               /\ LinesAccounted' /\ StampsDiffer' /\ HeadsProper' /\ LostStayLost'
    <3>1. tail[w].seq + 1 \in Nat \ {0}
      BY <2>1, <2>3 DEF ArchiveInv, HeadsProper, Beginning
    <3>2. HeadOf(e).seq \in Nat \ {0}
      BY <3>1 DEF HeadOf, EntryAfter
    <3>3. HeadsProper'
      BY <1>1, <2>1, <2>3, <3>2 DEF ArchiveInv, HeadsProper
    <3>4. e = [seq |-> tail[w].seq + 1, stamp |-> stamps + 1, prev |-> tail[w].hash,
               hash |-> Digest(tail[w].seq + 1, stamps + 1, tail[w].hash)]
      BY DEF EntryAfter
    <3> HIDE DEF e
    <3> QED BY <2>1, <2>3, <3>1, <3>3, <3>4, ArchiveWrite
  <2> QED BY <2>1, <2>2, <2>3 DEF ArchiveInv
<1>3. CASE Open(w) \/ Close(w) \/ Anchor(w)
  <2>1. UNCHANGED <<file, ragged, stamps, harm, lost>>
    BY <1>3 DEF Open, Close, Anchor
  <2>2. \E U : tail' \in [Writers -> U]
    <3>1. tail' \in [Writers -> T \cup {TailOf(file), Closed}]
      BY <1>1, <1>3 DEF Open, Close, Anchor
    <3> QED BY <3>1
  <2>3. LinesAccounted /\ StampsDiffer /\ LostStayLost
        => LinesAccounted' /\ StampsDiffer' /\ LostStayLost'
    BY <2>1 DEF LinesAccounted, StampsDiffer, LostStayLost, IsEntry, Stamped
  <2>4. ASSUME harm \in {"none", "truncate", "rewrite"} PROVE HeadsProper'
    <3>1. CASE Open(w)
      <4>1. PICK S : file \in Seq(S)
        BY <2>4 DEF ArchiveInv
      <4>2. TailOf(file) = Beginning \/ TailOf(file).seq \in Nat \ {0}
        <5>1. CASE file # <<>>
          <6>1. Len(file) \in 1..Len(file)
            BY <4>1, <5>1, EmptySeq, LenProperties
          <6>2. IsEntry(file[Len(file)])
            BY <2>4, <3>1, <5>1, <6>1
            DEF ArchiveInv, LinesAccounted, Open, TailReadable, Readable, Torn
          <6> QED BY <5>1, <6>2 DEF TailOf, HeadOf, IsEntry
        <5> QED BY <5>1 DEF TailOf
      <4>3. /\ \A v \in Writers : tail'[v] = IF v = w THEN TailOf(file) ELSE tail[v]
            /\ UNCHANGED anchors
        BY <1>1, <3>1 DEF Open
      <4> QED BY <2>4, <4>2, <4>3 DEF ArchiveInv, HeadsProper
    <3>2. CASE Close(w)
      <4>1. (\A v \in Writers : tail'[v] \in {Closed, tail[v]}) /\ UNCHANGED anchors
        BY <1>1, <3>2 DEF Close
      <4> QED BY <2>4, <4>1 DEF ArchiveInv, HeadsProper
    <3>3. CASE Anchor(w)
      BY <2>4, <3>3 DEF Anchor, ArchiveInv, HeadsProper
    <3> QED BY <1>3, <3>1, <3>2, <3>3
  <2> QED BY <2>1, <2>2, <2>3, <2>4 DEF ArchiveInv
<1> QED BY <1>2, <1>3

\* The archive of any log: writers may overlap, and die in the middle of a line.
THEOREM ArchiveInvariant == Spec => []ArchiveInv
<1>1. Init => ArchiveInv
  <2> SUFFICES ASSUME Init PROVE ArchiveInv
    OBVIOUS
  <2>1. file = <<>> /\ Len(file) = 0 /\ file \in Seq({})
    BY EmptySeq DEF Init
  <2>2. tail \in [Writers -> {Closed}] /\ \A w \in Writers : tail[w] = Closed
    BY DEF Init
  <2>3. LinesAccounted /\ StampsDiffer /\ HeadsProper /\ LostStayLost
    BY <2>1, <2>2 DEF Init, LinesAccounted, StampsDiffer, HeadsProper, LostStayLost
  <2> QED BY <2>1, <2>2, <2>3 DEF Init, ArchiveInv
<1>2. ArchiveInv /\ [Next]_vars => ArchiveInv'
  <2> SUFFICES ASSUME ArchiveInv, [Next]_vars PROVE ArchiveInv'
    OBVIOUS
  <2>1. CASE Harm
    <3>1. PICK i \in DOMAIN file :
            \/ EditEntry(i) \/ DropEntry(i) \/ RepeatEntry(i) \/ SwapEntries(i)
            \/ Truncate(i) \/ Rewrite(i)
      BY <2>1 DEF Harm
    <3>2. CASE Truncate(i) \/ Rewrite(i)
      BY <3>2, ArchiveTruncate
    <3>3. CASE EditEntry(i) \/ DropEntry(i) \/ RepeatEntry(i) \/ SwapEntries(i)
      <4>1. /\ harm = "none" /\ harm' \in {"edit", "drop", "repeat", "swap"}
            /\ UNCHANGED <<tail, stamps, lost>>
        BY <3>3 DEF EditEntry, DropEntry, RepeatEntry, SwapEntries, Altered, Harmed
      <4> QED BY <4>1 DEF ArchiveInv
    <3> QED BY <3>1, <3>2, <3>3
  <2>2. CASE UNCHANGED vars
    <3>1. UNCHANGED <<file, ragged, tail, stamps, anchors, harm, lost>>
      BY <2>2 DEF vars
    <3>2. LinesAccounted /\ StampsDiffer => LinesAccounted' /\ StampsDiffer'
      BY <3>1 DEF LinesAccounted, StampsDiffer, IsEntry
    <3>3. HeadsProper /\ LostStayLost => HeadsProper' /\ LostStayLost'
      BY <3>1 DEF HeadsProper, LostStayLost, Stamped
    <3> QED BY <3>1, <3>2, <3>3 DEF ArchiveInv
  <2> QED BY <2>1, <2>2, ArchiveWriter DEF Next
<1> QED BY <1>1, <1>2, PTL DEF Spec

\* A truncation or rewriting of the end shows against every anchor of what it removed (anchor(), verify()),
\* after any number of later entries, also of writers that overlap.
THEOREM RemovalShowsCorrect == Spec => []RemovalShows
<1>1. ArchiveInv => RemovalShows
  <2> SUFFICES ASSUME ArchiveInv, NEW a \in anchors, a.hash \in lost PROVE ~AnchorHolds(a)
    BY DEF RemovalShows
  <2>1. harm \in {"truncate", "rewrite"} /\ HeadsProper /\ LostStayLost
    BY DEF ArchiveInv
  <2>2. PICK S : file \in Seq(S)
    BY <2>1 DEF ArchiveInv
  <2>3. PICK q, n, p : a.hash = Digest(q, n, p)
    BY <2>1 DEF LostStayLost, Stamped
  <2>4. a.seq \in Nat \ {0}
    BY <2>1, <2>3 DEF HeadsProper, Beginning, Genesis, Digest
  <2>5. ASSUME a.seq <= Len(file) PROVE file[a.seq].hash # a.hash
    <3>1. a.seq \in 1..Len(file)
      BY <2>2, <2>4, <2>5, LenProperties
    <3> QED BY <2>1, <3>1 DEF LostStayLost
  <2> QED BY <2>4, <2>5 DEF AnchorHolds
<1> QED BY <1>1, ArchiveInvariant, PTL
==============================================================================
