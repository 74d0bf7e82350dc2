------------------------------- MODULE AuditLog -------------------------------
(***************************************************************************)
(* storage/audit_log.py: one log file, the AuditLog objects that write it,  *)
(* each with the sequence number and hash it believes to be the last, and   *)
(* the verification of the chain.                                           *)
(*                                                                         *)
(* A line is an entry or the torn end of one.  What an entry says (time,    *)
(* run, event, payload and the hash of it) is its stamp, which no other     *)
(* entry has.  The digest is ideal: two digests are equal exactly when      *)
(* what they are taken of is.  Signatures, which a verifier without the key *)
(* skips, are left out.                                                     *)
(***************************************************************************)
EXTENDS Naturals, Sequences, SequencesExt

CONSTANTS
  Writers,      \* AuditLog objects: coordinator, recovery manager, redrive
  Tears,        \* what a process that dies writing leaves: part of the line, or all but its newline
  Harms,        \* ways in which the file is edited behind the writers' back
  MaxAppends    \* bound: appends, torn ones included

HarmKinds == {"edit", "drop", "repeat", "swap", "truncate", "rewrite"}

ASSUME AuditAssumption ==
  /\ Tears \subseteq {"part", "newline"}
  /\ Harms \subseteq HarmKinds
  /\ MaxAppends \in Nat

VARIABLES
  file,      \* the lines of the log
  ragged,    \* does the last line lack its newline?
  tail,      \* per writer: Closed, or the [seq, hash] it takes for the last
  stamps,    \* stamps given out
  anchors,   \* heads recorded outside the log
  harm,      \* how the file was edited: "none" or one of Harms
  lost,      \* hashes of the entries that were removed from the end
  overlapped \* were two objects open on the log at once before it was edited?

vars == <<file, ragged, tail, stamps, anchors, harm, lost, overlapped>>

Genesis == <<>>
Closed == [seq |-> 0, hash |-> <<"closed">>]
Beginning == [seq |-> 0, hash |-> Genesis]
Torn == [seq |-> 0, stamp |-> 0, prev |-> Genesis, hash |-> Genesis]
Readable(line) == line.seq # 0

\* compute_entry_hash.  A bug: the digest does not cover what the entry says.
DigestOfPlace(seq, stamp, prev) == <<seq, prev>>
Digest(seq, stamp, prev) == <<seq, stamp, prev>>

\* The entry append() builds on a tail.
EntryAfter(t, stamp) ==
  [seq   |-> t.seq + 1,
   stamp |-> stamp,
   prev  |-> t.hash,
   hash  |-> Digest(t.seq + 1, stamp, t.hash)]

HeadOf(line) == [seq |-> line.seq, hash |-> line.hash]

Init ==
  /\ file = <<>>
  /\ ragged = FALSE
  /\ tail = [w \in Writers |-> Closed]
  /\ stamps = 0
  /\ anchors = {}
  /\ harm = "none"
  /\ lost = {}
  /\ overlapped = FALSE
------------------------------------------------------------------------------
(* Writers *)

\* A bug: whoever opens the log takes it for empty.
FreshTail(lines) == Beginning

\* _load_tail, which raises on a last line that is not an entry.
TailOf(lines) == IF lines = <<>> THEN Beginning ELSE HeadOf(lines[Len(lines)])
TailReadable(lines) == lines # <<>> => Readable(lines[Len(lines)])

Open(w) ==
  /\ tail[w] = Closed
  /\ TailReadable(file)
  /\ tail' = [tail EXCEPT ![w] = TailOf(file)]
  /\ overlapped' = (overlapped \/ (harm = "none" /\ \E v \in Writers : tail[v] # Closed))
  /\ UNCHANGED <<file, ragged, stamps, anchors, harm, lost>>

\* A bug: a line without newline is repaired, by the one that follows.
Repaired(line) == IF ragged THEN [file EXCEPT ![Len(file)] = line] ELSE Append(file, line)
\* What is written after a line without newline continues that line, and ruins it.
Written(line) == IF ragged THEN [file EXCEPT ![Len(file)] = Torn] ELSE Append(file, line)

\* append(): the line is flushed and synced before the cached tail moves on.
AppendEntry(w) ==
  /\ tail[w] # Closed
  /\ stamps < MaxAppends
  /\ LET e == EntryAfter(tail[w], stamps + 1) IN
       /\ file' = Written(e)
       /\ tail' = [tail EXCEPT ![w] = HeadOf(e)]
  /\ ragged' = FALSE
  /\ stamps' = stamps + 1
  /\ UNCHANGED <<anchors, harm, lost, overlapped>>

\* The process dies with part of the line on disk, or all of it but the newline.
TearEntry(w, kind) ==
  /\ tail[w] # Closed
  /\ stamps < MaxAppends
  /\ file' = Written(IF kind = "part" THEN Torn ELSE EntryAfter(tail[w], stamps + 1))
  /\ ragged' = TRUE
  /\ tail' = [tail EXCEPT ![w] = Closed]
  /\ stamps' = stamps + 1
  /\ UNCHANGED <<anchors, harm, lost, overlapped>>

\* The object goes out of use, in good order or because its process died.
Close(w) ==
  /\ tail[w] # Closed
  /\ tail' = [tail EXCEPT ![w] = Closed]
  /\ UNCHANGED <<file, ragged, stamps, anchors, harm, lost, overlapped>>

\* anchor(): the cached head, not the file's, goes to the anchor file.
Anchor(w) ==
  /\ tail[w] # Closed
  /\ anchors' = anchors \cup {tail[w]}
  /\ UNCHANGED <<file, ragged, tail, stamps, harm, lost, overlapped>>
------------------------------------------------------------------------------
(* Edits of the file: those that leave hashes as they are, which verify() is *)
(* to detect, and those of the end of the log, which it cannot.             *)

Harmed(kind, lines) ==
  /\ harm = "none"
  /\ kind \in Harms
  /\ harm' = kind
  /\ file' = lines
  /\ UNCHANGED <<tail, anchors, overlapped>>

Altered(kind, lines) == Harmed(kind, lines) /\ UNCHANGED <<ragged, stamps, lost>>

EditEntry(i) == Altered("edit", [file EXCEPT ![i].stamp = 0])
DropEntry(i) == i < Len(file) /\ Altered("drop", RemoveAt(file, i))
RepeatEntry(i) == Altered("repeat", InsertAt(file, i, file[i]))
SwapEntries(i) ==
  /\ i < Len(file)
  /\ Altered("swap", [file EXCEPT ![i] = file[i + 1], ![i + 1] = file[i]])

\* The end of the log goes, from line i on.
Shortened(kind, i, lines) ==
  /\ Harmed(kind, lines)
  /\ ragged' = FALSE
  /\ lost' = {file[j].hash : j \in {n \in i..Len(file) : Readable(file[n])}}

Truncate(i) ==
  /\ Shortened("truncate", i, SubSeq(file, 1, i - 1))
  /\ UNCHANGED stamps
\* In its place comes an entry with hashes of its own, which take no key.
Rewrite(i) ==
  /\ stamps < MaxAppends
  /\ LET kept == SubSeq(file, 1, i - 1)
     IN Shortened("rewrite", i, Append(kept, EntryAfter(TailOf(kept), stamps + 1)))
  /\ stamps' = stamps + 1

Harm ==
  \E i \in DOMAIN file :
    \/ EditEntry(i) \/ DropEntry(i) \/ RepeatEntry(i) \/ SwapEntries(i)
    \/ Truncate(i) \/ Rewrite(i)

Next ==
  \/ \E w \in Writers :
       \/ Open(w) \/ AppendEntry(w) \/ Close(w) \/ Anchor(w)
       \/ \E kind \in Tears : TearEntry(w, kind)
  \/ Harm

Spec == Init /\ [][Next]_vars
------------------------------------------------------------------------------
(* Verification *)

HashBefore(lines, i) == IF i = 1 THEN Genesis ELSE lines[i - 1].hash

\* A bug: the digest is taken on trust.
LinkedUndigested(lines, i) ==
  /\ lines[i].seq = i
  /\ lines[i].prev = HashBefore(lines, i)

\* One turn of verify()'s loop: prev_hash is the hash of the entry before.
Linked(lines, i) ==
  /\ lines[i].seq = i
  /\ lines[i].prev = HashBefore(lines, i)
  /\ lines[i].hash = Digest(lines[i].seq, lines[i].stamp, lines[i].prev)

\* verify(): valid.  On a line that is not an entry it raises, and so is not.
Verified(lines) == \A i \in DOMAIN lines : Readable(lines[i]) /\ Linked(lines, i)
------------------------------------------------------------------------------
(* Properties *)

\* What writers that take turns have written is one chain (README: an append-only
\* hash chain), over any number of processes: the entries up to the first line that
\* a crash ruined, and all of them if none was, are in place.
ChainIntact ==
  harm = "none" /\ ~overlapped =>
    \A i \in DOMAIN file : (\A j \in 1..i : Readable(file[j])) => Linked(file, i)

\* Of such a chain verify() detects every gap, repetition, change of order and entry
\* that no longer agrees with its hash, and goes on detecting it whatever is
\* appended later, by writers that take turns or not.
EditDetected ==
  harm \in {"edit", "drop", "repeat", "swap"} /\ ~overlapped => ~Verified(file)

AnchorHolds(a) == a.seq = 0 \/ (a.seq <= Len(file) /\ file[a.seq].hash = a.hash)

\* An anchor convicts nobody wrongly: of a log that nobody edited and that verifies,
\* every anchor still holds, though anchor() records the cached head, which need not
\* be the file's when writers overlap and die in the middle of their lines.
AnchorsStand == harm = "none" /\ Verified(file) => \A a \in anchors : AnchorHolds(a)

\* A truncation or a rewriting of the end, which the chain alone cannot show, shows
\* against an anchor of what it removed, even after the log has grown again.
RemovalShows == \A a \in anchors : a.hash \in lost => ~AnchorHolds(a)

\* Refuted (audit_fork.cfg): what the writers have written verifies.
WritersVerify == harm = "none" => Verified(file)

\* Refuted (audit_reopen.cfg): after a crash the next process can open the log,
\* which is the first thing that recovery does.
RecoveryCanOpen == TailReadable(file)
==============================================================================
