---------------------------- MODULE SessionStore ----------------------------
(***************************************************************************)
(* One session in the JSONL store (src/src/persistence_jsonl.rs) and its   *)
(* resident copy (src/src/session.rs, SessionStore and Session): creation, *)
(* appends whose write or sync fails or is cut short by a crash, restart,  *)
(* restoration and deletion.                                               *)
(*                                                                         *)
(* The file is a sequence of writes.  A write is `whole' when all of its   *)
(* record reached the file, `bare' when only the last byte is missing (the *)
(* newline of a raw record) and `torn' when it breaks off earlier.  An     *)
(* event is the number of the append that carried it.                      *)
(***************************************************************************)
EXTENDS Integers, Sequences, FiniteSets, SequencesExt

CONSTANTS
  Formats,     \* JsonlStorageFormat: raw, zstd
  MaxAppends,  \* bound: appends tried
  MaxRestarts  \* bound: process restarts

VARIABLES
  format,    \* the encoding of the log
  exists,    \* whether the file exists
  file,      \* the writes that reached it
  cut,       \* how a reader resynchronises behind a torn frame
  resident,  \* whether the session is in SessionStore.live
  mem,       \* its SessionState.events
  acked,     \* events whose append returned Ok, with their sequence numbers
  tried,     \* appends tried so far
  restarts

vars == <<format, exists, file, cut, resident, mem, acked, tried, restarts>>

Init ==
  /\ format \in Formats /\ cut = "none" /\ exists = FALSE /\ resident = FALSE
  /\ file = <<>> /\ mem = <<>> /\ acked = {} /\ tried = 0 /\ restarts = 0

-----------------------------------------------------------------------------
(* Reading the file *)

Events(writes) == [i \in DOMAIN writes |-> writes[i].event]

\* Where a write that is not whole is followed by another one.
Buried(writes) == \E i \in 1 .. Len(writes) - 1 : writes[i].end # "whole"

\* The first write that is not whole, 0 when there is none.
FirstCut(writes) == SelectInSeq(writes, LAMBDA w : w.end # "whole")

\* parse_raw_records: a line that ends in a newline and is made of two writes
\* is malformed; a last line without its newline counts when it is one bare
\* record and is skipped otherwise.
ParseRaw(writes) ==
  LET n == FirstCut(writes)
  IN  IF n = 0 THEN Events(writes)
      ELSE IF n = Len(writes) /\ writes[n].end = "bare" THEN Events(writes)
      ELSE Events(SubSeq(writes, 1, n - 1))

MalformedRaw(writes) ==
  \E i \in 2 .. Len(writes) : writes[i].end = "whole" /\ writes[i - 1].end # "whole"

\* parse_zstd_records: a last frame that is too short ends the log.  Bytes
\* behind it are taken for the rest of its header or body: they fail the
\* checksum, or the length they spell runs past the end of the file.
ParseZstd(writes) ==
  LET n == FirstCut(writes)
  IN  IF n = 0 THEN Events(writes) ELSE Events(SubSeq(writes, 1, n - 1))

MalformedZstd(writes) == Buried(writes) /\ cut = "checksum"

\* read_session, parse_session.
Stored == IF format = "raw" THEN ParseRaw(file) ELSE ParseZstd(file)
Readable == exists /\ ~IF format = "raw" THEN MalformedRaw(file) ELSE MalformedZstd(file)

-----------------------------------------------------------------------------
(* JsonlSessionPersistence::create and create_seeded write a temporary file  *)
(* and rename it; the sync of the directory may fail after the rename.       *)
Create ==
  /\ ~exists /\ ~resident /\ exists' = TRUE
  /\ resident' \in BOOLEAN
  /\ file' = <<>> /\ mem' = <<>>
  /\ UNCHANGED <<format, cut, acked, tried, restarts>>

Write(end) == Append(file, [event |-> tried', end |-> end])

\* What a reader makes of the bytes behind a torn frame is fixed when they
\* are written.
Resync ==
  IF format = "zstd" /\ Buried(file') /\ ~Buried(file)
  THEN cut' \in {"checksum", "length"} ELSE cut' = cut

Acknowledge ==
  /\ mem' = Append(mem, tried')
  /\ acked' = acked \cup {<<Len(mem), tried'>>}

\* Mutant: the sequence number is not compared with the stored log's.
AppendUnchecked(outcome) ==
  /\ resident /\ tried < MaxAppends /\ tried' = tried + 1 /\ Readable
  /\ file' = Write("whole") /\ Resync
  /\ IF outcome = "ok" THEN Acknowledge ELSE UNCHANGED <<mem, acked>>
  /\ UNCHANGED <<format, exists, resident, restarts>>

\* Session::append_under_gate with JsonlSessionPersistence::append: the whole
\* log is read, the sequence number compared, the record written and synced,
\* and only then admitted to memory.
AppendEvent(outcome) ==
  /\ resident /\ tried < MaxAppends /\ tried' = tried + 1
  /\ IF ~Readable \/ Len(Stored) # Len(mem)
     THEN outcome = "refused" /\ UNCHANGED <<file, cut, mem, acked>>
     ELSE \/ outcome = "ok" /\ file' = Write("whole") /\ Resync /\ Acknowledge
          \/ outcome = "unsynced" /\ file' = Write("whole") /\ Resync /\ UNCHANGED <<mem, acked>>
          \/ /\ outcome = "cut" /\ \E end \in {"torn", "bare"} : file' = Write(end)
             /\ Resync /\ UNCHANGED <<mem, acked>>
          \/ outcome = "refused" /\ UNCHANGED <<file, cut, mem, acked>>
  /\ UNCHANGED <<format, exists, resident, restarts>>

\* The process ends, between two operations or inside the write of an append.
Crash ==
  /\ resident /\ restarts < MaxRestarts /\ restarts' = restarts + 1
  /\ resident' = FALSE /\ mem' = <<>>
  /\ \/ UNCHANGED <<file, cut, tried>>
     \/ /\ Readable /\ Len(Stored) = Len(mem)
        /\ tried < MaxAppends /\ tried' = tried + 1
        /\ \E end \in {"torn", "bare", "whole"} : file' = Write(end)
        /\ Resync
  /\ UNCHANGED <<format, exists, acked>>

\* SessionStore::restore of a log with no open turn.
Restore ==
  /\ ~resident /\ Readable
  /\ resident' = TRUE /\ mem' = Stored
  /\ UNCHANGED <<format, exists, file, cut, acked, tried, restarts>>

\* JsonlSessionPersistence::delete, after which the host evicts the copy.
Delete ==
  /\ exists /\ tried < MaxAppends /\ tried' = tried + 1
  /\ exists' = FALSE /\ resident' = FALSE
  /\ file' = <<>> /\ mem' = <<>> /\ acked' = {} /\ cut' = "none"
  /\ UNCHANGED <<format, restarts>>

Next ==
  \/ Create \/ Crash \/ Restore \/ Delete
  \/ \E o \in {"ok", "unsynced", "cut", "refused"} : AppendEvent(o)

Spec == Init /\ [][Next]_vars

-----------------------------------------------------------------------------
\* Every acknowledged event is read back under its number, and the resident
\* log is a prefix of the stored one, through failed writes, failed syncs and
\* crashes, as long as nothing was written behind a record that is not whole
\* (append's read-compare-write, parse_raw_records, parse_zstd_records).
AcknowledgedIsStored ==
  exists /\ ~Buried(file) =>
    /\ Readable
    /\ \A a \in acked : a[1] < Len(Stored) /\ Stored[a[1] + 1] = a[2]
    /\ resident => IsPrefix(mem, Stored)

\* src/src/session.rs: "The persistence append is the commit point": a log the
\* store has read and appended to stays readable with everything it
\* acknowledged.
CommittedStaysReadable ==
  exists =>
    /\ Readable
    /\ \A a \in acked : a[1] < Len(Stored) /\ Stored[a[1] + 1] = a[2]
=============================================================================
