------------------------------ MODULE Capture ------------------------------
(***************************************************************************)
(* The archive writer of live/capture.py over the write-once archive of    *)
(* layers/l1_data/archive.py: raw messages are buffered per stream and     *)
(* written out as part files, each followed by its checksum.  The process  *)
(* may be stopped, may find the disk full, and may die at any point, in a  *)
(* flush too; it may be started again.                                     *)
(*                                                                         *)
(* A record is the number of its arrival.  Its hour is what the archive    *)
(* partitions by.                                                          *)
(***************************************************************************)
EXTENDS Integers, Sequences, FiniteSets, SequencesExt

CONSTANTS
  Stream,      \* the streams of the venue
  Batch,       \* CaptureConfig.batch
  MinPart,     \* CaptureConfig.min_part_records
  CheckEvery,  \* CaptureConfig.disk_check_every
  MaxRecords,  \* the model receives this many records
  LastHour     \* and its clock stops here

ASSUME CaptureAssumption ==
  /\ IsFiniteSet(Stream) /\ LastHour \in Nat /\ MaxRecords \in Nat
  /\ Batch \in Nat \ {0} /\ CheckEvery \in Nat \ {0} /\ MinPart \in 1..Batch

VARIABLES
  buffers,  \* ArchiveWriter._buffers
  parts,    \* the part files: where each one is, its rows, is its checksum there
  writer,   \* "running", "stopping", "down"
  checks,   \* ArchiveWriter._since_disk_check
  due,      \* has flush_interval_ns passed since the last flush?
  full,     \* is there less free space than min_free_bytes?
  hour,     \* the clock
  arrived,  \* history: the stream and the hour of each record
  lost      \* history: the records that were buffered when a process ended

captureVars == <<buffers, parts, writer, checks, due, full, hour, arrived, lost>>

NoBuffers == [s \in Stream |-> <<>>]
Unwritten(b) == UNION {ToSet(b[s]) : s \in Stream}

-----------------------------------------------------------------------------
(* RawArchive.                                                             *)

Directory(s, h) == {p \in parts : p.stream = s /\ p.hour = h}

FirstIndex(s, h) == 0
\* _next_part: the first index that is free
Free(s, h) == CHOOSE i \in 0..Cardinality(parts) :
  /\ \A p \in Directory(s, h) : p.index # i
  /\ \A j \in 0..i - 1 : \E p \in Directory(s, h) : p.index = j

\* write: the rows go where the first of them belongs; the digest follows
Part(s, rows, sum) ==
  LET h == arrived'[rows[1]].hour
  IN [stream |-> s, hour |-> h, index |-> Free(s, h), rows |-> rows, sum |-> sum]
\* a path that exists is opened for writing again
Written(new) ==
  {p \in parts : \A n \in new : <<p.stream, p.hour, p.index>> # <<n.stream, n.hour, n.index>>}
    \cup new

PathBefore(p, q) == p.hour < q.hour \/ (p.hour = q.hour /\ p.index < q.index)
\* parts and read_part: a part without its digest is refused
Readable(s) == {p \in parts : p.stream = s /\ p.sum}

-----------------------------------------------------------------------------
(* ArchiveWriter.                                                          *)

Ready(b, force) == {s \in Stream : Len(b[s]) >= IF force THEN 1 ELSE MinPart}
\* one part for each stream, all with their digests but the torn ones
WriteOut(b, streams, torn) == Written({Part(s, b[s], s \notin torn) : s \in streams})
Emptied(b, streams) == [s \in Stream |-> IF s \in streams THEN <<>> ELSE b[s]]

\* the timer, or any buffer that is full
ShouldFlush(b) == due \/ \E s \in Stream : Len(b[s]) >= Batch

\* The process ends, and what it had not written out is lost.
Dies(b, streams) ==
  /\ writer' = "down" /\ buffers' = NoBuffers
  /\ lost' = lost \cup Unwritten(Emptied(b, streams))

\* flush: every part is out, or the disk is found full before one of them and
\* DiskFull stops the writer, or the process dies on the way, perhaps between a
\* part and its digest.
Writes(b, force, out, torn) ==
  /\ out \subseteq Ready(b, force) /\ (full => out = {})
  /\ torn \subseteq out /\ Cardinality(torn) <= 1
  /\ parts' = WriteOut(b, out, torn)

Flush(b, force) ==
  \E out, torn \in SUBSET Stream :
    /\ Writes(b, force, out, torn)
    /\ \/ /\ torn = {} /\ out = Ready(b, force)
          /\ buffers' = Emptied(b, out) /\ due' = FALSE
          /\ UNCHANGED <<writer, lost>>
       \/ /\ torn = {} /\ out # Ready(b, force)
          /\ buffers' = Emptied(b, out) /\ writer' = "stopping"
          /\ UNCHANGED <<due, lost>>
       \/ Dies(b, out \ torn) /\ UNCHANGED due

Offer(s) ==
  LET r == Len(arrived) + 1
      after == [buffers EXCEPT ![s] = Append(@, r)]
      checked == checks + 1 >= CheckEvery
  IN
  /\ writer = "running" /\ r <= MaxRecords
  /\ arrived' = Append(arrived, [stream |-> s, hour |-> hour])
  /\ checks' = IF checked THEN 0 ELSE checks + 1
  /\ CASE checked /\ full ->
            /\ writer' = "stopping" /\ buffers' = after
            /\ UNCHANGED <<parts, due, lost>>
       [] ~(checked /\ full) /\ ShouldFlush(after) -> Flush(after, FALSE)
       [] OTHER -> buffers' = after /\ UNCHANGED <<parts, due, writer, lost>>
  /\ UNCHANGED <<full, hour>>

StopCapture ==
  /\ writer = "running"
  /\ writer' = "stopping"
  /\ UNCHANGED <<buffers, parts, checks, due, full, hour, arrived, lost>>

\* close, from the runner's finally, is the last flush; however it goes, the
\* process ends after it
Close ==
  /\ writer = "stopping"
  /\ arrived' = arrived
  /\ \E out, torn \in SUBSET Stream :
       Writes(buffers, TRUE, out, torn) /\ Dies(buffers, out \ torn)
  /\ UNCHANGED <<checks, due, full, hour>>

\* the process dies where it is not writing
Crash ==
  /\ writer # "down"
  /\ Dies(buffers, {})
  /\ UNCHANGED <<parts, checks, due, full, hour, arrived>>

StartCapture ==
  /\ writer = "down"
  /\ writer' = "running"
  /\ checks' = 0 /\ due' = FALSE
  /\ UNCHANGED <<buffers, parts, full, hour, arrived, lost>>

World ==
  /\ \/ ~due /\ due' = TRUE /\ UNCHANGED <<full, hour>>
     \/ full' = ~full /\ UNCHANGED <<due, hour>>
     \/ hour < LastHour /\ hour' = hour + 1 /\ UNCHANGED <<due, full>>
  /\ UNCHANGED <<buffers, parts, writer, checks, arrived, lost>>

CaptureInit ==
  /\ buffers = NoBuffers /\ parts = {} /\ writer = "running"
  /\ checks = 0 /\ due = FALSE /\ full = FALSE /\ hour = 0
  /\ arrived = <<>> /\ lost = {}

CaptureNext ==
  (\E s \in Stream : Offer(s)) \/ StopCapture \/ Close \/ Crash \/ StartCapture \/ World

CaptureSpec == CaptureInit /\ [][CaptureNext]_captureVars

-----------------------------------------------------------------------------
(* Properties.                                                             *)

Rising(rows) == \A i, j \in DOMAIN rows : i < j => rows[i] < rows[j]
Precede(rows, others) == \A i \in DOMAIN rows, j \in DOMAIN others : rows[i] < others[j]

\* The parts of a stream, read back by path, and then its buffer are what
\* arrived of it, in that order, but for what a process that ended had still in
\* its buffers: over hours, buffers kept back for being short, a full disk and
\* crashes in a flush nothing is written twice, overwritten, skipped or moved.
ArchiveIsTheStream == \A s \in Stream :
  /\ Rising(buffers[s])
  /\ \A p \in Readable(s) : Rising(p.rows) /\ Precede(p.rows, buffers[s])
  /\ \A p, q \in Readable(s) : p # q =>
       \/ PathBefore(p, q) /\ Precede(p.rows, q.rows)
       \/ PathBefore(q, p) /\ Precede(q.rows, p.rows)
  /\ (UNION {ToSet(p.rows) : p \in Readable(s)}) \cup ToSet(buffers[s])
       = {r \in DOMAIN arrived : arrived[r].stream = s /\ r \notin lost}
=============================================================================
