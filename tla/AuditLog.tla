------------------------------ MODULE AuditLog ------------------------------
(***************************************************************************)
(* The hash-chained audit log of layers/l7_observability/audit.py over a   *)
(* file that cannot always be written.  A record's hash is the record      *)
(* itself, so what follows it holds a reference to it: [seq, prev, id].    *)
(* A process that starts again begins a chain of its own on the same file. *)
(***************************************************************************)
EXTENDS Integers, Sequences, FiniteSets, SequencesExt

CONSTANTS
  BufferLimit,  \* AuditLog.buffer_limit
  MaxAudited,   \* the model makes this many records
  Lives         \* and starts this many processes

ASSUME AuditAssumption ==
  BufferLimit \in Nat \ {0} /\ MaxAudited \in Nat /\ Lives \in Nat

Genesis == 0

VARIABLES
  file,     \* the lines on disk
  chain,    \* AuditLog: seq, last_hash, _buffer and halted
  path,     \* can the file be written?
  audited,  \* history: how many records were made, and the ids a crash took
  life      \* which process this is, and was every write of it good?

auditVars == <<file, chain, path, audited, life>>

NewChain == [seq |-> 0, last |-> Genesis, buffer |-> <<>>, halted |-> FALSE]
Ids(lines) == {lines[i].id : i \in DOMAIN lines}

\* a deque that makes room
Squeezed(backlog, line) ==
  IF Len(backlog) + 1 >= BufferLimit THEN Append(Tail(backlog), line) ELSE Append(backlog, line)
Buffered(backlog, line) == Append(backlog, line)
Emitted(out, buffer) ==
  [out |-> out, buffer |-> buffer, halts |-> buffer # <<>> /\ Len(buffer) >= BufferLimit]

\* _emit: the line goes out and the backlog after it, or joins the backlog.
\* written is how many writes succeed before the path fails, if it does.
Emit(c, line, written) ==
  LET backlog == c.buffer IN
  CASE written = 0 -> Emitted(<<>>, Buffered(backlog, line))
    [] written = Len(backlog) + 1 -> Emitted(<<line>> \o backlog, <<>>)
    [] OTHER -> Emitted(<<line>> \o SubSeq(backlog, 1, written - 1),
                        Buffered(SubSeq(backlog, written, Len(backlog)), line))

\* record: a halted log raises; otherwise the chain moves on whatever becomes
\* of the line
Record(written) ==
  LET line == [seq |-> chain.seq + 1, prev |-> chain.last, id |-> audited.made + 1]
      done == Emit(chain, line, written)
  IN
  /\ ~chain.halted /\ audited.made < MaxAudited
  /\ written \in 0..Len(chain.buffer) + 1
  /\ path = "up" => written = Len(chain.buffer) + 1
  /\ path = "down" => written < Len(chain.buffer) + 1
  /\ file' = file \o done.out
  /\ chain' = [seq |-> line.seq, last |-> line.id, buffer |-> done.buffer, halted |-> done.halts]
  /\ audited' = [audited EXCEPT !.made = @ + 1]
  /\ life' = [life EXCEPT !.good = @ /\ path = "up"]
  /\ UNCHANGED path

PathChanges ==
  /\ path' = IF path = "up" THEN "down" ELSE "up"
  /\ UNCHANGED <<file, chain, audited, life>>

\* the process ends and another one opens the same file
NewProcess ==
  /\ life.number < Lives
  /\ life' = [number |-> life.number + 1, good |-> life.good]
  /\ audited' = [audited EXCEPT !.gone = @ \cup Ids(chain.buffer)]
  /\ chain' = NewChain
  /\ UNCHANGED <<file, path>>

AuditInit ==
  /\ file = <<>> /\ chain = NewChain /\ path = "up"
  /\ audited = [made |-> 0, gone |-> {}]
  /\ life = [number |-> 1, good |-> TRUE]

AuditNext ==
  (\E written \in 0..BufferLimit : Record(written)) \/ PathChanges \/ NewProcess

AuditSpec == AuditInit /\ [][AuditNext]_auditVars

-----------------------------------------------------------------------------
\* verify_chain
Verifies(lines) == \A i \in DOMAIN lines :
  /\ lines[i].seq = i
  /\ lines[i].prev = IF i = 1 THEN Genesis ELSE lines[i - 1].id

\* recover lets a halted log go on once its backlog is written
MayRecover == chain.halted /\ chain.buffer = <<>>

\* No record is lost while its process lives: it is in the file or in the
\* backlog, and the log stops taking more exactly when the backlog is full.
\* A log that takes no records writes none, so a halt is never recovered from.
\* What is left of an outage is that the file does not verify any more: the
\* records are all there, but behind the one whose write found the path restored.
NothingForgotten ==
  /\ Ids(file) \cup Ids(chain.buffer) \cup audited.gone = 1..audited.made
  /\ chain.halted <=> Len(chain.buffer) >= BufferLimit
  /\ ~MayRecover
  /\ life.number = 1 /\ chain.buffer = <<>> => (Verifies(file) <=> life.good)

=============================================================================
