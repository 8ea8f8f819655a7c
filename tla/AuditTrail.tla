---------------------------- MODULE AuditTrail -----------------------------
(***************************************************************************)
(* The two audit logs of the agent: the trail of requests, which           *)
(* observability.py writes through one handle that it keeps open, and the  *)
(* log of tool calls, which permissions.py opens for each line and         *)
(* GET /permissions/audit-log of main.py reads back.  Disks fill up and    *)
(* empty, paths cannot be opened for a while, the agent is restarted.      *)
(* Lines are the numbers of the events they tell of.                       *)
(***************************************************************************)
EXTENDS Naturals, Sequences, SequencesExt, FiniteSets

CONSTANTS
  Recent,      \* lines that the endpoint reads back: 100
  BufferLines, \* lines that the handle's buffer holds: 8 kB of them
  MaxEvents,   \* bound: events of the trail
  MaxCalls,    \* bound: calls of tools
  Garbled      \* a line made of two pieces, which does not parse

ASSUME AuditAssumption ==
  /\ {Recent, BufferLines} \subseteq Nat \ {0}
  /\ {MaxEvents, MaxCalls} \subseteq Nat
  /\ Garbled \notin Nat

VARIABLES
  openable,  \* the log directory and the files in it can be opened
  room,      \* the disk has room
  trail,     \* AUDIT_LOG_PATH of observability.py
  handle,    \* _file of the logger: None, the trail or os.devnull
  pending,   \* lines in the handle's buffer
  begun,     \* the first of them is partly on the disk
  events,    \* number of events so far
  since,     \* history: events before the trail was opened
  full,      \* history: the buffer has overflown since
  toolLog,   \* audit_log_path of permissions.py
  calls,     \* number of tool calls so far
  torn,      \* history: lines of the tool log whose writing failed
  reply      \* the endpoint's latest answer

world == <<openable, room>>
trailVars == <<trail, handle, pending, begun, events, since, full>>
toolVars == <<toolLog, calls, torn>>
vars == <<world, trailVars, toolVars, reply>>

(* A file's lines, and whether it ends in a piece of one.  A piece is not  *)
(* JSON of its own, and what is appended to it makes one line with it.     *)
File(n) == [lines : Seq(1..n \cup {Garbled}), cut : BOOLEAN]
NewFile == [lines |-> <<>>, cut |-> FALSE]
Extend(f, new) ==
  IF new = <<>> THEN f
  ELSE [lines |-> f.lines \o (IF f.cut THEN <<Garbled>> \o Tail(new) ELSE new),
        cut |-> FALSE]

TypeOK ==
  /\ openable \in BOOLEAN /\ room \in BOOLEAN
  /\ trail \in File(MaxEvents) /\ toolLog \in File(MaxCalls)
  /\ handle \in {"none", "file", "devnull"}
  /\ pending \in Seq(1..MaxEvents) /\ Len(pending) <= BufferLines
  /\ begun \in BOOLEAN /\ (begun => pending # <<>>)
  /\ events \in 0..MaxEvents /\ since \in 0..events /\ full \in BOOLEAN
  /\ calls \in 0..MaxCalls /\ torn \in 0..calls
  /\ reply.kind \in {"none", "entries", "error", "raised"}
  /\ reply.entries \in Seq(1..MaxCalls) /\ Len(reply.entries) <= Recent
  /\ reply.at \in 0..calls

Init ==
  /\ openable \in BOOLEAN /\ room \in BOOLEAN
  /\ trail = NewFile /\ toolLog = NewFile
  /\ handle = "none" /\ pending = <<>> /\ begun = FALSE
  /\ events = 0 /\ since = 0 /\ full = FALSE
  /\ calls = 0 /\ torn = 0
  /\ reply = [kind |-> "none", entries |-> <<>>, at |-> 0]
-----------------------------------------------------------------------------
(* StructuredAuditLogger.                                                  *)
(* What cannot be opened is os.devnull for the rest of the process.        *)
_ensure_file ==
  /\ handle' = IF handle # "none" THEN handle
               ELSE IF openable THEN "file" ELSE "devnull"
  /\ since' = IF handle = "none" THEN events ELSE since

(* A flush that fails keeps in the buffer what it has not written ...      *)
FlushFailsAgain(lines) ==   \* mutant: all is written again after a failure
  \E n \in 0..Len(lines) :
    /\ trail' = Extend(trail, SubSeq(lines, 1, n))
    /\ pending' = lines /\ begun' \in BOOLEAN

FlushFails(lines) ==
  \E n \in 0..(Len(lines) - 1) :
    /\ trail' = Extend(trail, SubSeq(lines, 1, n))
    /\ pending' = SubSeq(lines, n + 1, Len(lines))
    /\ begun' \in IF n = 0 THEN {begun, TRUE} ELSE BOOLEAN

(* ... and the next one goes on from there.                                *)
Flush(lines) ==
  /\ trail' = Extend(trail, lines)
  /\ pending' = <<>> /\ begun' = FALSE

WriteDropping(lines) ==   \* mutant: a failed write throws the buffer away
  \/ room /\ Flush(lines)
  \/ ~room /\ pending' = <<>> /\ begun' = FALSE /\ UNCHANGED trail

WriteUnbounded(lines) ==   \* mutant: the buffer takes everything
  \/ room /\ Flush(lines)
  \/ ~room /\ FlushFails(lines)

Overflows(lines) == ~room /\ Len(lines) > BufferLines

(* A line for which the buffer has no room is lost.                        *)
Write(lines) ==
  \/ room /\ Flush(lines)
  \/ ~room /\ ~Overflows(lines) /\ FlushFails(lines)
  \/ Overflows(lines) /\ FlushFails(pending)

(* Errors are logged and end there, whatever the caller does.              *)
log ==
  /\ events < MaxEvents /\ events' = events + 1
  /\ _ensure_file
  /\ \/ /\ handle' = "file"
        /\ Write(Append(pending, events'))
        /\ full' = ((handle # "none" /\ full) \/ Overflows(Append(pending, events')))
     \/ handle' = "devnull" /\ UNCHANGED <<trail, pending, begun, full>>
  /\ UNCHANGED <<world, toolVars, reply>>

(* Refusals of the rate limiter and queries.  A query whose run has failed *)
(* gets the same line as one that succeeded: error is always "".           *)
log_auth == log
log_query == log
-----------------------------------------------------------------------------
audit_logGivingUp ==   \* mutant: a failed write turns the log off
  /\ calls < MaxCalls /\ calls' = calls + 1
  /\ \/ torn = 0 /\ openable /\ room
          /\ toolLog' = Extend(toolLog, <<calls'>>) /\ UNCHANGED torn
     \/ torn = 0 /\ ~(openable /\ room) /\ torn' = 1 /\ UNCHANGED toolLog
     \/ torn > 0 /\ UNCHANGED <<toolLog, torn>>
  /\ UNCHANGED <<world, trailVars, reply>>

(* audit_log of permissions.py: every OSError is passed over.              *)
audit_log ==
  /\ calls < MaxCalls /\ calls' = calls + 1
  /\ \/ openable /\ room /\ toolLog' = Extend(toolLog, <<calls'>>) /\ UNCHANGED torn
     \/ ~openable /\ torn' = torn + 1 /\ UNCHANGED toolLog
     \/ openable /\ ~room /\ torn' = torn + 1
          /\ toolLog' \in {toolLog, [toolLog EXCEPT !.cut = TRUE]}
  /\ UNCHANGED <<world, trailVars, reply>>

Least(a, b) == IF a < b THEN a ELSE b

FirstLines(lines) ==   \* mutant: lines[:100]
  SubSeq(lines, 1, Least(Recent, Len(lines)))

LastLines(lines) ==
  SubSeq(lines, Len(lines) - Least(Recent, Len(lines)) + 1, Len(lines))

Reply(kind, entries) == [kind |-> kind, entries |-> entries, at |-> calls]

(* The last lines are parsed, and one that is not JSON makes the endpoint  *)
(* raise: only OSError is caught.                                          *)
Entries(lines) ==
  IF Garbled \in ToSet(lines) THEN Reply("raised", <<>>) ELSE Reply("entries", lines)

get_audit_log ==
  /\ reply' = IF ~openable THEN Reply("error", <<>>)
               ELSE Entries(LastLines(
                      IF toolLog.cut THEN Append(toolLog.lines, Garbled) ELSE toolLog.lines))
  /\ UNCHANGED <<world, trailVars, toolVars>>
-----------------------------------------------------------------------------
WorldChanges ==
  /\ \/ openable' = ~openable /\ UNCHANGED room
     \/ room' = ~room /\ UNCHANGED openable
  /\ UNCHANGED <<trailVars, toolVars, reply>>

(* The agent ends, is killed, or tries for the last time to flush.         *)
Restart ==
  /\ handle' = "none" /\ pending' = <<>> /\ begun' = FALSE
  /\ \/ room /\ trail' = Extend(trail, pending)
     \/ trail' = [trail EXCEPT !.cut = @ \/ begun]
  /\ UNCHANGED <<world, toolVars, events, since, full, reply>>

Next ==
  \/ log_auth \/ log_query \/ audit_log \/ get_audit_log
  \/ WorldChanges \/ Restart

Spec == Init /\ [][Next]_vars
-----------------------------------------------------------------------------
OnDisk == ToSet(trail.lines)

(* Through failed writes, later flushes and restarts, the trail tells of   *)
(* every event at most once and in the order in which they happened.       *)
TrailInOrder ==
  \A i, j \in DOMAIN trail.lines :
    i < j /\ Garbled \notin {trail.lines[i], trail.lines[j]}
      => trail.lines[i] < trail.lines[j]

(* While the trail is open and its buffer has not overflowed, a full disk  *)
(* delays events and loses none; only the line that is joined to what a    *)
(* former process left unfinished cannot be read (StructuredAuditLogger).  *)
TrailComplete ==
  handle = "file" /\ ~full
    => \A e \in since + 1 .. events :
         \/ e \in OnDisk \/ e \in ToSet(pending)
         \/ e = since + 1 /\ Garbled \in OnDisk

(* A failed write of the tool log costs its own line and at most one other,*)
(* the next that is written: errors of one call do not silence the rest.   *)
LossesAreBounded ==
  Cardinality(1..calls \ ToSet(toolLog.lines)) <= 2 * torn

(* As long as every line could be written, the endpoint answers with the   *)
(* latest entries, none of them left out (get_audit_log, audit_log).       *)
AnswersAreTheLatest ==
  reply.kind = "entries" /\ torn = 0 =>
    LET n == Least(Recent, reply.at)
    IN  reply.entries = [i \in 1..n |-> reply.at - n + i]
=============================================================================
