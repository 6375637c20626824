------------------------------- MODULE AuditLog -------------------------------
(***************************************************************************)
(* The audit log (internal/audit/logger.go) and writeAudit.  Write holds a *)
(* mutex from beginning to end, so events are written one after the other; *)
(* but each of its file operations can fail, and the process or the        *)
(* machine can stop between any two of them.                               *)
(*                                                                         *)
(* Abstractions: event n is the n-th that gets the mutex; a line of the    *)
(* log is the event, or -n for a piece of event n without its newline; the *)
(* bytes of a line are chosen when it is written.  Each kind of fault      *)
(* happens at most once.  Of the archives only the newest may still be in  *)
(* the machine's cache.                                                    *)
(***************************************************************************)
EXTENDS Integers, Sequences, FiniteSets

CONSTANTS
    MaxBytes,   \* the size at which the log is rotated
    MaxLine,    \* bound: the bytes of a line
    MaxEvents,  \* bound: the events of a behaviour
    Kinds       \* the kinds of fault that may happen

(* What can fail: a call of Write, named by its step; an append may also     *)
(* stop half way ("short"); the process dies, the machine loses power.       *)
FaultKinds == {"stat", "create", "copy", "close", "remove", "truncate", "append", "short", "sync",
               "crash", "power"}

ASSUME AuditAssumption ==
    /\ MaxBytes \in Nat \ {0} /\ MaxLine \in Nat \ {0}
    /\ MaxEvents \in Nat /\ Kinds \subseteq FaultKinds

VARIABLES
    log,       \* the lines of audit.jsonl
    size,      \* its bytes
    line,      \* the bytes of the line that the Write which holds the mutex has written
    archives,  \* the zip files, oldest first: their lines, and whether they can be read
    pc,        \* the next step of the Write that holds the mutex
    next,      \* its event, or the event before if pc = "idle"
    acked,     \* the events for which Write has returned nil
    struck,    \* history: the events in whose Write something went wrong
    faults     \* the faults that have happened

file == <<log, size, line>>
vars == <<file, archives, pc, next, acked, struck, faults>>

Init ==
    /\ log = <<>> /\ size = 0 /\ line = 0
    /\ archives = <<>>
    /\ pc = "idle"
    /\ next = 0
    /\ acked = {}
    /\ struck = {}
    /\ faults = {}

Goto(here, there) == pc = here /\ pc' = there /\ UNCHANGED <<next, acked, struck, faults>>

(* One of the kinds of fault happens, and Write's caller is none the wiser: *)
(* writeAudit drops the event.                                              *)
Drop(here, kinds) ==
    /\ pc = here
    /\ kinds \subseteq Kinds \ faults
    /\ faults' = faults \cup kinds
    /\ struck' = struck \cup {next}
    /\ pc' = "idle"
    /\ UNCHANGED <<next, acked>>

Begin ==
    /\ pc = "idle"
    /\ next < MaxEvents
    /\ next' = next + 1
    /\ pc' = "stat"
    /\ line' = 0
    /\ UNCHANGED <<log, size, archives, acked, struck, faults>>

-----------------------------------------------------------------------------
(* rotateIfNeeded *)

(* Mutant: a log at its limit is not rotated. *)
MStat ==
    /\ Goto("stat", IF size <= MaxBytes THEN "append" ELSE "create")
    /\ UNCHANGED <<file, archives>>

Stat ==
    /\ Goto("stat", IF size < MaxBytes THEN "append" ELSE "create")
    /\ UNCHANGED <<file, archives>>

Newest == Len(archives)

Archive(data, readable) == [archives EXCEPT ![Newest] = [lines |-> data, ok |-> readable]]

(* Mutant: one archive name per day, and O_EXCL. *)
MCreate ==
    /\ archives = <<>>
    /\ Goto("create", "copy")
    /\ archives' = Append(archives, [lines |-> <<>>, ok |-> FALSE])
    /\ UNCHANGED file

(* A new file under a name of its own: without its directory it is no zip. *)
Create ==
    /\ Goto("create", "copy")
    /\ archives' = Append(archives, [lines |-> <<>>, ok |-> FALSE])
    /\ UNCHANGED file

Copy ==
    /\ Goto("copy", "close")
    /\ archives' = Archive(log, FALSE)
    /\ UNCHANGED file

Close ==
    /\ Goto("close", "truncate")
    /\ archives' = Archive(archives[Newest].lines, TRUE)
    /\ UNCHANGED file

(* Mutant: the last line stays behind. *)
MRemaining == SubSeq(log, Len(log), Len(log))

Remaining == <<>>

Truncate ==
    /\ Goto("truncate", "append")
    /\ log' = Remaining /\ size' = 0
    /\ UNCHANGED <<line, archives>>

(* Stat, the archive's creation or the truncation fails: Write returns. *)
StepFails ==
    /\ \E step \in {"stat", "create", "truncate"} : Drop(step, {step})
    /\ UNCHANGED <<file, archives>>

(* Mutant: the archive's error does not stop the truncation. *)
MArchiveFails ==
    /\ \E step \in {"copy", "close"} : Drop(step, {step})
    /\ archives' = SubSeq(archives, 1, Newest - 1)
    /\ log' = <<>> /\ size' = 0
    /\ UNCHANGED line

(* The copy or the close fails, and the archive is removed. *)
ArchiveFails ==
    /\ \E step \in {"copy", "close"} : Drop(step, {step})
    /\ archives' = SubSeq(archives, 1, Newest - 1)
    /\ UNCHANGED file

(* The event of a line, whole or torn. *)
Event(entry) == IF entry < 0 THEN -entry ELSE entry

(* The first k lines of a file, the last of them whole or cut short. *)
Part(data, k, cut) == [i \in 1..k |-> IF cut /\ i = k THEN -Event(data[i]) ELSE data[i]]

(* The removal fails too.  zw.Close ran all the same and may have completed   *)
(* the archive, with what had been copied.                                    *)
ArchiveStays ==
    /\ \/ /\ Drop("copy", {"copy", "remove"})
          /\ \E k \in 0..Len(log), cut \in BOOLEAN :
                archives' \in {archives, Archive(Part(log, k, cut), TRUE)}
       \/ /\ Drop("close", {"close", "remove"})
          /\ archives' \in {archives, Archive(archives[Newest].lines, TRUE)}
    /\ UNCHANGED file

-----------------------------------------------------------------------------
(* The rest of Write. *)

(* json.Encoder hands the line over in one call. *)
AppendEvent ==
    /\ Goto("append", "sync")
    /\ log' = Append(log, next)
    /\ line' \in 1..MaxLine /\ size' = size + line'
    /\ UNCHANGED archives

AppendFails ==
    /\ \/ Drop("append", {"append"}) /\ UNCHANGED file
       \/ /\ Drop("append", {"short"})
          /\ log' = Append(log, -next)
          /\ line' \in 1..MaxLine /\ size' = size + line'
    /\ UNCHANGED archives

(* f.Sync: Write returns nil. *)
Sync ==
    /\ pc = "sync"
    /\ pc' = "idle"
    /\ acked' = acked \cup {next}
    /\ UNCHANGED <<file, archives, next, struck, faults>>

SyncFails == Drop("sync", {"sync"}) /\ UNCHANGED <<file, archives>>

-----------------------------------------------------------------------------
(* The process dies; the files stay as they are. *)
Crash ==
    /\ pc # "idle"
    /\ Drop(pc, {"crash"})
    /\ UNCHANGED <<file, archives>>

(* The machine stops.  What was not synced may be lost: the line that is     *)
(* being written, wholly or in part, and the newest archive, since nothing   *)
(* syncs it before the truncation.                                           *)
PowerLoss ==
    /\ Drop(pc, {"power"})
    /\ \/ UNCHANGED <<log, size>>
       \/ pc = "sync" /\ log' = SubSeq(log, 1, Len(log) - 1) /\ size' = size - line
       \/ /\ pc = "sync"
          /\ log' = [log EXCEPT ![Len(log)] = -next]
          /\ \E k \in 1..line : size' = size - line + k
    /\ UNCHANGED line
    /\ \/ UNCHANGED archives
       \/ archives # <<>> /\ archives' = Archive(<<>>, FALSE)

WriteStep ==
    \/ Stat \/ Create \/ Copy \/ Close \/ Truncate \/ AppendEvent \/ Sync
    \/ StepFails \/ ArchiveFails \/ ArchiveStays \/ AppendFails \/ SyncFails

Next == Begin \/ WriteStep \/ Crash \/ PowerLoss

Spec == Init /\ [][Next]_vars

(* A Write that holds the mutex goes on. *)
LiveSpec == Spec /\ WF_vars(WriteStep)

-----------------------------------------------------------------------------
(* A line that follows a piece without a newline is on the same line. *)
Whole(data) == {data[i] : i \in {k \in 1..Len(data) : k = 1 \/ data[k - 1] > 0}}

Good == {k \in 1..Newest : archives[k].ok}

(* Types.  The log goes past its limit by less than one line, also when it    *)
(* cannot be rotated: events are dropped instead.                             *)
TypeOK ==
    /\ log \in Seq(Int)
    /\ size \in Nat /\ size < MaxBytes + MaxLine /\ line \in 0..MaxLine
    /\ archives \in Seq([lines : Seq(Int), ok : BOOLEAN])
    /\ pc \in {"idle", "stat", "create", "copy", "close", "truncate", "append", "sync"}
    /\ next \in 0..MaxEvents
    /\ acked \subseteq 1..next /\ struck \subseteq 0..next
    /\ faults \subseteq Kinds

(* What a behaviour's faults may cost: a line that was cut short spoils the   *)
(* event written behind it, and a power loss one line likewise and the lines  *)
(* of the newest archive, which nothing syncs before the truncation.  As a    *)
(* line has at least one byte these are at most MaxBytes lines.               *)
Allowance == Cardinality(faults \cap {"short"}) + (IF "power" \in faults THEN MaxBytes + 1 ELSE 0)

(* An event whose Write returned nil can be read in the log or in an archive, *)
(* whatever step of a rotation fails and wherever the process dies, but for   *)
(* what a torn line and a power loss may cost.                                *)
AcknowledgedEventsStay ==
    Cardinality(acked \ (Whole(log) \cup UNION {Whole(archives[k].lines) : k \in Good})) <= Allowance

(* One file repeats the beginning of another; its last line may be cut short. *)
Prefix(s, t) ==
    /\ Len(s) <= Len(t)
    /\ \A i \in 1..Len(s) : s[i] = t[i] \/ (i = Len(s) /\ s[i] = -Event(t[i]))

(* Event numbers grow. *)
Follows(s, t) == Prefix(s, t) \/ \A i \in 1..Len(s), j \in 1..Len(t) : Event(s[i]) < Event(t[j])

(* A crash or a failure between the archive and the truncation makes the next *)
(* Write archive the same lines again.  Even so the trail can be put together *)
(* again: of two files, the older is repeated at the beginning of the newer   *)
(* or all of its events came before; or the newer is an archive that was not  *)
(* finished, and it repeats the beginning of the older.                       *)
TrailIsInOrder ==
    \A k \in Good :
        /\ \A m \in Good : k < m => \/ Follows(archives[k].lines, archives[m].lines)
                                     \/ Prefix(archives[m].lines, archives[k].lines)
        /\ Follows(archives[k].lines, log)

(* What went wrong earlier (a torn line, archives that were left behind, an   *)
(* oversized log) does not stop the log: a Write in which nothing goes wrong  *)
(* is acknowledged.                                                           *)
WritesRecover == \A e \in 1..MaxEvents : (next = e) ~> (e \in acked \cup struck)
=============================================================================
