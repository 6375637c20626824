---------------------------- MODULE AuditLogProofs ----------------------------
(***************************************************************************)
(* Theorems about the audit log, for any limit, any number of events and   *)
(* any set of faults.                                                      *)
(***************************************************************************)
EXTENDS AuditLog, FiniteSetTheorems, SequenceTheorems, TLAPS

(* Where a Write is, and what its earlier steps have left. *)
StepInv ==
    /\ pc # "idle" => next > 0 /\ next \notin acked
    /\ pc = "sync" => Len(log) > 0 /\ log[Len(log)] = next
    /\ pc \in {"copy", "close", "truncate"} => Newest > 0
    /\ pc \in {"copy", "close"} => ~archives[Newest].ok
    /\ pc \in {"close", "truncate"} => archives[Newest].lines = log
    /\ pc = "truncate" => archives[Newest].ok

(* The event of a Write is new: it is in no file before its append, and in    *)
(* no archive as long as the Write lasts.                                     *)
LogEvents ==
    \A i \in 1..Len(log) : Event(log[i]) <= next /\ (pc \notin {"idle", "sync"} => Event(log[i]) < next)

ArchiveEvents ==
    \A k \in 1..Newest :
        /\ Len(archives[k].lines) <= MaxBytes
        /\ \A i \in 1..Len(archives[k].lines) :
              Event(archives[k].lines[i]) <= next /\ (pc # "idle" => Event(archives[k].lines[i]) < next)

Readable == Whole(log) \cup UNION {Whole(archives[k].lines) : k \in Good}
Lost == acked \ Readable

(* The log ends in a piece without a newline, or the event behind it is not   *)
(* acknowledged yet: a loss that is still to come.                            *)
Torn(data) == Len(data) > 0 /\ data[Len(data)] <= 0
Spoiled == pc = "sync" /\ Len(log) > 1 /\ log[Len(log) - 1] <= 0
Pending == IF Torn(log) \/ Spoiled THEN 1 ELSE 0

LossInv == Cardinality(Lost) + Pending <= Allowance

(* A line has at least one byte, so a log that has room is short of its      *)
(* limit also in lines.                                                       *)
SizeTypes == size \in Nat /\ size < MaxBytes + MaxLine /\ line \in 0..MaxLine

SizeInv ==
    /\ Len(log) <= size /\ Len(log) <= MaxBytes
    /\ pc = "append" => size < MaxBytes
    /\ pc = "sync" => line > 0 /\ Len(log) > 0 /\ Len(log) <= size - line + 1

OrderInv == TypeOK /\ StepInv /\ SizeInv /\ LogEvents /\ ArchiveEvents

-----------------------------------------------------------------------------
LEMMA OrderInitially == Init => OrderInv
<1> SUFFICES ASSUME Init PROVE OrderInv
  OBVIOUS
<1>1. TypeOK
  BY AuditAssumption DEF Init, TypeOK
<1>2. StepInv /\ SizeInv /\ LogEvents /\ ArchiveEvents
  BY AuditAssumption DEF Init, StepInv, SizeInv, LogEvents, ArchiveEvents, Newest
<1>3. QED
  BY <1>1, <1>2 DEF OrderInv

(* The shape of an archive that was filled or lost. *)
LEMMA ArchiveShape ==
    ASSUME archives \in Seq([lines : Seq(Int), ok : BOOLEAN]), Newest > 0,
           NEW data \in Seq(Int), NEW readable \in BOOLEAN
    PROVE  /\ Archive(data, readable) \in Seq([lines : Seq(Int), ok : BOOLEAN])
           /\ Len(Archive(data, readable)) = Newest
           /\ Archive(data, readable)[Newest].lines = data
           /\ Archive(data, readable)[Newest].ok = readable
           /\ \A k \in 1..Newest : k # Newest => Archive(data, readable)[k] = archives[k]
<1>1. Newest \in Nat /\ Newest \in 1..Newest
  BY DEF Newest
<1>2. [lines |-> data, ok |-> readable] \in [lines : Seq(Int), ok : BOOLEAN]
  OBVIOUS
<1>3. QED
  BY <1>1, <1>2 DEF Archive, Newest

(* A sequence without its last element. *)
LEMMA Shorter ==
    ASSUME NEW S, NEW s \in Seq(S), Len(s) > 0
    PROVE  /\ SubSeq(s, 1, Len(s) - 1) \in Seq(S)
           /\ Len(SubSeq(s, 1, Len(s) - 1)) = Len(s) - 1
           /\ \A k \in 1..(Len(s) - 1) : SubSeq(s, 1, Len(s) - 1)[k] = s[k]
<1>1. Len(s) \in Nat /\ Len(s) - 1 \in Nat
  OBVIOUS
<1>2. \A i \in 1..(Len(s) - 1) : s[i] \in S
  BY <1>1
<1>3. /\ SubSeq(s, 1, Len(s) - 1) \in Seq(S)
      /\ Len(SubSeq(s, 1, Len(s) - 1)) = IF 1 <= Len(s) - 1 THEN Len(s) - 1 - 1 + 1 ELSE 0
      /\ \A i \in 1..(Len(s) - 1 - 1 + 1) : SubSeq(s, 1, Len(s) - 1)[i] = s[1 + i - 1]
  BY <1>1, <1>2, SubSeqProperties
<1>4. \A i \in 1..(Len(s) - 1) : 1 + i - 1 = i
  BY <1>1
<1>5. Len(s) - 1 - 1 + 1 = Len(s) - 1
  BY <1>1
<1>6. QED
  BY <1>1, <1>3, <1>4, <1>5

LEMMA EventTypes ==
    ASSUME TypeOK
    PROVE  /\ next \in Nat /\ Newest \in Nat
           /\ \A i \in 1..Len(log) : log[i] \in Int /\ Event(log[i]) \in Nat
           /\ \A k \in 1..Newest : /\ archives[k] \in [lines : Seq(Int), ok : BOOLEAN]
                                   /\ Len(archives[k].lines) \in Nat
                                   /\ \A i \in 1..Len(archives[k].lines) :
                                         archives[k].lines[i] \in Int /\ Event(archives[k].lines[i]) \in Nat
<1>1. \A x \in Int : Event(x) \in Nat
  BY DEF Event
<1>2. ASSUME NEW data \in Seq(Int) PROVE Len(data) \in Nat /\ \A i \in 1..Len(data) : data[i] \in Int
  OBVIOUS
<1>3. next \in Nat /\ Newest \in Nat
  BY AuditAssumption DEF TypeOK, Newest
<1>4. \A k \in 1..Newest : archives[k] \in [lines : Seq(Int), ok : BOOLEAN] /\ archives[k].lines \in Seq(Int)
  <2>1. archives \in Seq([lines : Seq(Int), ok : BOOLEAN])
    BY DEF TypeOK
  <2>2. \A k \in 1..Newest : archives[k] \in [lines : Seq(Int), ok : BOOLEAN]
    BY <2>1, ElementOfSeq DEF Newest
  <2>3. \A a \in [lines : Seq(Int), ok : BOOLEAN] : a.lines \in Seq(Int)
    OBVIOUS
  <2>4. QED
    BY <2>2, <2>3
<1>5. log \in Seq(Int)
  BY DEF TypeOK
<1>6. QED
  BY <1>1, <1>2, <1>3, <1>4, <1>5

(* A part of a file has the events of the beginning of the file. *)
LEMMA PrefixEvents ==
    ASSUME NEW s \in Seq(Int), NEW t \in Seq(Int), Prefix(s, t)
    PROVE  Len(s) <= Len(t) /\ \A i \in 1..Len(s) : i \in 1..Len(t) /\ Event(s[i]) = Event(t[i])
<1>1. Len(s) \in Nat /\ Len(t) \in Nat /\ Len(s) <= Len(t)
  BY DEF Prefix
<1>2. \A x \in Int : Event(-Event(x)) = Event(x)
  BY DEF Event
<1>3. ASSUME NEW i \in 1..Len(s) PROVE i \in 1..Len(t) /\ Event(s[i]) = Event(t[i])
  <2>1. i \in 1..Len(t)
    BY <1>1
  <2>2. t[i] \in Int
    BY <2>1
  <2>3. s[i] = t[i] \/ s[i] = -Event(t[i])
    BY DEF Prefix
  <2>4. QED
    BY <1>2, <2>1, <2>2, <2>3
<1>4. QED
  BY <1>1, <1>3

LEMMA PartIsPrefix ==
    ASSUME NEW data \in Seq(Int), NEW k \in 0..Len(data), NEW cut \in BOOLEAN
    PROVE  Part(data, k, cut) \in Seq(Int) /\ Prefix(Part(data, k, cut), data)
<1> DEFINE part == Part(data, k, cut)
<1>1. Len(data) \in Nat /\ k \in Nat /\ k <= Len(data)
  OBVIOUS
<1>2. \A i \in 1..k : data[i] \in Int /\ -Event(data[i]) \in Int
  <2>1. \A x \in Int : -Event(x) \in Int
    BY DEF Event
  <2>2. \A i \in 1..k : i \in 1..Len(data)
    BY <1>1
  <2>3. \A i \in 1..Len(data) : data[i] \in Int
    OBVIOUS
  <2>4. QED
    BY <2>1, <2>2, <2>3
<1>3. part \in [1..k -> Int]
  BY <1>2 DEF Part
<1>4. part \in Seq(Int) /\ Len(part) = k
  BY <1>1, <1>3, SeqDef
<1>5. \A i \in 1..k : part[i] = data[i] \/ (i = k /\ part[i] = -Event(data[i]))
  BY DEF Part
<1> HIDE DEF part
<1>6. Prefix(part, data)
  BY <1>1, <1>4, <1>5 DEF Prefix
<1>7. QED
  BY <1>4, <1>6 DEF part

LEMMA PrefixOfItself == \A s \in Seq(Int) : Prefix(s, s)
BY DEF Prefix

(* What an archive holds that should have been removed. *)
LEMMA WhatStays ==
    ASSUME TypeOK, StepInv, ArchiveStays, archives' # archives
    PROVE  \E data \in Seq(Int) : archives' = Archive(data, TRUE) /\ Prefix(data, log)
<1>1. log \in Seq(Int)
  BY DEF TypeOK
<1>2. ASSUME NEW k \in 0..Len(log), NEW cut \in BOOLEAN, archives' = Archive(Part(log, k, cut), TRUE)
      PROVE  \E data \in Seq(Int) : archives' = Archive(data, TRUE) /\ Prefix(data, log)
  BY <1>1, <1>2, PartIsPrefix
<1>3. CASE pc = "close" /\ archives' = Archive(archives[Newest].lines, TRUE)
  <2>1. archives[Newest].lines = log
    BY <1>3 DEF StepInv
  <2>2. QED
    BY <1>1, <1>3, <2>1, PrefixOfItself
<1>4. QED
  BY <1>2, <1>3 DEF ArchiveStays, Drop

(* The log goes past its limit by less than one line. *)
LEMMA SizeStep ==
    ASSUME TypeOK, SizeInv, [Next]_vars
    PROVE  SizeTypes' /\ SizeInv'
<1>1. /\ log \in Seq(Int) /\ Len(log) \in Nat /\ next \in Int /\ -next \in Int
      /\ size \in Nat /\ size < MaxBytes + MaxLine /\ line \in 0..MaxLine
  BY AuditAssumption DEF TypeOK
<1>a. MaxBytes \in Nat \ {0} /\ MaxLine \in Nat \ {0}
  BY AuditAssumption
<1>2. ASSUME UNCHANGED <<log, size>>, line' \in {0, line}, pc' \notin {"append", "sync"}
      PROVE  SizeTypes' /\ SizeInv'
  BY <1>1, <1>2, <1>a DEF SizeTypes, SizeInv
<1>3. CASE UNCHANGED vars
  BY <1>1, <1>3 DEF vars, file, SizeTypes, SizeInv
<1>4. CASE Begin
  BY <1>2, <1>4 DEF Begin
<1>5. CASE Stat
  BY <1>1, <1>5, <1>a DEF Stat, Goto, file, SizeTypes, SizeInv
<1>6. CASE Create \/ Copy \/ Close
  BY <1>2, <1>6 DEF Create, Copy, Close, Goto, file
<1>7. CASE Truncate
  <2>1. log' = <<>> /\ size' = 0 /\ line' = line /\ pc' = "append"
    BY <1>7 DEF Truncate, Remaining, Goto
  <2>2. Len(log') = 0
    BY <2>1
  <2>3. QED
    BY <1>1, <1>a, <2>1, <2>2 DEF SizeTypes, SizeInv
<1>8. CASE StepFails \/ SyncFails \/ Crash
  BY <1>2, <1>8 DEF StepFails, SyncFails, Crash, Drop, file
<1>9. CASE ArchiveFails \/ ArchiveStays
  BY <1>2, <1>9 DEF ArchiveFails, ArchiveStays, Drop, file
<1>10. CASE Sync
  BY <1>2, <1>10 DEF Sync, file
<1>11. CASE AppendEvent \/ AppendFails
  <2>1. pc = "append" /\ pc' \in {"idle", "sync"}
    BY <1>11 DEF AppendEvent, AppendFails, Goto, Drop
  <2>2. CASE pc' = "idle" /\ UNCHANGED file
    BY <1>2, <2>2 DEF file
  <2>3. ASSUME NEW x \in {next, -next}, log' = Append(log, x), line' \in 1..MaxLine, size' = size + line'
        PROVE  SizeTypes' /\ SizeInv'
    <3>1. Len(log') = Len(log) + 1
      BY <1>1, <2>3
    <3>2. Len(log) <= size /\ size < MaxBytes
      BY <2>1 DEF SizeInv
    <3>3. line' \in Nat /\ line' > 0 /\ line' <= MaxLine
      BY <1>a, <2>3
    <3>a. /\ Len(log) \in Nat /\ size \in Nat /\ MaxBytes \in Nat /\ MaxLine \in Nat
          /\ Len(log') = Len(log) + 1 /\ size' = size + line'
      BY <1>1, <1>a, <2>3, <3>1
    <3>4. size' \in Nat /\ size' < MaxBytes + MaxLine /\ line' \in 0..MaxLine
      <4>1. /\ size \in Nat /\ MaxBytes \in Nat /\ MaxLine \in Nat
            /\ size < MaxBytes /\ size' = size + line'
        BY <3>2, <3>a
      <4>2. \A n \in 0..MaxLine : size + n \in Nat /\ size + n < MaxBytes + MaxLine
        BY <4>1
      <4>3. line' \in 0..MaxLine
        BY <3>3, <4>1
      <4>4. QED
        BY <4>1, <4>2, <4>3
    <3>5. Len(log') <= size' /\ Len(log') <= MaxBytes /\ Len(log') > 0 /\ Len(log') <= size' - line' + 1
      BY <3>2, <3>3, <3>a
    <3>6. QED
      BY <2>1, <3>3, <3>4, <3>5 DEF SizeTypes, SizeInv
  <2>4. QED
    BY <1>11, <2>1, <2>2, <2>3 DEF AppendEvent, AppendFails, Goto, Drop
<1>12. CASE PowerLoss
  <2>1. pc' = "idle" /\ line' = line
    BY <1>12 DEF PowerLoss, Drop
  <2>2. CASE UNCHANGED <<log, size>>
    BY <1>2, <2>1, <2>2
  <2>3. pc = "sync" => line > 0 /\ Len(log) > 0 /\ Len(log) <= size - line + 1
    BY DEF SizeInv
  <2>4. CASE pc = "sync" /\ log' = SubSeq(log, 1, Len(log) - 1) /\ size' = size - line
    <3>1. Len(log') = Len(log) - 1
      BY <1>1, <2>3, <2>4, Shorter
    <3>2. QED
      BY <1>1, <1>a, <2>1, <2>3, <2>4, <3>1 DEF SizeTypes, SizeInv
  <2>5. ASSUME pc = "sync", log' = [log EXCEPT ![Len(log)] = -next], NEW k \in 1..line, size' = size - line + k
        PROVE  SizeTypes' /\ SizeInv'
    <3>1. Len(log') = Len(log)
      BY <1>1, <2>5
    <3>2. k \in Nat /\ k > 0 /\ k <= line
      BY <1>1
    <3>3. QED
      BY <1>1, <1>a, <2>1, <2>3, <2>5, <3>1, <3>2 DEF SizeTypes, SizeInv
  <2>6. QED
    BY <1>12, <2>2, <2>4, <2>5 DEF PowerLoss
<1>13. QED
  BY <1>3, <1>4, <1>5, <1>6, <1>7, <1>8, <1>9, <1>10, <1>11, <1>12 DEF Next, WriteStep

LEMMA OrderStep == OrderInv /\ [Next]_vars => OrderInv'
<1> SUFFICES ASSUME OrderInv, [Next]_vars PROVE OrderInv'
  OBVIOUS
<1>1. TypeOK /\ StepInv /\ LogEvents /\ ArchiveEvents
  BY DEF OrderInv
<1>s. /\ SizeInv' /\ size' \in Nat /\ size' < MaxBytes + MaxLine /\ line' \in 0..MaxLine
      /\ Len(log) <= MaxBytes
  BY SizeStep DEF OrderInv, SizeTypes, SizeInv
<1>t. /\ next \in Nat /\ Newest \in Nat
      /\ \A i \in 1..Len(log) : Event(log[i]) \in Nat
      /\ \A k \in 1..Newest : \A i \in 1..Len(archives[k].lines) : Event(archives[k].lines[i]) \in Nat
      /\ Event(next) = next /\ Event(-next) = next
  <2>1. next \in Nat
    BY <1>1, EventTypes
  <2>2. Event(next) = next /\ Event(-next) = next
    BY <2>1 DEF Event
  <2>3. QED
    BY <1>1, <2>2, EventTypes
<1>2. CASE UNCHANGED vars
  BY <1>1, <1>2, <1>s DEF vars, OrderInv, TypeOK, StepInv, LogEvents, ArchiveEvents, Newest, file
<1>3. CASE Begin
  <2>1. TypeOK'
    BY <1>s, <1>1, <1>3, AuditAssumption DEF Begin, TypeOK, file
  <2>2. StepInv'
    BY <1>1, <1>3 DEF Begin, TypeOK, StepInv, file
  <2>3. LogEvents' /\ ArchiveEvents'
    BY <1>1, <1>3, <1>t DEF Begin, LogEvents, ArchiveEvents, Newest, file
  <2>4. QED
    BY <1>s, <2>1, <2>2, <2>3 DEF OrderInv
<1>4. CASE Stat
  <2>1. TypeOK'
    BY <1>s, <1>1, <1>4 DEF Stat, Goto, TypeOK, file
  <2>2. StepInv'
    BY <1>1, <1>4, AuditAssumption DEF Stat, Goto, TypeOK, StepInv, file
  <2>3. LogEvents' /\ ArchiveEvents'
    BY <1>1, <1>4 DEF Stat, Goto, LogEvents, ArchiveEvents, Newest, file
  <2>4. QED
    BY <1>s, <2>1, <2>2, <2>3 DEF OrderInv
<1>5. CASE Create
  <2>1. TypeOK'
    BY <1>s, <1>1, <1>5 DEF Create, Goto, TypeOK, file
  <2>2. /\ Len(archives') = Newest + 1 /\ archives'[Newest + 1].lines = <<>> /\ ~archives'[Newest + 1].ok
        /\ \A k \in 1..Newest : archives'[k] = archives[k]
    BY <1>1, <1>5 DEF Create, Goto, TypeOK, Newest, file
  <2>3. StepInv'
    BY <1>1, <1>5, <2>2 DEF Create, Goto, TypeOK, StepInv, Newest, file
  <2>4. LogEvents'
    BY <1>1, <1>5 DEF Create, Goto, LogEvents, file
  <2>5. ArchiveEvents'
    BY <1>1, <1>5, <2>2, AuditAssumption DEF Create, Goto, TypeOK, ArchiveEvents, Newest, file
  <2>6. QED
    BY <1>s, <2>1, <2>3, <2>4, <2>5 DEF OrderInv
<1>6. CASE Copy \/ Close
  <2>1. PICK r \in BOOLEAN : archives' = Archive(log, r) /\ r = (pc = "close")
    BY <1>1, <1>6 DEF Copy, Close, Goto, StepInv, file
  <2>2. Newest > 0 /\ pc \in {"copy", "close"} /\ log \in Seq(Int) /\ archives \in Seq([lines : Seq(Int), ok : BOOLEAN])
    BY <1>1, <1>6 DEF Copy, Close, Goto, StepInv, TypeOK, file
  <2>3. /\ archives' \in Seq([lines : Seq(Int), ok : BOOLEAN]) /\ Newest' = Newest
        /\ archives'[Newest].lines = log /\ archives'[Newest].ok = r
        /\ \A k \in 1..Newest : k # Newest => archives'[k] = archives[k]
    BY <2>1, <2>2, ArchiveShape DEF Newest
  <2>4. TypeOK'
    BY <1>s, <1>1, <1>6, <2>3 DEF Copy, Close, Goto, TypeOK, file
  <2>5. StepInv'
    BY <1>1, <1>6, <2>1, <2>2, <2>3 DEF Copy, Close, Goto, StepInv, file
  <2>6. LogEvents'
    BY <1>1, <1>6 DEF Copy, Close, Goto, LogEvents, file
  <2>7. ArchiveEvents'
    BY <1>1, <1>s, <1>6, <2>2, <2>3 DEF Copy, Close, Goto, TypeOK, LogEvents, ArchiveEvents, file
  <2>8. QED
    BY <1>s, <2>4, <2>5, <2>6, <2>7 DEF OrderInv
<1>7. CASE Truncate
  <2>1. TypeOK'
    BY <1>s, <1>1, <1>7, AuditAssumption DEF Truncate, Remaining, Goto, TypeOK, file
  <2>2. StepInv'
    BY <1>1, <1>7, AuditAssumption DEF Truncate, Remaining, Goto, TypeOK, StepInv, file
  <2>3. LogEvents' /\ ArchiveEvents'
    BY <1>1, <1>7 DEF Truncate, Remaining, Goto, LogEvents, ArchiveEvents, Newest, file
  <2>4. QED
    BY <1>s, <2>1, <2>2, <2>3 DEF OrderInv
<1>8. CASE StepFails \/ SyncFails \/ Crash
  <2>1. UNCHANGED <<log, archives, next, acked>> /\ pc' = "idle"
        /\ faults' \subseteq Kinds /\ struck' = struck \cup {next}
    BY <1>1, <1>8 DEF StepFails, SyncFails, Crash, Drop, TypeOK, file
  <2>2. TypeOK'
    BY <1>s, <1>1, <2>1 DEF TypeOK
  <2>3. StepInv' /\ LogEvents' /\ ArchiveEvents'
    BY <1>1, <2>1 DEF StepInv, LogEvents, ArchiveEvents, Newest
  <2>4. QED
    BY <1>s, <2>2, <2>3 DEF OrderInv
<1>9. CASE ArchiveFails
  <2>1. UNCHANGED <<log, next, acked>> /\ pc' = "idle" /\ pc \in {"copy", "close"}
        /\ faults' \subseteq Kinds /\ struck' = struck \cup {next}
        /\ archives' = SubSeq(archives, 1, Newest - 1)
    BY <1>1, <1>9 DEF ArchiveFails, Drop, TypeOK, file
  <2>2. /\ archives' \in Seq([lines : Seq(Int), ok : BOOLEAN]) /\ Newest' \in {Newest, Newest - 1}
        /\ \A k \in 1..Newest' : archives'[k] = archives[k]
    <3>1. Newest > 0 /\ Newest \in Nat /\ archives \in Seq([lines : Seq(Int), ok : BOOLEAN])
      BY <1>1, <1>t, <2>1 DEF TypeOK, StepInv
    <3>2. Len(archives') = Newest - 1 /\ \A k \in 1..(Newest - 1) : archives'[k] = archives[k]
      BY <2>1, <3>1, Shorter DEF Newest
    <3>3. archives' \in Seq([lines : Seq(Int), ok : BOOLEAN])
      BY <2>1, <3>1, Shorter DEF Newest
    <3>4. QED
      BY <3>1, <3>2, <3>3 DEF Newest
  <2>3. TypeOK'
    BY <1>s, <1>1, <2>1, <2>2 DEF TypeOK
  <2>4. StepInv' /\ LogEvents'
    BY <1>1, <2>1 DEF StepInv, LogEvents
  <2>5. ArchiveEvents'
    <3>1. ASSUME NEW k \in 1..Newest'
          PROVE  k \in 1..Newest /\ archives'[k] = archives[k]
      BY <1>t, <2>2
    <3>2. QED
      BY <1>1, <1>t, <2>1, <3>1 DEF ArchiveEvents
  <2>6. QED
    BY <1>s, <2>3, <2>4, <2>5 DEF OrderInv
<1>10. CASE AppendEvent \/ AppendFails
  <2>1. /\ UNCHANGED <<archives, next, acked>> /\ pc = "append" /\ pc' \in {"idle", "sync"}
        /\ faults' \subseteq Kinds /\ struck' \subseteq struck \cup {next}
        /\ log' \in {log, Append(log, next), Append(log, -next)}
        /\ (pc' = "sync" => log' = Append(log, next))
    BY <1>1, <1>10 DEF AppendEvent, AppendFails, Goto, Drop, TypeOK, file
  <2>2. /\ log' \in Seq(Int) /\ (pc' = "sync" => Len(log') > 0 /\ log'[Len(log')] = next)
        /\ \A i \in 1..Len(log') : (i \in 1..Len(log) /\ log'[i] = log[i]) \/ log'[i] \in {next, -next}
    <3>1. log \in Seq(Int) /\ Len(log) \in Nat /\ next \in Int /\ -next \in Int
      BY <1>1, <1>t, <2>1, AuditAssumption DEF TypeOK, StepInv
    <3>2. CASE log' = log
      BY <2>1, <3>1, <3>2
    <3>3. ASSUME NEW x \in {next, -next}, log' = Append(log, x)
          PROVE  /\ log' \in Seq(Int) /\ Len(log') = Len(log) + 1 /\ log'[Len(log) + 1] = x
                 /\ \A i \in 1..Len(log) : log'[i] = log[i]
      BY <3>1, <3>3
    <3>4. QED
      BY <2>1, <3>1, <3>2, <3>3
  <2>3. TypeOK'
    BY <1>s, <1>1, <2>1, <2>2 DEF TypeOK
  <2>4. StepInv'
    BY <1>1, <2>1, <2>2 DEF StepInv
  <2>5. LogEvents'
    BY <1>1, <1>t, <2>1, <2>2 DEF LogEvents
  <2>6. ArchiveEvents'
    BY <1>1, <2>1 DEF ArchiveEvents, Newest
  <2>7. QED
    BY <1>s, <2>3, <2>4, <2>5, <2>6 DEF OrderInv
<1>11. CASE Sync
  <2>1. TypeOK'
    BY <1>s, <1>1, <1>11 DEF Sync, TypeOK, StepInv, file
  <2>2. StepInv' /\ LogEvents' /\ ArchiveEvents'
    BY <1>1, <1>11 DEF Sync, StepInv, LogEvents, ArchiveEvents, Newest, file
  <2>3. QED
    BY <1>s, <2>1, <2>2 DEF OrderInv
<1>12. CASE PowerLoss
  <2>1. /\ UNCHANGED <<next, acked>> /\ pc' = "idle"
        /\ faults' \subseteq Kinds /\ struck' = struck \cup {next}
    BY <1>1, <1>12 DEF PowerLoss, Drop, TypeOK, file
  <2>2. /\ log' \in Seq(Int)
        /\ \A i \in 1..Len(log') : (i \in 1..Len(log) /\ log'[i] = log[i]) \/ log'[i] = -next
    <3>1. CASE log' = log
      BY <1>1, <3>1 DEF TypeOK
    <3>2. CASE pc = "sync" /\ log' = SubSeq(log, 1, Len(log) - 1)
      BY <1>1, <3>2, AuditAssumption DEF TypeOK, StepInv
    <3>3. CASE pc = "sync" /\ log' = [log EXCEPT ![Len(log)] = -next]
      BY <1>1, <3>3, AuditAssumption DEF TypeOK, StepInv
    <3>4. QED
      BY <1>12, <3>1, <3>2, <3>3 DEF PowerLoss, file
  <2>3. /\ archives' \in Seq([lines : Seq(Int), ok : BOOLEAN]) /\ Newest' = Newest
        /\ \A k \in 1..Newest : archives'[k] = archives[k] \/ archives'[k].lines = <<>>
    <3>1. CASE archives' = archives
      BY <1>1, <3>1 DEF TypeOK, Newest
    <3>2. CASE archives # <<>> /\ archives' = Archive(<<>>, FALSE)
      <4>1. Newest > 0
        BY <1>1, <3>2 DEF TypeOK, Newest
      <4>2. <<>> \in Seq(Int)
        OBVIOUS
      <4>3. QED
        BY <1>1, <3>2, <4>1, <4>2, ArchiveShape DEF TypeOK, Newest
    <3>3. QED
      BY <1>12, <3>1, <3>2 DEF PowerLoss, file
  <2>4. TypeOK'
    <3>1. struck' \subseteq 0..next' /\ acked' \subseteq 1..next' /\ next' \in 0..MaxEvents
      <4>1. next' = next /\ acked' = acked /\ struck' = struck \cup {next}
        BY <2>1
      <4>2. struck \subseteq 0..next /\ acked \subseteq 1..next /\ next \in 0..MaxEvents
        BY <1>1 DEF TypeOK
      <4>3. next \in Nat
        BY <1>t
      <4>4. next \in 0..next
        BY <4>3
      <4>5. QED
        BY <4>1, <4>2, <4>4
    <3>2. QED
      BY <1>s, <2>1, <2>2, <2>3, <3>1 DEF TypeOK
  <2>5. StepInv'
    BY <2>1 DEF StepInv
  <2>6. LogEvents'
    <3>1. next \in Nat /\ \A i \in 1..Len(log) : Event(log[i]) <= next
      BY <1>1, <1>t DEF LogEvents
    <3>2. Event(-next) = next /\ next <= next
      BY <3>1 DEF Event
    <3>3. \A i \in 1..Len(log') : Event(log'[i]) <= next
      BY <2>2, <3>1, <3>2
    <3>4. QED
      BY <2>1, <3>3 DEF LogEvents
  <2>7. ArchiveEvents'
    <3>1. ASSUME NEW k \in 1..Newest, archives'[k].lines = <<>>
          PROVE  Len(archives'[k].lines) = 0 /\ 1..Len(archives'[k].lines) = {}
      BY <3>1
    <3>2. ASSUME NEW k \in 1..Newest
          PROVE  /\ Len(archives'[k].lines) <= MaxBytes
                 /\ \A i \in 1..Len(archives'[k].lines) : Event(archives'[k].lines[i]) <= next
      <4>1. CASE archives'[k] = archives[k]
        BY <1>1, <4>1 DEF ArchiveEvents
      <4>2. CASE archives'[k].lines = <<>>
        BY <3>1, <4>2, AuditAssumption
      <4>3. QED
        BY <2>3, <4>1, <4>2
    <3>3. QED
      BY <2>1, <2>3, <3>2 DEF ArchiveEvents
  <2>8. QED
    BY <1>s, <2>4, <2>5, <2>6, <2>7 DEF OrderInv
<1>13. CASE ArchiveStays
  <2>1. /\ UNCHANGED <<log, next, acked>> /\ pc' = "idle" /\ pc \in {"copy", "close"}
        /\ faults' \subseteq Kinds /\ struck' = struck \cup {next}
    BY <1>1, <1>13 DEF ArchiveStays, Drop, TypeOK, file
  <2>2. /\ archives' \in Seq([lines : Seq(Int), ok : BOOLEAN]) /\ Newest' = Newest
        /\ \A k \in 1..Newest : archives'[k] = archives[k] \/ (k = Newest /\ Prefix(archives'[k].lines, log))
    <3>1. CASE archives' = archives
      BY <1>1, <3>1 DEF TypeOK, Newest
    <3>2. CASE archives' # archives
      <4>1. PICK data \in Seq(Int) : archives' = Archive(data, TRUE) /\ Prefix(data, log)
        BY <1>13, <3>2, WhatStays DEF OrderInv
      <4>2. Newest > 0 /\ archives \in Seq([lines : Seq(Int), ok : BOOLEAN])
        BY <1>1, <2>1 DEF StepInv, TypeOK
      <4>3. TRUE \in BOOLEAN
        OBVIOUS
      <4>4. /\ Archive(data, TRUE) \in Seq([lines : Seq(Int), ok : BOOLEAN])
            /\ Len(Archive(data, TRUE)) = Newest
            /\ Archive(data, TRUE)[Newest].lines = data
            /\ \A k \in 1..Newest : k # Newest => Archive(data, TRUE)[k] = archives[k]
        BY <4>2, <4>3, ArchiveShape, Zenon
      <4>5. Newest' = Newest
        BY <4>1, <4>4, Zenon DEF Newest
      <4>6. QED
        BY <4>1, <4>4, <4>5, Zenon
    <3>3. QED
      BY <3>1, <3>2
  <2>3. TypeOK'
    BY <1>1, <1>s, <2>1, <2>2 DEF TypeOK
  <2>4. StepInv' /\ LogEvents'
    BY <1>1, <2>1 DEF StepInv, LogEvents
  <2>5. ArchiveEvents'
    <3>1. ASSUME NEW k \in 1..Newest
          PROVE  /\ Len(archives'[k].lines) <= MaxBytes
                 /\ \A i \in 1..Len(archives'[k].lines) : Event(archives'[k].lines[i]) <= next
      <4>1. CASE archives'[k] = archives[k]
        BY <1>1, <4>1 DEF ArchiveEvents
      <4>2. CASE Prefix(archives'[k].lines, log)
        <5>1. archives'[k].lines \in Seq(Int) /\ log \in Seq(Int)
          <6>1. \A a \in [lines : Seq(Int), ok : BOOLEAN] : a.lines \in Seq(Int)
            OBVIOUS
          <6>2. archives'[k] \in [lines : Seq(Int), ok : BOOLEAN]
            BY <2>2, ElementOfSeq DEF Newest
          <6>3. QED
            BY <1>1, <6>1, <6>2 DEF TypeOK
        <5>2. Len(archives'[k].lines) <= Len(log)
              /\ \A i \in 1..Len(archives'[k].lines) :
                    i \in 1..Len(log) /\ Event(archives'[k].lines[i]) = Event(log[i])
          BY <4>2, <5>1, PrefixEvents
        <5>3. Len(archives'[k].lines) \in Nat /\ Len(log) \in Nat /\ MaxBytes \in Nat
          BY <5>1, AuditAssumption
        <5>4. Len(archives'[k].lines) <= MaxBytes
          BY <1>s, <5>2, <5>3
        <5>5. QED
          BY <1>1, <5>2, <5>4 DEF LogEvents
      <4>3. QED
        BY <2>2, <4>1, <4>2
    <3>2. QED
      BY <2>1, <2>2, <3>1 DEF ArchiveEvents
  <2>6. QED
    BY <1>s, <2>3, <2>4, <2>5 DEF OrderInv
<1>14. QED
  BY <1>2, <1>3, <1>4, <1>5, <1>6, <1>7, <1>8, <1>9, <1>10, <1>11, <1>12, <1>13 DEF Next, WriteStep

LEMMA OrderInvariant == Spec => []OrderInv
BY OrderInitially, OrderStep, PTL DEF Spec

(* The types; the log goes past its limit by less than one line, also when it *)
(* cannot be rotated, because the Write that finds it full drops its event.   *)
THEOREM TypeCorrect == Spec => []TypeOK
<1>1. OrderInv => TypeOK
  BY DEF OrderInv
<1>2. QED
  BY OrderInvariant, <1>1, PTL

-----------------------------------------------------------------------------
(* Which archives can be read after a step. *)

(* A step completes an archive when the close succeeds, or when it succeeds   *)
(* after a failed copy and the removal fails.                                 *)
Completes == Close \/ (ArchiveStays /\ archives' # archives)

(* The archive has the lines of the log, or the beginning of them. *)
LEMMA WhatIsCompleted ==
    ASSUME OrderInv, Completes
    PROVE  /\ Newest > 0 /\ ~archives[Newest].ok /\ log' = log
           /\ \E data \in Seq(Int) : archives' = Archive(data, TRUE) /\ Prefix(data, log)
<1>1. TypeOK /\ StepInv /\ log \in Seq(Int)
  BY DEF OrderInv, TypeOK
<1>2. CASE Close
  <2>1. /\ Newest > 0 /\ ~archives[Newest].ok /\ log' = log
        /\ archives' = Archive(archives[Newest].lines, TRUE) /\ archives[Newest].lines = log
    BY <1>1, <1>2 DEF StepInv, Close, Goto, file
  <2>2. QED
    BY <1>1, <2>1, PrefixOfItself
<1>3. CASE ArchiveStays /\ archives' # archives
  <2>1. Newest > 0 /\ ~archives[Newest].ok /\ log' = log
    BY <1>1, <1>3 DEF StepInv, ArchiveStays, Drop, file
  <2>2. QED
    BY <1>1, <1>3, <2>1, WhatStays
<1>4. QED
  BY <1>2, <1>3 DEF Completes

LEMMA Completed ==
    ASSUME OrderInv, NEW data \in Seq(Int), archives' = Archive(data, TRUE),
           Newest > 0, ~archives[Newest].ok
    PROVE  /\ Newest' = Newest /\ Newest \in Good' /\ archives'[Newest].lines = data
           /\ \A k \in Good' : k = Newest \/ (k \in Good /\ archives'[k] = archives[k])
           /\ \A k \in Good : k \in Good' /\ archives'[k] = archives[k]
           /\ \A k \in Good : k < Newest
<1>1. archives \in Seq([lines : Seq(Int), ok : BOOLEAN])
  BY DEF OrderInv, TypeOK
<1>2. /\ Len(archives') = Newest /\ archives'[Newest].lines = data /\ archives'[Newest].ok = TRUE
      /\ \A k \in 1..Newest : k # Newest => archives'[k] = archives[k]
  BY <1>1, ArchiveShape
<1>3. Newest \in Nat
  BY EventTypes DEF OrderInv
<1>4. Newest' = Newest /\ Good' = {k \in 1..Newest : archives'[k].ok} /\ Good = {k \in 1..Newest : archives[k].ok}
  BY <1>2 DEF Good, Newest
<1>5. Newest \in Good'
  <2>1. Newest \in 1..Newest
    BY <1>3
  <2>2. archives'[Newest].ok
    BY <1>2
  <2>3. QED
    BY <1>4, <2>1, <2>2
<1>6. \A k \in Good : k \in 1..Newest /\ k # Newest /\ k < Newest
  BY <1>3, <1>4
<1>7. \A k \in Good : k \in Good' /\ archives'[k] = archives[k]
  BY <1>2, <1>4, <1>6
<1>8. \A k \in Good' : k = Newest \/ (k \in Good /\ archives'[k] = archives[k])
  BY <1>2, <1>4
<1>9. QED
  BY <1>2, <1>4, <1>5, <1>6, <1>7, <1>8

(* No other step completes one. *)
LEMMA NoneCompleted ==
    ASSUME OrderInv, [Next]_vars, ~Completes
    PROVE  \A k \in Good' : k \in Good /\ archives'[k] = archives[k]
<1>1. /\ Newest \in Nat /\ log \in Seq(Int) /\ archives \in Seq([lines : Seq(Int), ok : BOOLEAN])
      /\ (pc \in {"copy", "close"} => Newest > 0)
  BY EventTypes DEF OrderInv, StepInv, TypeOK
<1>2. CASE archives' = archives
  BY <1>2 DEF Good, Newest
<1>3. CASE archives' = Append(archives, [lines |-> <<>>, ok |-> FALSE])
  <2>1. Len(archives') = Newest + 1 /\ archives'[Newest + 1].ok = FALSE /\ \A k \in 1..Newest : archives'[k] = archives[k]
    BY <1>1, <1>3 DEF Newest
  <2>2. QED
    BY <1>1, <2>1 DEF Good, Newest
<1>4. ASSUME NEW data \in Seq(Int), archives' = Archive(data, FALSE), Newest > 0
      PROVE  \A k \in Good' : k \in Good /\ archives'[k] = archives[k]
  <2>1. /\ Len(archives') = Newest /\ archives'[Newest].ok = FALSE
        /\ \A k \in 1..Newest : k # Newest => archives'[k] = archives[k]
    <3>1. FALSE \in BOOLEAN
      OBVIOUS
    <3>2. /\ Len(Archive(data, FALSE)) = Newest /\ Archive(data, FALSE)[Newest].ok = FALSE
          /\ \A k \in 1..Newest : k # Newest => Archive(data, FALSE)[k] = archives[k]
      BY <1>1, <1>4, <3>1, ArchiveShape, Zenon
    <3>3. QED
      BY <1>4, <3>2, Zenon
  <2>2. QED
    BY <1>1, <2>1 DEF Good, Newest
<1>5. CASE archives' = SubSeq(archives, 1, Newest - 1) /\ Newest > 0
  <2>1. Len(archives') = Newest - 1 /\ \A k \in 1..(Newest - 1) : archives'[k] = archives[k]
    BY <1>1, <1>5, Shorter DEF Newest
  <2>2. QED
    BY <1>1, <2>1 DEF Good, Newest
<1>6. CASE Copy
  BY <1>1, <1>4, <1>6 DEF Copy, Goto, file
<1>7. CASE ArchiveFails
  BY <1>1, <1>5, <1>7 DEF ArchiveFails, Drop
<1>8. CASE PowerLoss
  <2>1. archives' = archives \/ (archives # <<>> /\ archives' = Archive(<<>>, FALSE))
    BY <1>8 DEF PowerLoss, file
  <2>2. archives # <<>> => Newest > 0
    BY <1>1 DEF Newest
  <2>3. <<>> \in Seq(Int)
    OBVIOUS
  <2>4. QED
    BY <1>2, <1>4, <2>1, <2>2, <2>3
<1>9. CASE Begin \/ Stat \/ Truncate \/ StepFails \/ AppendEvent \/ AppendFails \/ Sync \/ SyncFails \/ Crash \/ UNCHANGED vars
  BY <1>2, <1>9 DEF Begin, Stat, Truncate, StepFails, AppendEvent, AppendFails, Sync, SyncFails, Crash, vars, file
<1>10. CASE Create
  BY <1>3, <1>10 DEF Create, file
<1>11. CASE ArchiveStays
  BY <1>2, <1>11 DEF Completes
<1>12. QED
  BY <1>6, <1>7, <1>8, <1>9, <1>10, <1>11 DEF Completes, Next, WriteStep

(* An archive that can be read stays readable, but for the newest when the    *)
(* power goes.                                                                *)
LEMMA ArchivesStay ==
    ASSUME OrderInv, [Next]_vars
    PROVE  \A k \in Good : (k \in Good' /\ archives'[k] = archives[k]) \/ (PowerLoss /\ k = Newest)
<1>1. /\ Newest \in Nat /\ log \in Seq(Int) /\ archives \in Seq([lines : Seq(Int), ok : BOOLEAN])
      /\ (pc \in {"copy", "close"} => Newest > 0 /\ Newest \notin Good)
  BY EventTypes DEF OrderInv, StepInv, TypeOK, Good
<1>2. CASE archives' = archives
  BY <1>2 DEF Good, Newest
<1>3. CASE archives' = Append(archives, [lines |-> <<>>, ok |-> FALSE])
  <2>1. Len(archives') = Newest + 1 /\ \A k \in 1..Newest : archives'[k] = archives[k]
    BY <1>1, <1>3 DEF Newest
  <2>2. QED
    BY <1>1, <2>1 DEF Good, Newest
<1>4. ASSUME NEW data \in Seq(Int), archives' = Archive(data, FALSE), Newest > 0
      PROVE  \A k \in Good : (k \in Good' /\ archives'[k] = archives[k]) \/ k = Newest
  <2>1. /\ Len(archives') = Newest /\ archives'[Newest].ok = FALSE
        /\ \A k \in 1..Newest : k # Newest => archives'[k] = archives[k]
    <3>1. FALSE \in BOOLEAN
      OBVIOUS
    <3>2. /\ Len(Archive(data, FALSE)) = Newest /\ Archive(data, FALSE)[Newest].ok = FALSE
          /\ \A k \in 1..Newest : k # Newest => Archive(data, FALSE)[k] = archives[k]
      BY <1>1, <1>4, <3>1, ArchiveShape, Zenon
    <3>3. QED
      BY <1>4, <3>2, Zenon
  <2>2. QED
    BY <1>1, <2>1 DEF Good, Newest
<1>5. CASE archives' = SubSeq(archives, 1, Newest - 1) /\ Newest > 0 /\ Newest \notin Good
  <2>1. Len(archives') = Newest - 1 /\ \A k \in 1..(Newest - 1) : archives'[k] = archives[k]
    BY <1>1, <1>5, Shorter DEF Newest
  <2>2. Good' = {k \in 1..(Newest - 1) : archives'[k].ok}
    BY <2>1 DEF Good, Newest
  <2>3. ASSUME NEW k \in Good PROVE k \in 1..(Newest - 1) /\ archives[k].ok
    <3>1. k \in 1..Newest /\ archives[k].ok
      BY DEF Good
    <3>2. k # Newest
      BY <1>5
    <3>3. QED
      BY <1>1, <3>1, <3>2
  <2>4. QED
    BY <2>1, <2>2, <2>3
<1>6. CASE Copy
  BY <1>1, <1>4, <1>6 DEF Copy, Goto, file
<1>7. CASE Completes
  BY <1>7, WhatIsCompleted, Completed DEF Completes
<1>8. CASE ArchiveFails
  BY <1>1, <1>5, <1>8 DEF ArchiveFails, Drop
<1>9. CASE PowerLoss
  <2>1. archives' = archives \/ (archives # <<>> /\ archives' = Archive(<<>>, FALSE))
    BY <1>9 DEF PowerLoss, file
  <2>2. archives # <<>> => Newest > 0
    BY <1>1 DEF Newest
  <2>3. <<>> \in Seq(Int)
    OBVIOUS
  <2>4. QED
    BY <1>2, <1>4, <1>9, <2>1, <2>2, <2>3
<1>10. CASE Begin \/ Stat \/ Truncate \/ StepFails \/ AppendEvent \/ AppendFails \/ Sync \/ SyncFails \/ Crash \/ UNCHANGED vars
  BY <1>2, <1>10 DEF Begin, Stat, Truncate, StepFails, AppendEvent, AppendFails, Sync, SyncFails, Crash, vars, file
<1>11. CASE Create
  BY <1>3, <1>11 DEF Create, file
<1>12. CASE ArchiveStays
  BY <1>2, <1>7, <1>12 DEF Completes
<1>13. QED
  BY <1>6, <1>7, <1>8, <1>9, <1>10, <1>11, <1>12 DEF Completes, Next, WriteStep

-----------------------------------------------------------------------------
(* The order of the files. *)

(* Of two beginnings of a file, one is the beginning of the other. *)
LEMMA PrefixesCompare ==
    ASSUME NEW s \in Seq(Int), NEW t \in Seq(Int), NEW u \in Seq(Int), Prefix(s, u), Prefix(t, u)
    PROVE  Prefix(s, t) \/ Prefix(t, s)
<1>1. /\ Len(s) \in Nat /\ Len(t) \in Nat /\ Len(u) \in Nat /\ Len(s) <= Len(u) /\ Len(t) <= Len(u)
      /\ \A i \in 1..Len(s) : s[i] = u[i] \/ (i = Len(s) /\ s[i] = -Event(u[i]))
      /\ \A i \in 1..Len(t) : t[i] = u[i] \/ (i = Len(t) /\ t[i] = -Event(u[i]))
  BY DEF Prefix
<1>2. CASE Len(s) < Len(t)
  <2>1. ASSUME NEW i \in 1..Len(s) PROVE s[i] = t[i] \/ (i = Len(s) /\ s[i] = -Event(t[i]))
    <3>1. i \in 1..Len(t) /\ i # Len(t)
      BY <1>1, <1>2
    <3>2. t[i] = u[i]
      BY <1>1, <3>1
    <3>3. QED
      BY <1>1, <3>2
  <2>2. QED
    BY <1>1, <1>2, <2>1 DEF Prefix
<1>3. CASE Len(t) < Len(s)
  <2>1. ASSUME NEW i \in 1..Len(t) PROVE t[i] = s[i] \/ (i = Len(t) /\ t[i] = -Event(s[i]))
    <3>1. i \in 1..Len(s) /\ i # Len(s)
      BY <1>1, <1>3
    <3>2. s[i] = u[i]
      BY <1>1, <3>1
    <3>3. QED
      BY <1>1, <3>2
  <2>2. QED
    BY <1>1, <1>3, <2>1 DEF Prefix
<1>4. CASE Len(s) = Len(t)
  <2>1. \A i \in 1..Len(s) : Event(s[i]) = Event(u[i]) /\ Event(t[i]) = Event(u[i])
    BY <1>4, PrefixEvents
  <2>2. \A i \in 1..Len(s) : i # Len(s) => s[i] = t[i]
    BY <1>1, <1>4
  <2>3. CASE Len(s) \in 1..Len(s) => s[Len(s)] = -Event(u[Len(s)])
    <3>1. \A i \in 1..Len(s) : s[i] = t[i] \/ (i = Len(s) /\ s[i] = -Event(t[i]))
      BY <2>1, <2>2, <2>3
    <3>2. Len(s) <= Len(t)
      BY <1>1, <1>4
    <3>3. QED
      BY <3>1, <3>2 DEF Prefix
  <2>4. CASE Len(s) \in 1..Len(s) /\ s[Len(s)] # -Event(u[Len(s)])
    <3>1. s[Len(s)] = u[Len(s)]
      BY <1>1, <2>4
    <3>2. \A i \in 1..Len(t) : t[i] = s[i] \/ (i = Len(t) /\ t[i] = -Event(s[i]))
      BY <1>1, <1>4, <2>1, <2>2, <3>1
    <3>3. Len(t) <= Len(s)
      BY <1>1, <1>4
    <3>4. QED
      BY <3>2, <3>3 DEF Prefix
  <2>5. QED
    BY <2>3, <2>4
<1>5. QED
  BY <1>1, <1>2, <1>3, <1>4

(* What the log follows, a beginning of the log follows or is contained in. *)
LEMMA FollowsPart ==
    ASSUME NEW s \in Seq(Int), NEW t \in Seq(Int), NEW u \in Seq(Int), Follows(s, u), Prefix(t, u)
    PROVE  Follows(s, t) \/ Prefix(t, s)
<1>1. CASE Prefix(s, u)
  BY <1>1, PrefixesCompare DEF Follows
<1>2. CASE \A i \in 1..Len(s), j \in 1..Len(u) : Event(s[i]) < Event(u[j])
  <2>1. \A j \in 1..Len(t) : j \in 1..Len(u) /\ Event(t[j]) = Event(u[j])
    BY PrefixEvents
  <2>2. QED
    BY <1>2, <2>1 DEF Follows
<1>3. QED
  BY <1>1, <1>2 DEF Follows

(* What the older file does not reach into may change: an event that is       *)
(* newer than all of its events is added, torn or taken away.                 *)
LEMMA FollowsChanged ==
    ASSUME NEW s \in Seq(Int), NEW t \in Seq(Int), NEW u \in Seq(Int), NEW n \in Nat, Follows(s, t),
           \A i \in 1..Len(s) : Event(s[i]) < n,
           \A j \in 1..Len(u) : (j \in 1..Len(t) /\ u[j] = t[j]) \/ Event(u[j]) = n,
           \A j \in 1..Len(t) : (j \in 1..Len(u) /\ u[j] = t[j]) \/ Event(t[j]) = n
    PROVE  Follows(s, u)
<1>1. Len(s) \in Nat /\ Len(t) \in Nat /\ Len(u) \in Nat
  OBVIOUS
<1>2. CASE Prefix(s, t)
  <2>1. \A i \in 1..Len(s) : /\ i \in 1..Len(t) /\ Event(s[i]) = Event(t[i])
                             /\ s[i] = t[i] \/ (i = Len(s) /\ s[i] = -Event(t[i]))
    BY <1>2, PrefixEvents DEF Prefix
  <2>2. ASSUME NEW i \in 1..Len(s) PROVE i \in 1..Len(u) /\ u[i] = t[i]
    <3>1. Event(s[i]) < n /\ s[i] \in Int
      OBVIOUS
    <3>2. Event(s[i]) # n
      BY <3>1 DEF Event
    <3>3. QED
      BY <2>1, <3>2
  <2>3. Len(s) <= Len(u)
    <3>1. CASE Len(s) = 0
      BY <1>1, <3>1
    <3>2. CASE Len(s) # 0
      <4>1. Len(s) \in 1..Len(s)
        BY <1>1, <3>2
      <4>2. Len(s) \in 1..Len(u)
        BY <2>2, <4>1
      <4>3. \A m, n0 \in Nat : m \in 1..n0 => m <= n0
        OBVIOUS
      <4>4. QED
        BY <1>1, <4>2, <4>3
    <3>3. QED
      BY <3>1, <3>2
  <2>4. QED
    BY <2>1, <2>2, <2>3 DEF Follows, Prefix
<1>3. CASE \A i \in 1..Len(s), j \in 1..Len(t) : Event(s[i]) < Event(t[j])
  BY <1>3 DEF Follows
<1>4. QED
  BY <1>2, <1>3 DEF Follows

(* What a step does to the log. *)
LEMMA LogChanges ==
    ASSUME OrderInv, [Next]_vars
    PROVE  \/ log' = log
           \/ Truncate
           \/ /\ pc # "idle"
              /\ \A j \in 1..Len(log') : (j \in 1..Len(log) /\ log'[j] = log[j]) \/ Event(log'[j]) = next
              /\ \A j \in 1..Len(log) : (j \in 1..Len(log') /\ log'[j] = log[j]) \/ Event(log[j]) = next
              /\ \A j \in 1..Len(log) : j = Len(log) \/ (j \in 1..Len(log') /\ log'[j] = log[j])
<1>1. log \in Seq(Int) /\ Len(log) \in Nat /\ next \in Nat
  BY EventTypes DEF OrderInv, TypeOK
<1>2. Event(next) = next /\ Event(-next) = next
  BY <1>1 DEF Event
<1>3. ASSUME NEW x \in {next, -next}, log' = Append(log, x), pc = "append" PROVE
          /\ \A j \in 1..Len(log') : (j \in 1..Len(log) /\ log'[j] = log[j]) \/ Event(log'[j]) = next
          /\ \A j \in 1..Len(log) : (j \in 1..Len(log') /\ log'[j] = log[j]) \/ Event(log[j]) = next
          /\ \A j \in 1..Len(log) : j = Len(log) \/ (j \in 1..Len(log') /\ log'[j] = log[j])
  <2>1. Len(log') = Len(log) + 1 /\ log'[Len(log) + 1] = x /\ \A j \in 1..Len(log) : log'[j] = log[j]
    BY <1>1, <1>3
  <2>2. Len(log) \in Nat /\ Event(x) = next
    BY <1>1, <1>2
  <2>3. QED
    BY <2>1, <2>2
<1>4. CASE AppendEvent \/ AppendFails
  BY <1>3, <1>4 DEF AppendEvent, AppendFails, Goto, Drop, file
<1>5. CASE PowerLoss
  <2>1. pc = "sync" => Len(log) > 0 /\ log[Len(log)] = next
    BY DEF OrderInv, StepInv
  <2>2. CASE pc = "sync" /\ log' = SubSeq(log, 1, Len(log) - 1)
    <3>1. Len(log') = Len(log) - 1 /\ \A j \in 1..(Len(log) - 1) : log'[j] = log[j]
      BY <1>1, <2>1, <2>2, Shorter
    <3>2. pc # "idle" /\ Len(log) \in Nat /\ Len(log) > 0 /\ log[Len(log)] = next
      BY <1>1, <2>1, <2>2
    <3>3. QED
      BY <1>2, <3>1, <3>2
  <2>3. CASE pc = "sync" /\ log' = [log EXCEPT ![Len(log)] = -next]
    <3>1. Len(log') = Len(log) /\ \A j \in 1..Len(log) : log'[j] = IF j = Len(log) THEN -next ELSE log[j]
      BY <1>1, <2>1, <2>3
    <3>2. pc # "idle" /\ Len(log) \in Nat /\ Len(log) > 0 /\ log[Len(log)] = next
      BY <1>1, <2>1, <2>3
    <3>3. QED
      BY <1>2, <3>1, <3>2
  <2>4. QED
    BY <1>5, <2>2, <2>3 DEF PowerLoss, file
<1>6. CASE Begin \/ Stat \/ Create \/ Copy \/ Close \/ StepFails \/ ArchiveFails \/ ArchiveStays \/ Sync \/ SyncFails \/ Crash \/ UNCHANGED vars
  BY <1>6 DEF Begin, Stat, Create, Copy, Close, StepFails, ArchiveFails, ArchiveStays, Sync, SyncFails, Crash, vars, file
<1>7. QED
  BY <1>4, <1>5, <1>6 DEF Next, WriteStep

LEMMA TrailStep == OrderInv /\ TrailIsInOrder /\ [Next]_vars => TrailIsInOrder'
<1> SUFFICES ASSUME OrderInv, TrailIsInOrder, [Next]_vars PROVE TrailIsInOrder'
  OBVIOUS
<1>1. OrderInv'
  BY OrderStep
<1>2. log \in Seq(Int) /\ log' \in Seq(Int) /\ next \in Nat
  BY <1>1, EventTypes DEF OrderInv, TypeOK
<1>3. \A k \in Good : k \in 1..Newest /\ archives[k].lines \in Seq(Int)
  <2>1. \A a \in [lines : Seq(Int), ok : BOOLEAN] : a.lines \in Seq(Int)
    OBVIOUS
  <2>2. QED
    BY <2>1, EventTypes DEF OrderInv, Good
<1>4. ASSUME NEW k \in Good PROVE Follows(archives[k].lines, log')
  <2>1. Follows(archives[k].lines, log)
    BY DEF TrailIsInOrder
  <2>2. CASE log' = log
    BY <2>1, <2>2
  <2>3. CASE Truncate
    BY <2>3 DEF Truncate, Remaining, Follows, file
  <2>4. CASE /\ pc # "idle"
             /\ \A j \in 1..Len(log') : (j \in 1..Len(log) /\ log'[j] = log[j]) \/ Event(log'[j]) = next
             /\ \A j \in 1..Len(log) : (j \in 1..Len(log') /\ log'[j] = log[j]) \/ Event(log[j]) = next
    <3>1. \A i \in 1..Len(archives[k].lines) : Event(archives[k].lines[i]) < next
      BY <1>3, <2>4 DEF OrderInv, ArchiveEvents
    <3>2. QED
      BY <1>2, <1>3, <2>1, <2>4, <3>1, FollowsChanged
  <2>5. QED
    BY <2>2, <2>3, <2>4, LogChanges
<1>5. CASE Completes
  <2>1. Newest > 0 /\ ~archives[Newest].ok /\ log' = log
    BY <1>5, WhatIsCompleted
  <2>2. PICK data \in Seq(Int) : archives' = Archive(data, TRUE) /\ Prefix(data, log)
    BY <1>5, WhatIsCompleted
  <2>3. /\ archives'[Newest].lines = data
        /\ \A k \in Good' : k = Newest \/ (k \in Good /\ archives'[k] = archives[k])
        /\ \A k \in Good : k < Newest
    BY <2>1, <2>2, Completed
  <2>4. ASSUME NEW k \in Good' PROVE Follows(archives'[k].lines, log')
    <3>1. CASE k = Newest
      BY <2>1, <2>2, <2>3, <3>1 DEF Follows
    <3>2. CASE k \in Good /\ archives'[k] = archives[k]
      BY <1>4, <3>2
    <3>3. QED
      BY <2>3, <3>1, <3>2
  <2>5. ASSUME NEW k \in Good', NEW m \in Good', k < m
        PROVE  Follows(archives'[k].lines, archives'[m].lines) \/ Prefix(archives'[m].lines, archives'[k].lines)
    <3>1. k # Newest
      <4>1. m = Newest \/ m < Newest
        BY <2>3
      <4>2. Newest \in Nat /\ (m = Newest \/ m \in Nat)
        BY <1>3, <2>3, EventTypes DEF OrderInv
      <4>3. QED
        BY <2>5, <4>1, <4>2
    <3>2. k \in Good /\ archives'[k] = archives[k] /\ archives[k].lines \in Seq(Int)
      BY <1>3, <2>3, <3>1
    <3>3. CASE m = Newest
      <4>1. Follows(archives[k].lines, log)
        BY <3>2 DEF TrailIsInOrder
      <4>2. Follows(archives[k].lines, data) \/ Prefix(data, archives[k].lines)
        BY <1>2, <2>2, <3>2, <4>1, FollowsPart
      <4>3. QED
        BY <2>3, <3>2, <3>3, <4>2
    <3>4. CASE m \in Good /\ archives'[m] = archives[m]
      BY <2>5, <3>2, <3>4 DEF TrailIsInOrder
    <3>5. QED
      BY <2>3, <3>3, <3>4
  <2>6. QED
    BY <2>4, <2>5 DEF TrailIsInOrder
<1>6. CASE ~Completes
  <2>1. \A k \in Good' : k \in Good /\ archives'[k] = archives[k]
    BY <1>6, NoneCompleted
  <2>2. QED
    BY <1>4, <2>1 DEF TrailIsInOrder
<1>7. QED
  BY <1>5, <1>6

(* However a rotation is interrupted, repeated or undone, the archives and    *)
(* the log can be put in order: of two files, the older is repeated at the    *)
(* beginning of the newer or holds only earlier events, or the newer is an    *)
(* unfinished archive that repeats the beginning of the older.                *)
THEOREM OrderedTrail == Spec => []TrailIsInOrder
<1>1. Init => TrailIsInOrder
  BY DEF Init, TrailIsInOrder, Good, Newest
<1>2. QED
  BY <1>1, OrderInvariant, TrailStep, PTL DEF Spec

-----------------------------------------------------------------------------
(* What can be lost. *)

LEMMA ShortCount == \A f : Cardinality(f \cap {"short"}) = IF "short" \in f THEN 1 ELSE 0
<1> SUFFICES ASSUME NEW f PROVE Cardinality(f \cap {"short"}) = IF "short" \in f THEN 1 ELSE 0
  OBVIOUS
<1>1. CASE "short" \in f
  <2>1. f \cap {"short"} = {"short"}
    BY <1>1
  <2>2. QED
    BY <1>1, <2>1, FS_Singleton
<1>2. CASE "short" \notin f
  <2>1. f \cap {"short"} = {}
    BY <1>2
  <2>2. QED
    BY <1>2, <2>1, FS_EmptySet
<1>3. QED
  BY <1>1, <1>2

(* The allowance grows with a cut line and with a power loss. *)
LEMMA AllowanceGrows ==
    ASSUME OrderInv, [Next]_vars
    PROVE  /\ Allowance \in Nat /\ Allowance' \in Nat /\ Allowance <= Allowance'
           /\ PowerLoss => Allowance' = Allowance + MaxBytes + 1
           /\ "short" \in faults' \ faults => Allowance + 1 <= Allowance'
<1>1. /\ Allowance = (IF "short" \in faults THEN 1 ELSE 0) + (IF "power" \in faults THEN MaxBytes + 1 ELSE 0)
      /\ Allowance' = (IF "short" \in faults' THEN 1 ELSE 0) + (IF "power" \in faults' THEN MaxBytes + 1 ELSE 0)
  BY ShortCount DEF Allowance
<1>2. faults \subseteq faults' /\ MaxBytes \in Nat
  <2>1. CASE StepFails \/ ArchiveFails \/ ArchiveStays \/ AppendFails \/ SyncFails \/ Crash \/ PowerLoss
    BY <2>1, AuditAssumption DEF StepFails, ArchiveFails, ArchiveStays, AppendFails, SyncFails, Crash, PowerLoss, Drop, file
  <2>2. CASE Begin \/ Stat \/ Create \/ Copy \/ Close \/ Truncate \/ AppendEvent \/ Sync \/ UNCHANGED vars
    BY <2>2, AuditAssumption DEF Begin, Stat, Create, Copy, Close, Truncate, AppendEvent, Sync, Goto, vars, file
  <2>3. QED
    BY <2>1, <2>2 DEF Next, WriteStep
<1>3. PowerLoss => "power" \notin faults /\ faults' = faults \cup {"power"}
  BY DEF PowerLoss, Drop, file
<1>4. PowerLoss => ("short" \in faults' <=> "short" \in faults) /\ "power" \in faults' /\ "power" \notin faults
  BY <1>3
<1>5. ("short" \in faults => "short" \in faults') /\ ("power" \in faults => "power" \in faults')
  BY <1>2
<1>6. QED
  BY <1>1, <1>2, <1>4, <1>5

(* An acknowledged event that can be read in the log still can after any step *)
(* but the truncation.                                                        *)
LEMMA LogStays ==
    ASSUME OrderInv, [Next]_vars, ~Truncate, NEW e \in acked, e \in Whole(log)
    PROVE  e \in Whole(log')
<1>1. /\ log \in Seq(Int) /\ Len(log) \in Nat /\ next \in Nat /\ e \in 1..next
      /\ (pc # "idle" => next \notin acked)
  BY EventTypes DEF OrderInv, TypeOK, StepInv
<1>2. PICK i \in 1..Len(log) : e = log[i] /\ (i = 1 \/ log[i - 1] > 0)
  BY DEF Whole
<1>3. CASE log' = log
  BY <1>3
<1>4. CASE /\ pc # "idle"
           /\ \A j \in 1..Len(log) : (j \in 1..Len(log') /\ log'[j] = log[j]) \/ Event(log[j]) = next
           /\ \A j \in 1..Len(log) : j = Len(log) \/ (j \in 1..Len(log') /\ log'[j] = log[j])
  <2>1. Event(log[i]) # next
    <3>1. Event(e) = e /\ e # next
      BY <1>1, <1>4 DEF Event
    <3>2. QED
      BY <1>2, <3>1
  <2>2. i \in 1..Len(log') /\ log'[i] = e
    BY <1>2, <1>4, <2>1
  <2>3. i = 1 \/ log'[i - 1] > 0
    <3>1. CASE i # 1
      <4>1. i - 1 \in 1..Len(log) /\ i - 1 # Len(log)
        BY <1>1, <3>1
      <4>2. log'[i - 1] = log[i - 1]
        BY <1>4, <4>1
      <4>3. QED
        BY <1>2, <3>1, <4>2
    <3>2. QED
      BY <3>1
  <2>4. QED
    BY <2>2, <2>3 DEF Whole
<1>5. QED
  BY <1>3, <1>4, LogChanges

(* What is in a file that can be read can be read. *)
LEMMA ReadableFiles ==
    /\ \A e : e \in Readable <=> e \in Whole(log) \/ \E k \in Good : e \in Whole(archives[k].lines)
    /\ \A e : e \in Readable' <=> e \in Whole(log') \/ \E k \in Good' : e \in Whole(archives'[k].lines)
BY DEF Readable

(* Only a power loss takes something away that could be read, and only the    *)
(* newest archive.                                                            *)
LEMMA EventsStay ==
    ASSUME OrderInv, [Next]_vars, NEW e \in acked, e \in Readable
    PROVE  e \in Readable' \/ (PowerLoss /\ Newest \in Good /\ e \in Whole(archives[Newest].lines))
<1>1. CASE \E k \in Good : e \in Whole(archives[k].lines)
  <2>1. PICK k \in Good : e \in Whole(archives[k].lines)
    BY <1>1
  <2>2. (k \in Good' /\ archives'[k] = archives[k]) \/ (PowerLoss /\ k = Newest)
    BY ArchivesStay
  <2>3. QED
    BY <2>1, <2>2, ReadableFiles
<1>2. CASE e \in Whole(log) /\ ~Truncate
  BY <1>2, LogStays, ReadableFiles
<1>3. CASE e \in Whole(log) /\ Truncate
  <2>1. Newest \in Good /\ archives[Newest].lines = log
    BY <1>3, EventTypes DEF OrderInv, StepInv, Truncate, Goto, Good, file
  <2>2. archives' = archives /\ Good' = Good
    BY <1>3 DEF Truncate, Good, Newest, file
  <2>3. QED
    BY <1>3, <2>1, <2>2, ReadableFiles
<1>4. QED
  BY <1>1, <1>2, <1>3, ReadableFiles

(* A loss to come appears with a cut line, and goes when it has happened. *)
LEMMA PendingChanges ==
    ASSUME OrderInv, [Next]_vars
    PROVE  /\ Pending \in 0..1 /\ Pending' \in 0..1
           /\ Pending' <= Pending \/ PowerLoss \/ "short" \in faults' \ faults
           /\ Sync => Pending' = 0
<1>1. /\ log \in Seq(Int) /\ Len(log) \in Nat /\ next \in Nat
      /\ (pc # "idle" => next > 0) /\ (pc = "sync" => Len(log) > 0 /\ log[Len(log)] = next)
  BY EventTypes DEF OrderInv, TypeOK, StepInv
<1>2. Pending \in 0..1 /\ Pending' \in 0..1
  BY DEF Pending
<1>3. ASSUME log' = log, pc' # "sync" PROVE Pending' <= Pending
  <2>1. Torn(log') => Torn(log)
    BY <1>3
  <2>2. ~Spoiled'
    BY <1>3 DEF Spoiled
  <2>3. QED
    BY <2>1, <2>2 DEF Pending
<1>4. ASSUME Sync PROVE Pending' = 0
  <2>1. pc = "sync" /\ pc' = "idle" /\ log' = log
    BY <1>4 DEF Sync, file
  <2>2. ~Torn(log') /\ ~Spoiled'
    BY <1>1, <2>1 DEF Torn, Spoiled
  <2>3. QED
    BY <2>2 DEF Pending
<1>5. CASE UNCHANGED vars
  <2>1. Pending' = Pending
    BY <1>5 DEF vars, Pending, Torn, Spoiled, file
  <2>2. QED
    BY <1>2, <1>4, <2>1
<1>6. CASE AppendEvent
  <2>1. pc # "idle" /\ pc' = "sync" /\ log' = Append(log, next)
    BY <1>6 DEF AppendEvent, Goto, file
  <2>2. Len(log') = Len(log) + 1 /\ log'[Len(log) + 1] = next /\ \A j \in 1..Len(log) : log'[j] = log[j]
    BY <1>1, <2>1
  <2>3. ~Torn(log')
    BY <1>1, <2>1, <2>2 DEF Torn
  <2>4. Spoiled' => Torn(log)
    BY <1>1, <2>2 DEF Spoiled, Torn
  <2>5. Pending' <= Pending
    BY <2>3, <2>4 DEF Pending
  <2>6. QED
    BY <1>2, <1>4, <2>5
<1>7. CASE AppendFails
  <2>1. (log' = log /\ pc' = "idle") \/ "short" \in faults' \ faults
    BY <1>7 DEF AppendFails, Drop, file
  <2>2. QED
    BY <1>2, <1>3, <1>4, <2>1
<1>8. CASE Truncate
  <2>1. ~Torn(log') /\ ~Spoiled'
    BY <1>8 DEF Truncate, Remaining, Goto, Torn, Spoiled, file
  <2>2. QED
    BY <1>2, <2>1 DEF Pending
<1>9. CASE Begin \/ Stat \/ Create \/ Copy \/ Close \/ StepFails \/ ArchiveFails \/ ArchiveStays \/ Sync \/ SyncFails \/ Crash
  <2>1. log' = log /\ pc' # "sync"
    BY <1>9 DEF Begin, Stat, Create, Copy, Close, StepFails, ArchiveFails, ArchiveStays, Sync, SyncFails, Crash, Goto, Drop, file
  <2>2. QED
    BY <1>2, <1>3, <1>4, <2>1
<1>10. CASE PowerLoss
  BY <1>2, <1>4, <1>10
<1>11. QED
  BY <1>5, <1>6, <1>7, <1>8, <1>9, <1>10 DEF Next, WriteStep

(* A file has at most as many whole lines as lines. *)
LEMMA WholeCount ==
    ASSUME NEW data \in Seq(Int)
    PROVE  IsFiniteSet(Whole(data)) /\ Cardinality(Whole(data)) <= Len(data)
<1> DEFINE S == {k \in 1..Len(data) : k = 1 \/ data[k - 1] > 0}
           f == [k \in S |-> data[k]]
<1>1. Len(data) \in Nat
  OBVIOUS
<1>2. IsFiniteSet(1..Len(data)) /\ Cardinality(1..Len(data)) = Len(data)
  <2>1. IsFiniteSet(1..Len(data)) /\ Cardinality(1..Len(data)) = IF 1 > Len(data) THEN 0 ELSE Len(data) - 1 + 1
    BY <1>1, FS_Interval
  <2>2. QED
    BY <1>1, <2>1
<1>3. IsFiniteSet(S) /\ Cardinality(S) <= Len(data)
  BY <1>2, FS_Subset
<1>4. f \in Surjection(S, Whole(data))
  BY DEF Surjection, Whole
<1>5. IsFiniteSet(Whole(data)) /\ Cardinality(Whole(data)) <= Cardinality(S)
  BY <1>3, <1>4, FS_Surjection
<1>6. Cardinality(S) \in Nat /\ Cardinality(Whole(data)) \in Nat
  BY <1>3, <1>5, FS_CardinalityType
<1>7. QED
  BY <1>1, <1>3, <1>5, <1>6

LEMMA LossStep == OrderInv /\ LossInv /\ [Next]_vars => LossInv'
<1> SUFFICES ASSUME OrderInv, LossInv, [Next]_vars PROVE LossInv'
  OBVIOUS
<1>1. IsFiniteSet(Lost) /\ Cardinality(Lost) \in Nat /\ Cardinality(Lost) + Pending <= Allowance
  <2>1. acked \subseteq 1..next /\ next \in Nat
    BY EventTypes DEF OrderInv, TypeOK
  <2>2. IsFiniteSet(1..next)
    BY <2>1, FS_Interval
  <2>3. IsFiniteSet(Lost)
    BY <2>1, <2>2, FS_Subset DEF Lost
  <2>4. QED
    BY <2>3, FS_CardinalityType DEF LossInv
<1>2. Pending \in 0..1 /\ Pending' \in 0..1 /\ Allowance \in Nat /\ Allowance' \in Nat /\ MaxBytes \in Nat
  BY PendingChanges, AllowanceGrows, AuditAssumption
<1>3. CASE Sync /\ Spoiled
  <2>1. Lost' \subseteq Lost \cup {next} /\ ~PowerLoss
    <3>1. acked' = acked \cup {next} /\ ~PowerLoss
      BY <1>3 DEF Sync, PowerLoss, Drop, OrderInv, StepInv, file
    <3>2. QED
      BY <3>1, EventsStay DEF Lost
  <2>2. IsFiniteSet(Lost \cup {next}) /\ Cardinality(Lost \cup {next}) <= Cardinality(Lost) + 1
    <3>1. IsFiniteSet(Lost \cup {next})
          /\ Cardinality(Lost \cup {next}) = IF next \in Lost THEN Cardinality(Lost) ELSE Cardinality(Lost) + 1
      BY <1>1, FS_AddElement
    <3>2. QED
      BY <1>1, <3>1
  <2>3. IsFiniteSet(Lost') /\ Cardinality(Lost') <= Cardinality(Lost \cup {next})
    BY <2>1, <2>2, FS_Subset
  <2>4. Cardinality(Lost') \in Nat /\ Cardinality(Lost \cup {next}) \in Nat
    BY <2>2, <2>3, FS_CardinalityType
  <2>5. Pending = 1 /\ Pending' = 0 /\ Allowance <= Allowance'
    BY <1>3, PendingChanges, AllowanceGrows DEF Pending
  <2>6. QED
    BY <1>1, <1>2, <2>2, <2>3, <2>4, <2>5 DEF LossInv
<1>4. CASE PowerLoss
  <2>1. PICK W : /\ IsFiniteSet(W) /\ Cardinality(W) \in Nat /\ Cardinality(W) <= MaxBytes
                 /\ Newest \in Good => W = Whole(archives[Newest].lines)
    <3>1. CASE Newest \in Good
      <4>1. archives[Newest].lines \in Seq(Int) /\ Len(archives[Newest].lines) <= MaxBytes
            /\ Len(archives[Newest].lines) \in Nat
        <5>1. \A a \in [lines : Seq(Int), ok : BOOLEAN] : a.lines \in Seq(Int)
          OBVIOUS
        <5>2. Newest \in 1..Newest
          BY <3>1 DEF Good
        <5>3. QED
          BY <5>1, <5>2, EventTypes DEF OrderInv, ArchiveEvents
      <4>2. IsFiniteSet(Whole(archives[Newest].lines))
            /\ Cardinality(Whole(archives[Newest].lines)) <= Len(archives[Newest].lines)
        BY <4>1, WholeCount
      <4>3. Cardinality(Whole(archives[Newest].lines)) \in Nat
        BY <4>2, FS_CardinalityType
      <4>4. Cardinality(Whole(archives[Newest].lines)) <= MaxBytes
        BY <1>2, <4>1, <4>2, <4>3
      <4>5. QED
        BY <4>2, <4>3, <4>4
    <3>2. CASE Newest \notin Good
      <4>1. IsFiniteSet({}) /\ Cardinality({}) = 0
        BY FS_EmptySet
      <4>2. 0 \in Nat /\ 0 <= MaxBytes
        BY <1>2
      <4>3. QED
        BY <3>2, <4>1, <4>2
    <3>3. QED
      BY <3>1, <3>2
  <2>2. Lost' \subseteq Lost \cup W
    <3>1. acked' = acked
      BY <1>4 DEF PowerLoss, Drop, file
    <3>2. QED
      BY <2>1, <3>1, EventsStay DEF Lost
  <2>3. IsFiniteSet(Lost \cup W) /\ Cardinality(Lost \cup W) = Cardinality(Lost) + Cardinality(W) - Cardinality(Lost \cap W)
    BY <1>1, <2>1, FS_Union
  <2>4. IsFiniteSet(Lost \cap W)
    BY <1>1, FS_Intersection
  <2>5. Cardinality(Lost \cap W) \in Nat /\ Cardinality(Lost \cup W) \in Nat
    BY <2>3, <2>4, FS_CardinalityType
  <2>6. IsFiniteSet(Lost') /\ Cardinality(Lost') <= Cardinality(Lost \cup W)
    BY <2>2, <2>3, FS_Subset
  <2>7. Cardinality(Lost') \in Nat
    BY <2>6, FS_CardinalityType
  <2>8. Allowance' = Allowance + MaxBytes + 1
    BY <1>4, AllowanceGrows
  <2>9. QED
    BY <1>1, <1>2, <2>1, <2>3, <2>5, <2>6, <2>7, <2>8 DEF LossInv
<1>5. CASE ~PowerLoss /\ ~(Sync /\ Spoiled)
  <2>1. \A e \in acked : e \in Readable => e \in Readable'
    BY <1>5, EventsStay
  <2>2. Lost' \subseteq Lost
    <3>1. CASE Sync
      <4>1. acked' = acked \cup {next} /\ log' = log
        BY <3>1 DEF Sync, file
      <4>2. next \in Readable'
        <5>1. /\ Len(log) \in Nat /\ Len(log) > 0 /\ log[Len(log)] = next /\ log \in Seq(Int)
              /\ pc = "sync"
          BY <3>1 DEF Sync, OrderInv, StepInv, TypeOK, file
        <5>2. Len(log) = 1 \/ log[Len(log) - 1] > 0
          <6>1. Len(log) > 1 => log[Len(log) - 1] \in Int
            BY <5>1
          <6>2. ~Spoiled
            BY <1>5, <3>1
          <6>3. Len(log) > 1 => ~(log[Len(log) - 1] <= 0)
            BY <5>1, <6>2 DEF Spoiled
          <6>4. (\A x \in Int : ~(x <= 0) => x > 0) /\ \A n \in Nat : n > 0 => n = 1 \/ n > 1
            OBVIOUS
          <6>5. QED
            BY <5>1, <6>1, <6>3, <6>4
        <5>3. Len(log) \in 1..Len(log)
          BY <5>1
        <5>4. next \in Whole(log)
          BY <5>1, <5>2, <5>3 DEF Whole
        <5>5. QED
          BY <4>1, <5>4, ReadableFiles
      <4>3. QED
        BY <2>1, <4>1, <4>2 DEF Lost
    <3>2. CASE ~Sync
      <4>1. acked' = acked
        <5>1. CASE StepFails \/ ArchiveFails \/ ArchiveStays \/ AppendFails \/ SyncFails \/ Crash
          BY <5>1 DEF StepFails, ArchiveFails, ArchiveStays, AppendFails, SyncFails, Crash, Drop, file
        <5>2. CASE Begin \/ Stat \/ Create \/ Copy \/ Close \/ Truncate \/ AppendEvent \/ UNCHANGED vars
          BY <5>2 DEF Begin, Stat, Create, Copy, Close, Truncate, AppendEvent, Goto, vars, file
        <5>3. QED
          BY <1>5, <3>2, <5>1, <5>2 DEF Next, WriteStep
      <4>2. QED
        BY <2>1, <4>1 DEF Lost
    <3>3. QED
      BY <3>1, <3>2
  <2>3. Cardinality(Lost') <= Cardinality(Lost) /\ IsFiniteSet(Lost')
    BY <1>1, <2>2, FS_Subset
  <2>4. Cardinality(Lost') \in Nat
    BY <2>3, FS_CardinalityType
  <2>5. (Pending' <= Pending /\ Allowance <= Allowance') \/ Allowance + 1 <= Allowance'
    BY <1>5, PendingChanges, AllowanceGrows
  <2>6. QED
    BY <1>1, <1>2, <2>3, <2>4, <2>5 DEF LossInv
<1>6. QED
  BY <1>3, <1>4, <1>5

LEMMA LossInvariant == Spec => [](OrderInv /\ LossInv)
<1>1. Init => LossInv
  <2> SUFFICES ASSUME Init PROVE LossInv
    OBVIOUS
  <2>1. Lost = {} /\ Pending = 0
    BY DEF Init, Lost, Pending, Torn, Spoiled
  <2>2. Allowance = 0
    BY ShortCount DEF Init, Allowance
  <2>3. QED
    BY <2>1, <2>2, FS_EmptySet DEF LossInv
<1>2. QED
  BY <1>1, OrderInvariant, LossStep, PTL DEF Spec

(* An event for which Write has returned nil stays readable in the log or in  *)
(* an archive, through failed and interrupted rotations, but for the one line *)
(* a cut line may spoil and what a power loss may take.                       *)
THEOREM AcknowledgedStay == Spec => []AcknowledgedEventsStay
<1>1. OrderInv /\ LossInv => AcknowledgedEventsStay
  <2> SUFFICES ASSUME OrderInv, LossInv PROVE AcknowledgedEventsStay
    OBVIOUS
  <2>1. acked \subseteq 1..next /\ next \in Nat
    BY EventTypes DEF OrderInv, TypeOK
  <2>2. IsFiniteSet(1..next)
    BY <2>1, FS_Interval
  <2>3. IsFiniteSet(Lost)
    BY <2>1, <2>2, FS_Subset DEF Lost
  <2>4. Cardinality(Lost) \in Nat /\ Pending \in 0..1
    BY <2>3, FS_CardinalityType DEF Pending
  <2>5. Allowance \in Nat
    <3>1. Allowance = (IF "short" \in faults THEN 1 ELSE 0) + (IF "power" \in faults THEN MaxBytes + 1 ELSE 0)
      BY ShortCount DEF Allowance
    <3>2. QED
      BY <3>1, AuditAssumption
  <2>6. Cardinality(Lost) <= Allowance
    BY <2>4, <2>5 DEF LossInv
  <2>7. QED
    BY <2>6 DEF AcknowledgedEventsStay, Lost, Readable
<1>2. QED
  BY <1>1, LossInvariant, PTL
=============================================================================
