---------------------------- MODULE SessionManager ----------------------------
(***************************************************************************)
(* Persistent PowerShell sessions, internal/powershell/session.go, with    *)
(* the part of their HTTP handlers that turns results into answers         *)
(* (internal/server/server.go).                                            *)
(*                                                                         *)
(* A session owns one shell at a time; a restart gives it the next one.    *)
(* Exec holds the session's execMu from the capture of the shell to the    *)
(* deferred bookkeeping, but takes stateMu only for single accesses, and   *)
(* Abort takes no execMu at all: it closes the session under a running     *)
(* command.  Delete, KillAll and the reaper first take the session out of  *)
(* the manager's map and abort it afterwards, outside m.mu.                *)
(*                                                                         *)
(* Abstractions: a shell is the pair of its session and a generation       *)
(* number; commands and frames are reduced to whether a frame arrived; the *)
(* clock is the age since the last use, saturating just above the idle     *)
(* timeout; MaxGen bounds the restarts of one session.                     *)
(***************************************************************************)
EXTENDS Naturals, FiniteSets

CONSTANTS
    Sessions,     \* the ids randomID may return
    Calls,        \* requests to /session/{id}/exec and /restart
    MaxSessions,  \* max_sessions
    IdleTimeout,  \* session_idle_timeout, in ticks
    MaxGen,       \* bound on the shells one session is given
    NoCall        \* execMu is free

ASSUME MaxSessionsAssumption == MaxSessions \in Nat \ {0}
ASSUME IdleTimeoutAssumption == IdleTimeout \in Nat
ASSUME MaxGenAssumption == MaxGen \in Nat \ {0}
ASSUME NoCallAssumption == NoCall \notin Calls

VARIABLES
    table,      \* the keys of m.sessions
    stopped,    \* stopReaper is closed
    collected,  \* ids the reaper has collected and not deleted yet
    aborting,   \* sessions taken out of the map and not aborted yet
    gen,        \* shells started for the session so far; 0 before Create
    current,    \* s.process, as a generation; 0 for nil
    closed,     \* sessions with s.closed set
    busy,       \* sessions with s.busy set
    idle,       \* time since s.lastUsed
    execMu,     \* holder of s.execMu
    alive,      \* shells that run
    killed,     \* shells on which kill() has run
    killing,    \* shells Abort has taken over and not killed yet
    pc, target, op, shell, reader, verdict, response,  \* each call's state
    done        \* calls whose context is done

manager == <<table, stopped, collected, aborting>>
session == <<gen, current, closed, busy, idle, execMu>>
shells  == <<alive, killed, killing>>
callers == <<pc, target, op, shell, reader, verdict, response>>
vars    == <<manager, session, shells, callers, done>>

Own(c) == <<target[c], shell[c]>>

InExec == {c \in Calls : pc[c] \in {"writing", "selecting", "reaping", "restarting", "leaving"}}

(* The HTTP status of each result of Session.Exec. *)
StatusOf(result) ==
    CASE result = "ok"        -> "200"
      [] result = "timeout"   -> "504"
      [] result = "exited"    -> "409"
      [] result = "not_found" -> "500"

-----------------------------------------------------------------------------
Init ==
    /\ table = {}
    /\ stopped = FALSE
    /\ collected = {}
    /\ aborting = {}
    /\ gen = [s \in Sessions |-> 0]
    /\ current = [s \in Sessions |-> 0]
    /\ closed = {}
    /\ busy = {}
    /\ idle = [s \in Sessions |-> 0]
    /\ execMu = [s \in Sessions |-> NoCall]
    /\ alive = {}
    /\ killed = {}
    /\ killing = {}
    /\ pc = [c \in Calls |-> "idle"]
    /\ target \in [Calls -> Sessions]
    /\ op \in [Calls -> {"exec", "restart"}]
    /\ shell = [c \in Calls |-> 0]
    /\ reader = [c \in Calls |-> "off"]
    /\ verdict = [c \in Calls |-> "none"]
    /\ response = [c \in Calls |-> "none"]
    /\ done = {}

Goto(c, label) == pc' = [pc EXCEPT ![c] = label]

Touch(s) == idle' = [idle EXCEPT ![s] = 0]

Respond(c, status) == Goto(c, "returned") /\ response' = [response EXCEPT ![c] = status]

(* Create, under m.mu.  At the limit, or when the shell does not start, *)
(* nothing changes.                                                     *)
Create(s) ==
    /\ gen[s] = 0
    /\ Cardinality(table) < MaxSessions
    /\ table' = table \cup {s}
    /\ gen' = [gen EXCEPT ![s] = 1]
    /\ current' = [current EXCEPT ![s] = 1]
    /\ Touch(s)
    /\ alive' = alive \cup {<<s, 1>>}
    /\ UNCHANGED <<stopped, collected, aborting, closed, busy, execMu, killed, killing,
                   callers, done>>

(* The handlers look the session up first. *)
Request(c) ==
    /\ pc[c] = "idle"
    /\ IF target[c] \in table THEN Goto(c, "queued") /\ UNCHANGED response
                              ELSE Respond(c, "404")
    /\ UNCHANGED <<manager, session, shells, target, op, shell, reader, verdict, done>>

(* Mutant: Exec without execMu. *)
MExecFree(s) == TRUE

ExecFree(s) == execMu[s] = NoCall

(* Exec gets execMu, checks the session and captures its shell. *)
BeginExec(c) ==
    LET s == target[c] IN
    /\ pc[c] = "queued" /\ op[c] = "exec"
    /\ ExecFree(s)
    /\ IF s \in closed \/ current[s] = 0
       THEN /\ Respond(c, StatusOf("not_found"))
            /\ UNCHANGED <<shell, busy, idle, execMu>>
       ELSE /\ Goto(c, "writing")
            /\ shell' = [shell EXCEPT ![c] = current[s]]
            /\ busy' = busy \cup {s}
            /\ Touch(s)
            /\ execMu' = [execMu EXCEPT ![s] = c]
            /\ UNCHANGED response
    /\ UNCHANGED <<manager, gen, current, closed, shells, target, op, reader, verdict,
                   done>>

(* io.WriteString succeeds unless kill() has closed stdin. *)
WriteCommand(c) ==
    /\ pc[c] = "writing"
    /\ Own(c) \notin killed
    /\ Goto(c, "selecting")
    /\ reader' = [reader EXCEPT ![c] = "reading"]
    /\ UNCHANGED <<manager, session, shells, target, op, shell, verdict, response, done>>

WriteFails(c) ==
    /\ pc[c] = "writing"
    /\ Goto(c, "restarting")
    /\ verdict' = [verdict EXCEPT ![c] = "exited"]
    /\ UNCHANGED <<manager, session, shells, target, op, shell, reader, response, done>>

(* readFrame returns: a frame, or a malformed one or the end of the output. *)
ReadFrame(c) ==
    /\ reader[c] = "reading"
    /\ \E r \in {"ok", "err"} : reader' = [reader EXCEPT ![c] = r]
    /\ UNCHANGED <<manager, session, shells, pc, target, op, shell, verdict, response,
                   done>>

(* ctx.Done(), or a broken frame: kill the shell and reap it. *)
SelectKill(c, result) ==
    /\ pc[c] = "selecting"
    /\ result = "timeout" => c \in done
    /\ result = "exited" => reader[c] = "err"
    /\ Goto(c, "reaping")
    /\ verdict' = [verdict EXCEPT ![c] = result]
    /\ killed' = killed \cup {Own(c)}
    /\ UNCHANGED <<manager, session, alive, killing, target, op, shell, reader, response,
                   done>>

SelectFrame(c) ==
    /\ pc[c] = "selecting"
    /\ reader[c] = "ok"
    /\ Goto(c, "leaving")
    /\ verdict' = [verdict EXCEPT ![c] = "ok"]
    /\ UNCHANGED <<manager, session, shells, target, op, shell, reader, response, done>>

(* Mutant: a killed shell is not replaced. *)
MAfterReap == "leaving"

AfterReap == "restarting"

(* <-p.waitDone. *)
Reap(c) ==
    /\ pc[c] = "reaping"
    /\ Own(c) \notin alive
    /\ Goto(c, AfterReap)
    /\ UNCHANGED <<manager, session, shells, target, op, shell, reader, verdict,
                   response, done>>

(* Mutant: a closed session is restarted. *)
MMayRestart(s) == TRUE

MayRestart(s) == s \notin closed

(* The session's shell, if it has one. *)
Shell(s) == IF current[s] = 0 THEN {} ELSE {<<s, current[s]>>}

(* restartLocked, under stateMu: the old shell is killed and, if it can be *)
(* started, a new one takes its place.                                     *)
RestartLocked(s, started) ==
    \/ /\ MayRestart(s)
       /\ killed' = killed \cup Shell(s)
       /\ IF started
          THEN /\ gen[s] < MaxGen
               /\ gen' = [gen EXCEPT ![s] = @ + 1]
               /\ current' = [current EXCEPT ![s] = gen[s] + 1]
               /\ alive' = alive \cup {<<s, gen[s] + 1>>}
               /\ Touch(s)
          ELSE /\ current' = [current EXCEPT ![s] = 0]
               /\ UNCHANGED <<gen, alive, idle>>
    \/ /\ ~MayRestart(s)
       /\ ~started
       /\ UNCHANGED <<killed, gen, current, alive, idle>>

(* Exec's own restart, after a timeout, a broken frame or a failed write. *)
RestartInExec(c) ==
    /\ pc[c] = "restarting"
    /\ Goto(c, "leaving")
    /\ \E started \in BOOLEAN : RestartLocked(target[c], started)
    /\ UNCHANGED <<manager, closed, busy, execMu, killing, target, op, shell, reader,
                   verdict, response, done>>

(* Mutant: busy is not reset. *)
MLeave(c) ==
    LET s == target[c] IN
    /\ pc[c] = "leaving"
    /\ Touch(s)
    /\ execMu' = [execMu EXCEPT ![s] = NoCall]
    /\ Respond(c, StatusOf(verdict[c]))
    /\ UNCHANGED <<manager, gen, current, closed, busy, shells, target, op, shell,
                   reader, verdict, done>>

(* Exec's deferred calls, and the handler's answer. *)
Leave(c) ==
    LET s == target[c] IN
    /\ pc[c] = "leaving"
    /\ busy' = busy \ {s}
    /\ Touch(s)
    /\ execMu' = [execMu EXCEPT ![s] = NoCall]
    /\ Respond(c, StatusOf(verdict[c]))
    /\ UNCHANGED <<manager, gen, current, closed, shells, target, op, shell, reader,
                   verdict, done>>

(* Restart holds execMu around restartLocked only. *)
Restart(c) ==
    /\ pc[c] = "queued" /\ op[c] = "restart"
    /\ ExecFree(target[c])
    /\ \E started \in BOOLEAN :
          /\ RestartLocked(target[c], started)
          /\ Respond(c, IF started THEN "200" ELSE "500")
    /\ UNCHANGED <<manager, closed, busy, execMu, killing, target, op, shell, reader,
                   verdict, done>>

-----------------------------------------------------------------------------
(* Delete, its critical section. *)
Delete(s) ==
    /\ s \in table
    /\ table' = table \ {s}
    /\ aborting' = aborting \cup {s}
    /\ UNCHANGED <<stopped, collected, session, shells, callers, done>>

(* KillAll, its critical section; Close stops the reaper first. *)
KillAll(stop) ==
    /\ stopped' = (stopped \/ stop)
    /\ table' = {}
    /\ aborting' = aborting \cup table
    /\ UNCHANGED <<collected, session, shells, callers, done>>

(* Abort, under stateMu: the session gives its shell up. *)
Abort(s) ==
    /\ s \in aborting
    /\ aborting' = aborting \ {s}
    /\ closed' = closed \cup {s}
    /\ killing' = killing \cup Shell(s)
    /\ current' = [current EXCEPT ![s] = 0]
    /\ UNCHANGED <<table, stopped, collected, gen, busy, idle, execMu, alive, killed,
                   callers, done>>

(* Mutant: Abort waits for execMu before it kills. *)
MKillShell(p) ==
    /\ p \in killing
    /\ execMu[p[1]] = NoCall
    /\ killing' = killing \ {p}
    /\ killed' = killed \cup {p}
    /\ UNCHANGED <<manager, session, alive, callers, done>>

(* p.kill() at the end of Abort, outside the lock. *)
KillShell(p) ==
    /\ p \in killing
    /\ killing' = killing \ {p}
    /\ killed' = killed \cup {p}
    /\ UNCHANGED <<manager, session, alive, callers, done>>

(* IdleFor(now) > idleTimeout. *)
IdleTooLong(s) == s \notin busy /\ idle[s] > IdleTimeout

(* A tick of the reaper: it collects under the read lock ... *)
ReaperCollect ==
    /\ ~stopped
    /\ collected = {}
    /\ collected' = {s \in table : IdleTooLong(s)}
    /\ UNCHANGED <<table, stopped, aborting, session, shells, callers, done>>

(* ... and deletes afterwards what is still in the map. *)
ReaperDelete(s) ==
    /\ s \in collected
    /\ collected' = collected \ {s}
    /\ table' = table \ {s}
    /\ aborting' = aborting \cup ({s} \cap table)
    /\ UNCHANGED <<stopped, session, shells, callers, done>>

-----------------------------------------------------------------------------
(* The environment. *)
ShellDies(p) ==
    /\ p \in alive
    /\ alive' = alive \ {p}
    /\ UNCHANGED <<manager, session, killed, killing, callers, done>>

ContextDone(c) ==
    /\ pc[c] # "returned"
    /\ c \notin done
    /\ done' = done \cup {c}
    /\ UNCHANGED <<manager, session, shells, callers>>

Tick ==
    /\ idle' = [s \in Sessions |-> IF s \in table /\ idle[s] <= IdleTimeout
                                   THEN idle[s] + 1 ELSE idle[s]]
    /\ UNCHANGED <<manager, gen, current, closed, busy, execMu, shells, callers, done>>

CallStep(c) ==
    \/ BeginExec(c) \/ WriteCommand(c) \/ WriteFails(c)
    \/ SelectKill(c, "timeout") \/ SelectKill(c, "exited") \/ SelectFrame(c)
    \/ Reap(c) \/ RestartInExec(c) \/ Leave(c) \/ Restart(c)

Shells == Sessions \X (1..MaxGen)

Next ==
    \/ \E c \in Calls : Request(c) \/ CallStep(c) \/ ReadFrame(c) \/ ContextDone(c)
    \/ \E s \in Sessions : Create(s) \/ Delete(s) \/ Abort(s) \/ ReaperDelete(s)
    \/ \E stop \in BOOLEAN : KillAll(stop)
    \/ \E p \in Shells : KillShell(p) \/ ShellDies(p)
    \/ ReaperCollect
    \/ Tick

Spec == Init /\ [][Next]_vars

(* Goroutines run, a killed shell dies and its reader notices, and shells   *)
(* drain their stdin.  Commands need not end.                               *)
GoroutinesRun ==
    /\ \A c \in Calls : /\ WF_vars(CallStep(c))
                        /\ WF_vars(Own(c) \in killed \ alive /\ ReadFrame(c))
    /\ \A s \in Sessions : WF_vars(Abort(s)) /\ WF_vars(ReaperDelete(s))
    /\ \A p \in Shells : WF_vars(KillShell(p)) /\ WF_vars(p \in killed /\ ShellDies(p))

AbortSpec == Spec /\ GoroutinesRun

(* Time passes as well: contexts expire, ages grow, the reaper ticks. *)
TimePasses ==
    /\ WF_vars(ReaperCollect)
    /\ WF_vars(Tick)
    /\ \A c \in Calls : WF_vars(ContextDone(c))

-----------------------------------------------------------------------------
(* Types. *)
TypeOK ==
    /\ table \subseteq Sessions
    /\ stopped \in BOOLEAN
    /\ collected \subseteq Sessions
    /\ aborting \subseteq Sessions
    /\ gen \in [Sessions -> 0..MaxGen]
    /\ current \in [Sessions -> 0..MaxGen]
    /\ closed \subseteq Sessions
    /\ busy \subseteq Sessions
    /\ idle \in [Sessions -> 0..IdleTimeout + 1]
    /\ execMu \in [Sessions -> Calls \cup {NoCall}]
    /\ alive \subseteq Shells
    /\ killed \subseteq Shells
    /\ killing \subseteq Shells
    /\ pc \in [Calls -> {"idle", "queued", "writing", "selecting", "reaping",
                         "restarting", "leaving", "returned"}]
    /\ target \in [Calls -> Sessions]
    /\ op \in [Calls -> {"exec", "restart"}]
    /\ shell \in [Calls -> 0..MaxGen]
    /\ reader \in [Calls -> {"off", "reading", "ok", "err"}]
    /\ verdict \in [Calls -> {"none", "ok", "timeout", "exited"}]
    /\ response \in [Calls -> {"none", "200", "404", "409", "500", "504"}]
    /\ done \subseteq Calls

(* No shell is ever orphaned: one that runs and was not killed is the current *)
(* shell of a session that is in the map, or about to be aborted, or it is in *)
(* the hands of the Abort that will kill it.  In particular a timeout's       *)
(* restart that races a Delete never leaves a new shell behind.               *)
EveryShellIsOwned ==
    \A p \in alive \ killed :
        \/ p \in killing
        \/ /\ p \in Shell(p[1])
           /\ p[1] \notin closed
           /\ p[1] \in table \cup aborting

(* Calls for one session are serialized: a shell never has two commands in   *)
(* its pipes at a time.                                                      *)
CallsAreSerialized ==
    \A c, d \in InExec : target[c] = target[d] => c = d

(* A call is never given a shell that the agent has killed before, unless the *)
(* session itself was closed meanwhile: what a timeout or a broken frame left *)
(* is replaced before the next call gets the session.                         *)
NoCallOnAKilledShell ==
    \A c \in Calls : pc[c] = "writing" /\ Own(c) \in killed => target[c] \in closed

(* Closing a session releases the call that is using it, even if its command *)
(* never ends and its context never expires.                                 *)
AbortReleasesCaller ==
    \A c \in Calls : (c \in InExec /\ target[c] \in closed) ~> (pc[c] = "returned")

(* Sessions that are no longer used are closed in the end, if time passes,    *)
(* whatever their last calls did, unless the reaper was stopped.             *)
IdleSessionsAreReaped ==
    TimePasses => \A s \in Sessions : (s \in table) ~> (s \in closed \/ stopped)
=============================================================================
