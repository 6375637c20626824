------------------------- MODULE SessionManagerProofs -------------------------
(***************************************************************************)
(* Proofs about SessionManager, for any sessions, calls and bounds.        *)
(*                                                                         *)
(* That no shell is orphaned and that no call starts on a killed shell     *)
(* both rest on who may touch s.process: only the holder of execMu, or     *)
(* Abort, which closes the session for good.  CallInv says what the holder *)
(* knows of the shell it captured while the session stays open, SessionInv *)
(* what the next holder will find, ShellInv where a running shell is.      *)
(***************************************************************************)
EXTENDS SessionManager, TLAPS

(* A session exists from Create on; it is listed or being aborted until it *)
(* is closed, and then it has no shell.  When nobody holds execMu its      *)
(* shell is one the agent has not killed.                                  *)
SessionInv(s) ==
    /\ gen[s] = 0 <=> s \notin table \cup aborting \cup closed
    /\ s \in table => s \notin aborting
    /\ s \in closed => s \notin table \cup aborting
    /\ s \in closed \/ gen[s] = 0 => current[s] = 0
    /\ current[s] <= gen[s]
    /\ execMu[s] = NoCall /\ current[s] # 0 => <<s, current[s]>> \notin killed

(* Shells are numbered from 1 to gen[s]; a running one that was not killed *)
(* is the current one or in the hands of Abort.                            *)
ShellInv(s, g) ==
    /\ <<s, g>> \in alive \cup killed \cup killing => g <= gen[s]
    /\ <<s, g>> \in killing => s \in closed
    /\ <<s, g>> \in alive \ killed => <<s, g>> \in killing \/ current[s] = g

(* What a call inside Exec knows while its session is open. *)
CallInv(c) ==
    /\ pc[c] \notin {"idle", "returned"} => gen[target[c]] # 0
    /\ c \in InExec =>
          /\ execMu[target[c]] = c
          /\ shell[c] # 0
          /\ shell[c] <= gen[target[c]]
    /\ pc[c] \in {"reaping", "restarting", "leaving"} => verdict[c] # "none"
    /\ pc[c] \in {"writing", "selecting", "reaping", "restarting"} /\ target[c] \notin closed =>
          shell[c] = current[target[c]]
    /\ pc[c] \in {"writing", "selecting"} /\ target[c] \notin closed => Own(c) \notin killed
    /\ pc[c] = "leaving" /\ current[target[c]] # 0 =>
          <<target[c], current[target[c]]>> \notin killed

(* The inductive invariant. *)
IndInv ==
    /\ TypeOK
    /\ \A s \in Sessions : SessionInv(s)
    /\ \A s \in Sessions, g \in 1..MaxGen : ShellInv(s, g)
    /\ \A c \in Calls : CallInv(c)

LEMMA InitIndInv == Init => IndInv
<1>1. SUFFICES ASSUME Init PROVE IndInv
  OBVIOUS
<1>2. stopped \in BOOLEAN
  BY <1>1, Zenon DEF Init
<1>3. TypeOK
  BY <1>1, <1>2, MaxGenAssumption, IdleTimeoutAssumption DEF Init, TypeOK
<1>4. QED
  BY <1>1, <1>3 DEF Init, IndInv, SessionInv, ShellInv, CallInv, InExec

(* The statuses a call can be answered with. *)
Statuses == {"none", "200", "404", "409", "500", "504"}

LEMMA StatusType ==
    ASSUME NEW r \in {"ok", "timeout", "exited", "not_found"} PROVE StatusOf(r) \in Statuses
BY DEF StatusOf, Statuses

(* A session's shell belongs to it alone. *)
LEMMA ShellMember ==
    ASSUME NEW s, NEW t, NEW g
    PROVE  <<s, g>> \in Shell(t) <=> s = t /\ g = current[t] /\ g # 0
BY DEF Shell

(* A restart of one session leaves the others alone. *)
LEMMA RestartFrame ==
    ASSUME TypeOK, NEW s \in Sessions, NEW t \in Sessions, s # t, NEW b \in BOOLEAN, RestartLocked(t, b)
    PROVE  /\ gen'[s] = gen[s] /\ current'[s] = current[s]
           /\ \A h \in 1..MaxGen : (<<s, h>> \in killed' <=> <<s, h>> \in killed)
           /\ \A h \in 1..MaxGen : (<<s, h>> \in alive' <=> <<s, h>> \in alive)
<1>1. gen'[s] = gen[s] /\ current'[s] = current[s]
  BY DEF RestartLocked, TypeOK
<1>2. ASSUME NEW h \in 1..MaxGen PROVE <<s, h>> \in killed' <=> <<s, h>> \in killed
  BY ShellMember DEF RestartLocked
<1>3. ASSUME NEW h \in 1..MaxGen PROVE <<s, h>> \in alive' <=> <<s, h>> \in alive
  BY DEF RestartLocked
<1>4. QED
  BY <1>1, <1>2, <1>3

(* Types are preserved by every step. *)
LEMMA NextTypeOK == IndInv /\ [Next]_vars => TypeOK'
<1>0. SUFFICES ASSUME IndInv, [Next]_vars PROVE TypeOK'
  OBVIOUS
<1>1. TypeOK /\ [Next]_vars
  BY <1>0 DEF IndInv
<1> USE MaxGenAssumption, IdleTimeoutAssumption, NoCallAssumption
<1> USE DEF vars, manager, session, shells, callers, Goto, Touch, Respond
<1>2. ASSUME NEW k \in Calls, Request(k) PROVE TypeOK'
  <2>1. CASE target[k] \in table
    BY <1>1, <1>2, <2>1 DEF Request, TypeOK
  <2>2. CASE ~(target[k] \in table)
    BY <1>1, <1>2, <2>2 DEF Request, TypeOK
  <2>3. QED
    BY <2>1, <2>2
<1>3. ASSUME NEW k \in Calls, BeginExec(k) PROVE TypeOK'
  <2>1. StatusOf("not_found") \in Statuses
    BY StatusType
  <2>2. CASE target[k] \in closed \/ current[target[k]] = 0
    BY <1>1, <1>3, <2>1, <2>2 DEF BeginExec, Statuses, TypeOK
  <2>3. CASE ~(target[k] \in closed \/ current[target[k]] = 0)
    BY <1>1, <1>3, <2>1, <2>3 DEF BeginExec, Statuses, TypeOK
  <2>4. QED
    BY <2>2, <2>3
<1>4. ASSUME NEW k \in Calls, WriteCommand(k) PROVE TypeOK'
  BY <1>1, <1>4 DEF WriteCommand, TypeOK, Shells
<1>5. ASSUME NEW k \in Calls, WriteFails(k) PROVE TypeOK'
  BY <1>1, <1>5 DEF WriteFails, TypeOK, Shells
<1>6. ASSUME NEW k \in Calls, ReadFrame(k) PROVE TypeOK'
  BY <1>1, <1>6 DEF ReadFrame, TypeOK, Shells
<1>7. ASSUME NEW k \in Calls, NEW r \in {"timeout", "exited"}, SelectKill(k, r) PROVE TypeOK'
  <2>1. CallInv(k) /\ k \in InExec
    BY <1>0, <1>7 DEF SelectKill, IndInv, InExec
  <2>2. shell[k] \in 1..MaxGen /\ target[k] \in Sessions
    BY <1>1, <2>1 DEF CallInv, TypeOK
  <2>3. Own(k) \in Shells
    BY <2>2 DEF Own, Shells
  <2>4. QED
    BY <1>1, <1>7, <2>1, <2>2, <2>3 DEF SelectKill, TypeOK
<1>8. ASSUME NEW k \in Calls, SelectFrame(k) PROVE TypeOK'
  BY <1>1, <1>8 DEF SelectFrame, TypeOK, Shells
<1>9. ASSUME NEW k \in Calls, Reap(k) PROVE TypeOK'
  BY <1>1, <1>9 DEF Reap, AfterReap, TypeOK, Shells
<1>10. ASSUME NEW k \in Calls, RestartInExec(k) PROVE TypeOK'
  <2>1. PICK b \in BOOLEAN : RestartLocked(target[k], b)
    BY <1>10 DEF RestartInExec
  <2>2. CASE target[k] \notin closed /\ b
    BY <1>1, <1>10, <2>1, <2>2 DEF RestartInExec, RestartLocked, MayRestart, Shell, TypeOK, Shells
  <2>3. CASE target[k] \notin closed /\ ~b
    BY <1>1, <1>10, <2>1, <2>3 DEF RestartInExec, RestartLocked, MayRestart, Shell, TypeOK, Shells
  <2>4. CASE target[k] \in closed
    BY <1>1, <1>10, <2>1, <2>4 DEF RestartInExec, RestartLocked, MayRestart, Shell, TypeOK, Shells
  <2>5. QED
    BY <2>2, <2>3, <2>4
<1>11. ASSUME NEW k \in Calls, Leave(k) PROVE TypeOK'
  <2>1. verdict[k] \in {"ok", "timeout", "exited"}
    BY <1>0, <1>1, <1>11 DEF Leave, IndInv, CallInv, TypeOK
  <2>2. StatusOf(verdict[k]) \in Statuses
    BY <2>1, StatusType
  <2>3. QED
    BY <1>1, <1>11, <2>1, <2>2 DEF Leave, Statuses, TypeOK
<1>12. ASSUME NEW k \in Calls, Restart(k) PROVE TypeOK'
  <2>1. PICK b \in BOOLEAN : RestartLocked(target[k], b) /\ Respond(k, IF b THEN "200" ELSE "500")
    BY <1>12 DEF Restart
  <2>2. CASE target[k] \notin closed /\ b
    BY <1>1, <1>12, <2>1, <2>2 DEF Restart, RestartLocked, MayRestart, Shell, TypeOK, Shells
  <2>3. CASE target[k] \notin closed /\ ~b
    BY <1>1, <1>12, <2>1, <2>3 DEF Restart, RestartLocked, MayRestart, Shell, TypeOK, Shells
  <2>4. CASE target[k] \in closed
    BY <1>1, <1>12, <2>1, <2>4 DEF Restart, RestartLocked, MayRestart, Shell, TypeOK, Shells
  <2>5. QED
    BY <2>2, <2>3, <2>4
<1>13. ASSUME NEW k \in Calls, ContextDone(k) PROVE TypeOK'
  BY <1>1, <1>13 DEF ContextDone, TypeOK, Shells
<1>14. ASSUME NEW t \in Sessions, Create(t) PROVE TypeOK'
  BY <1>1, <1>14 DEF Create, TypeOK, Shells
<1>15. ASSUME NEW t \in Sessions, Delete(t) PROVE TypeOK'
  BY <1>1, <1>15 DEF Delete, TypeOK, Shells
<1>16. ASSUME NEW t \in Sessions, Abort(t) PROVE TypeOK'
  BY <1>1, <1>16 DEF Abort, Shell, TypeOK, Shells
<1>17. ASSUME NEW t \in Sessions, ReaperDelete(t) PROVE TypeOK'
  BY <1>1, <1>17 DEF ReaperDelete, TypeOK, Shells
<1>18. ASSUME NEW stop \in BOOLEAN, KillAll(stop) PROVE TypeOK'
  BY <1>1, <1>18 DEF KillAll, TypeOK, Shells
<1>19. ASSUME NEW p \in Shells, KillShell(p) PROVE TypeOK'
  BY <1>1, <1>19 DEF KillShell, TypeOK, Shells
<1>20. ASSUME NEW p \in Shells, ShellDies(p) PROVE TypeOK'
  BY <1>1, <1>20 DEF ShellDies, TypeOK, Shells
<1>21. CASE ReaperCollect
  BY <1>1, <1>21 DEF ReaperCollect, TypeOK, Shells
<1>22. CASE Tick
  BY <1>1, <1>22 DEF Tick, TypeOK, Shells
<1>23. CASE UNCHANGED vars
  BY <1>1, <1>23 DEF TypeOK, Shells
<1>24. QED
  BY <1>1, <1>2, <1>3, <1>4, <1>5, <1>6, <1>7, <1>8, <1>9, <1>10, <1>11, <1>12, <1>13, <1>14,
     <1>15, <1>16, <1>17, <1>18, <1>19, <1>20, <1>21, <1>22, <1>23 DEF Next, CallStep

(* Every session keeps its story. *)
LEMMA NextSessionInv ==
    ASSUME IndInv, TypeOK', [Next]_vars, NEW s \in Sessions
    PROVE  SessionInv(s)'
<1>0. TypeOK /\ TypeOK'
  BY DEF IndInv
<1>1. IndInv /\ TypeOK' /\ [Next]_vars
  OBVIOUS
<1> USE MaxGenAssumption, NoCallAssumption
<1> USE DEF vars, manager, session, shells, callers, Goto, Touch, Respond
<1>2. ASSUME NEW k \in Calls, Request(k) PROVE SessionInv(s)'
  <2>1. SessionInv(s) /\ SessionInv(target[k]) /\ CallInv(k)
    BY <1>1 DEF IndInv, TypeOK
  <2>2. \A h \in 1..MaxGen : ShellInv(target[k], h)
    BY <1>1 DEF IndInv, TypeOK
  <2>3. CASE target[k] \in table
    BY <1>0, <1>2, <2>1, <2>2, <2>3 DEF Request, TypeOK, SessionInv, ShellInv, CallInv, InExec,
       Own, Shells
  <2>4. CASE ~(target[k] \in table)
    BY <1>0, <1>2, <2>1, <2>2, <2>4 DEF Request, TypeOK, SessionInv, ShellInv, CallInv, InExec,
       Own, Shells
  <2>5. QED
    BY <2>3, <2>4
<1>3. ASSUME NEW k \in Calls, BeginExec(k) PROVE SessionInv(s)'
  BY <1>1, <1>3 DEF BeginExec, ExecFree, IndInv, TypeOK, SessionInv, ShellInv, CallInv, InExec,
     Own, Shells
<1>4. ASSUME NEW k \in Calls, WriteCommand(k) PROVE SessionInv(s)'
  BY <1>1, <1>4 DEF WriteCommand, IndInv, TypeOK, SessionInv, ShellInv, CallInv, InExec, Own,
     Shells
<1>5. ASSUME NEW k \in Calls, WriteFails(k) PROVE SessionInv(s)'
  BY <1>1, <1>5 DEF WriteFails, IndInv, TypeOK, SessionInv, ShellInv, CallInv, InExec, Own, Shells
<1>6. ASSUME NEW k \in Calls, ReadFrame(k) PROVE SessionInv(s)'
  BY <1>1, <1>6 DEF ReadFrame, IndInv, TypeOK, SessionInv, ShellInv, CallInv, InExec, Own, Shells
<1>7. ASSUME NEW k \in Calls, NEW r \in {"timeout", "exited"}, SelectKill(k, r) PROVE SessionInv(s)'
  <2>1. SessionInv(s) /\ SessionInv(target[k]) /\ CallInv(k)
    BY <1>1 DEF IndInv, TypeOK
  <2>2. \A h \in 1..MaxGen : ShellInv(target[k], h)
    BY <1>1 DEF IndInv, TypeOK
  <2>3. CASE s = target[k]
    BY <1>0, <1>7, <2>1, <2>2, <2>3 DEF SelectKill, TypeOK, SessionInv, ShellInv, CallInv,
       InExec, Own, Shells
  <2>4. CASE ~(s = target[k])
    BY <1>0, <1>7, <2>1, <2>2, <2>4 DEF SelectKill, TypeOK, SessionInv, ShellInv, CallInv,
       InExec, Own, Shells
  <2>5. QED
    BY <2>3, <2>4
<1>8. ASSUME NEW k \in Calls, SelectFrame(k) PROVE SessionInv(s)'
  BY <1>1, <1>8 DEF SelectFrame, IndInv, TypeOK, SessionInv, ShellInv, CallInv, InExec, Own,
     Shells
<1>9. ASSUME NEW k \in Calls, Reap(k) PROVE SessionInv(s)'
  BY <1>1, <1>9 DEF Reap, AfterReap, IndInv, TypeOK, SessionInv, ShellInv, CallInv, InExec, Own,
     Shells
<1>10. ASSUME NEW k \in Calls, RestartInExec(k) PROVE SessionInv(s)'
  <2>1. SessionInv(s) /\ SessionInv(target[k]) /\ CallInv(k)
    BY <1>1 DEF IndInv, TypeOK
  <2>2. \A h \in 1..MaxGen : ShellInv(target[k], h)
    BY <1>1 DEF IndInv, TypeOK
  <2>3. PICK b \in BOOLEAN : RestartLocked(target[k], b)
    BY <1>10 DEF RestartInExec
  <2>4. CASE s = target[k] /\ target[k] \notin closed /\ b
    BY <1>0, <1>10, <2>1, <2>2, <2>3, <2>4, ShellMember DEF RestartInExec, RestartLocked,
       MayRestart, SessionInv, ShellInv, CallInv, InExec, Own, Shells, TypeOK
  <2>5. CASE s = target[k] /\ target[k] \notin closed /\ ~b
    BY <1>0, <1>10, <2>1, <2>2, <2>3, <2>5, ShellMember DEF RestartInExec, RestartLocked,
       MayRestart, SessionInv, ShellInv, CallInv, InExec, Own, Shells, TypeOK
  <2>6. CASE s = target[k] /\ target[k] \in closed
    BY <1>0, <1>10, <2>1, <2>2, <2>3, <2>6 DEF RestartInExec, RestartLocked, MayRestart,
       SessionInv, ShellInv, CallInv, InExec, Own, Shells, TypeOK
  <2>7. CASE s # target[k]
    <3>1. target[k] \in Sessions /\ s \in Sessions
      BY <1>0 DEF TypeOK
    <3>2. /\ gen'[s] = gen[s] /\ current'[s] = current[s]
          /\ \A h \in 1..MaxGen : (<<s, h>> \in killed' <=> <<s, h>> \in killed)
          /\ \A h \in 1..MaxGen : (<<s, h>> \in alive' <=> <<s, h>> \in alive)
      BY <1>0, <2>3, <2>7, <3>1, RestartFrame
    <3>3. QED
      BY <1>0, <1>10, <2>1, <2>7, <3>1, <3>2 DEF RestartInExec, SessionInv, ShellInv, CallInv,
         InExec, Own, Shells, TypeOK
  <2>8. QED
    BY <2>4, <2>5, <2>6, <2>7
<1>11. ASSUME NEW k \in Calls, Leave(k) PROVE SessionInv(s)'
  <2>1. SessionInv(s) /\ SessionInv(target[k]) /\ CallInv(k)
    BY <1>1 DEF IndInv, TypeOK
  <2>2. \A h \in 1..MaxGen : ShellInv(target[k], h)
    BY <1>1 DEF IndInv, TypeOK
  <2>3. CASE s = target[k]
    BY <1>0, <1>11, <2>1, <2>2, <2>3 DEF Leave, TypeOK, SessionInv, ShellInv, CallInv, InExec,
       Own, Shells
  <2>4. CASE ~(s = target[k])
    BY <1>0, <1>11, <2>1, <2>2, <2>4 DEF Leave, TypeOK, SessionInv, ShellInv, CallInv, InExec,
       Own, Shells
  <2>5. QED
    BY <2>3, <2>4
<1>12. ASSUME NEW k \in Calls, Restart(k) PROVE SessionInv(s)'
  <2>1. SessionInv(s) /\ SessionInv(target[k]) /\ CallInv(k)
    BY <1>1 DEF IndInv, TypeOK
  <2>2. \A h \in 1..MaxGen : ShellInv(target[k], h)
    BY <1>1 DEF IndInv, TypeOK
  <2>3. PICK b \in BOOLEAN : RestartLocked(target[k], b) /\ Respond(k, IF b THEN "200" ELSE "500")
    BY <1>12 DEF Restart
  <2>4. CASE s = target[k] /\ target[k] \notin closed /\ b
    BY <1>0, <1>12, <2>1, <2>2, <2>3, <2>4, ShellMember DEF Restart, ExecFree, RestartLocked,
       MayRestart, SessionInv, ShellInv, CallInv, InExec, Own, Shells, TypeOK
  <2>5. CASE s = target[k] /\ target[k] \notin closed /\ ~b
    BY <1>0, <1>12, <2>1, <2>2, <2>3, <2>5, ShellMember DEF Restart, ExecFree, RestartLocked,
       MayRestart, SessionInv, ShellInv, CallInv, InExec, Own, Shells, TypeOK
  <2>6. CASE s = target[k] /\ target[k] \in closed
    BY <1>0, <1>12, <2>1, <2>2, <2>3, <2>6 DEF Restart, ExecFree, RestartLocked, MayRestart,
       SessionInv, ShellInv, CallInv, InExec, Own, Shells, TypeOK
  <2>7. CASE s # target[k]
    <3>1. target[k] \in Sessions /\ s \in Sessions
      BY <1>0 DEF TypeOK
    <3>2. /\ gen'[s] = gen[s] /\ current'[s] = current[s]
          /\ \A h \in 1..MaxGen : (<<s, h>> \in killed' <=> <<s, h>> \in killed)
          /\ \A h \in 1..MaxGen : (<<s, h>> \in alive' <=> <<s, h>> \in alive)
      BY <1>0, <2>3, <2>7, <3>1, RestartFrame
    <3>3. QED
      BY <1>0, <1>12, <2>1, <2>7, <3>1, <3>2 DEF Restart, SessionInv, ShellInv, CallInv, InExec,
         Own, Shells, TypeOK
  <2>8. QED
    BY <2>4, <2>5, <2>6, <2>7
<1>13. ASSUME NEW k \in Calls, ContextDone(k) PROVE SessionInv(s)'
  BY <1>1, <1>13 DEF ContextDone, IndInv, TypeOK, SessionInv, ShellInv, CallInv, InExec, Own,
     Shells
<1>14. ASSUME NEW t \in Sessions, Create(t) PROVE SessionInv(s)'
  <2>1. SessionInv(s) /\ SessionInv(t)
    BY <1>1 DEF IndInv
  <2>2. \A h \in 1..MaxGen : ShellInv(s, h)
    BY <1>1 DEF IndInv
  <2>3. CASE s = t
    BY <1>0, <1>14, <2>1, <2>2, <2>3 DEF Create, TypeOK, SessionInv, ShellInv
  <2>4. CASE ~(s = t)
    BY <1>0, <1>14, <2>1, <2>2, <2>4 DEF Create, TypeOK, SessionInv, ShellInv
  <2>5. QED
    BY <2>3, <2>4
<1>15. ASSUME NEW t \in Sessions, Delete(t) PROVE SessionInv(s)'
  BY <1>1, <1>15 DEF Delete, IndInv, TypeOK, SessionInv, ShellInv, CallInv, InExec, Own, Shells
<1>16. ASSUME NEW t \in Sessions, Abort(t) PROVE SessionInv(s)'
  <2>1. SessionInv(s) /\ SessionInv(t)
    BY <1>1 DEF IndInv
  <2>2. \A h \in 1..MaxGen : ShellInv(s, h)
    BY <1>1 DEF IndInv
  <2>3. CASE s = t
    BY <1>0, <1>16, <2>1, <2>2, <2>3 DEF Abort, Shell, TypeOK, SessionInv, ShellInv
  <2>4. CASE ~(s = t)
    BY <1>0, <1>16, <2>1, <2>2, <2>4 DEF Abort, Shell, TypeOK, SessionInv, ShellInv
  <2>5. QED
    BY <2>3, <2>4
<1>17. ASSUME NEW t \in Sessions, ReaperDelete(t) PROVE SessionInv(s)'
  BY <1>1, <1>17 DEF ReaperDelete, IndInv, TypeOK, SessionInv, ShellInv, CallInv, InExec, Own,
     Shells
<1>18. ASSUME NEW stop \in BOOLEAN, KillAll(stop) PROVE SessionInv(s)'
  BY <1>1, <1>18 DEF KillAll, IndInv, TypeOK, SessionInv, ShellInv, CallInv, InExec, Own, Shells
<1>19. ASSUME NEW p \in Shells, KillShell(p) PROVE SessionInv(s)'
  BY <1>1, <1>19 DEF KillShell, IndInv, TypeOK, SessionInv, ShellInv, CallInv, InExec, Own, Shells
<1>20. ASSUME NEW p \in Shells, ShellDies(p) PROVE SessionInv(s)'
  BY <1>1, <1>20 DEF ShellDies, IndInv, TypeOK, SessionInv, ShellInv, CallInv, InExec, Own, Shells
<1>21. CASE ReaperCollect
  BY <1>1, <1>21 DEF ReaperCollect, IndInv, TypeOK, SessionInv, ShellInv, CallInv, InExec, Own,
     Shells
<1>22. CASE Tick
  BY <1>1, <1>22 DEF Tick, IndInv, TypeOK, SessionInv, ShellInv, CallInv, InExec, Own, Shells
<1>23. CASE UNCHANGED vars
  BY <1>1, <1>23 DEF IndInv, TypeOK, SessionInv, ShellInv, CallInv, InExec, Own, Shells
<1>24. QED
  BY <1>1, <1>2, <1>3, <1>4, <1>5, <1>6, <1>7, <1>8, <1>9, <1>10, <1>11, <1>12, <1>13, <1>14,
     <1>15, <1>16, <1>17, <1>18, <1>19, <1>20, <1>21, <1>22, <1>23 DEF Next, CallStep

(* Every shell keeps its owner. *)
LEMMA NextShellInv ==
    ASSUME IndInv, TypeOK', [Next]_vars, NEW s \in Sessions, NEW g \in 1..MaxGen
    PROVE  ShellInv(s, g)'
<1>0. TypeOK /\ TypeOK'
  BY DEF IndInv
<1>1. IndInv /\ TypeOK' /\ [Next]_vars
  OBVIOUS
<1> USE MaxGenAssumption, NoCallAssumption
<1> USE DEF vars, manager, session, shells, callers, Goto, Touch, Respond
<1>2. ASSUME NEW k \in Calls, Request(k) PROVE ShellInv(s, g)'
  <2>1. ShellInv(s, g) /\ SessionInv(target[k]) /\ CallInv(k)
    BY <1>1 DEF IndInv, TypeOK
  <2>2. \A h \in 1..MaxGen : ShellInv(target[k], h)
    BY <1>1 DEF IndInv, TypeOK
  <2>3. CASE target[k] \in table
    BY <1>0, <1>2, <2>1, <2>2, <2>3 DEF Request, TypeOK, SessionInv, ShellInv, CallInv, InExec,
       Own, Shells
  <2>4. CASE ~(target[k] \in table)
    BY <1>0, <1>2, <2>1, <2>2, <2>4 DEF Request, TypeOK, SessionInv, ShellInv, CallInv, InExec,
       Own, Shells
  <2>5. QED
    BY <2>3, <2>4
<1>3. ASSUME NEW k \in Calls, BeginExec(k) PROVE ShellInv(s, g)'
  BY <1>1, <1>3 DEF BeginExec, ExecFree, IndInv, TypeOK, SessionInv, ShellInv, CallInv, InExec,
     Own, Shells
<1>4. ASSUME NEW k \in Calls, WriteCommand(k) PROVE ShellInv(s, g)'
  BY <1>1, <1>4 DEF WriteCommand, IndInv, TypeOK, SessionInv, ShellInv, CallInv, InExec, Own,
     Shells
<1>5. ASSUME NEW k \in Calls, WriteFails(k) PROVE ShellInv(s, g)'
  BY <1>1, <1>5 DEF WriteFails, IndInv, TypeOK, SessionInv, ShellInv, CallInv, InExec, Own, Shells
<1>6. ASSUME NEW k \in Calls, ReadFrame(k) PROVE ShellInv(s, g)'
  BY <1>1, <1>6 DEF ReadFrame, IndInv, TypeOK, SessionInv, ShellInv, CallInv, InExec, Own, Shells
<1>7. ASSUME NEW k \in Calls, NEW r \in {"timeout", "exited"}, SelectKill(k, r) PROVE ShellInv(s, g)'
  <2>1. ShellInv(s, g) /\ SessionInv(target[k]) /\ CallInv(k)
    BY <1>1 DEF IndInv, TypeOK
  <2>2. \A h \in 1..MaxGen : ShellInv(target[k], h)
    BY <1>1 DEF IndInv, TypeOK
  <2>3. CASE s = target[k]
    BY <1>0, <1>7, <2>1, <2>2, <2>3 DEF SelectKill, TypeOK, SessionInv, ShellInv, CallInv,
       InExec, Own, Shells
  <2>4. CASE ~(s = target[k])
    BY <1>0, <1>7, <2>1, <2>2, <2>4 DEF SelectKill, TypeOK, SessionInv, ShellInv, CallInv,
       InExec, Own, Shells
  <2>5. QED
    BY <2>3, <2>4
<1>8. ASSUME NEW k \in Calls, SelectFrame(k) PROVE ShellInv(s, g)'
  BY <1>1, <1>8 DEF SelectFrame, IndInv, TypeOK, SessionInv, ShellInv, CallInv, InExec, Own,
     Shells
<1>9. ASSUME NEW k \in Calls, Reap(k) PROVE ShellInv(s, g)'
  BY <1>1, <1>9 DEF Reap, AfterReap, IndInv, TypeOK, SessionInv, ShellInv, CallInv, InExec, Own,
     Shells
<1>10. ASSUME NEW k \in Calls, RestartInExec(k) PROVE ShellInv(s, g)'
  <2>1. ShellInv(s, g) /\ SessionInv(target[k]) /\ CallInv(k)
    BY <1>1 DEF IndInv, TypeOK
  <2>2. \A h \in 1..MaxGen : ShellInv(target[k], h)
    BY <1>1 DEF IndInv, TypeOK
  <2>3. PICK b \in BOOLEAN : RestartLocked(target[k], b)
    BY <1>10 DEF RestartInExec
  <2>4. CASE s = target[k] /\ target[k] \notin closed /\ b
    BY <1>0, <1>10, <2>1, <2>2, <2>3, <2>4, ShellMember DEF RestartInExec, RestartLocked,
       MayRestart, SessionInv, ShellInv, CallInv, InExec, Own, Shells, TypeOK
  <2>5. CASE s = target[k] /\ target[k] \notin closed /\ ~b
    BY <1>0, <1>10, <2>1, <2>2, <2>3, <2>5, ShellMember DEF RestartInExec, RestartLocked,
       MayRestart, SessionInv, ShellInv, CallInv, InExec, Own, Shells, TypeOK
  <2>6. CASE s = target[k] /\ target[k] \in closed
    BY <1>0, <1>10, <2>1, <2>2, <2>3, <2>6 DEF RestartInExec, RestartLocked, MayRestart,
       SessionInv, ShellInv, CallInv, InExec, Own, Shells, TypeOK
  <2>7. CASE s # target[k]
    <3>1. target[k] \in Sessions /\ s \in Sessions
      BY <1>0 DEF TypeOK
    <3>2. /\ gen'[s] = gen[s] /\ current'[s] = current[s]
          /\ \A h \in 1..MaxGen : (<<s, h>> \in killed' <=> <<s, h>> \in killed)
          /\ \A h \in 1..MaxGen : (<<s, h>> \in alive' <=> <<s, h>> \in alive)
      BY <1>0, <2>3, <2>7, <3>1, RestartFrame
    <3>3. QED
      BY <1>0, <1>10, <2>1, <2>7, <3>1, <3>2 DEF RestartInExec, SessionInv, ShellInv, CallInv,
         InExec, Own, Shells, TypeOK
  <2>8. QED
    BY <2>4, <2>5, <2>6, <2>7
<1>11. ASSUME NEW k \in Calls, Leave(k) PROVE ShellInv(s, g)'
  <2>1. ShellInv(s, g) /\ SessionInv(target[k]) /\ CallInv(k)
    BY <1>1 DEF IndInv, TypeOK
  <2>2. \A h \in 1..MaxGen : ShellInv(target[k], h)
    BY <1>1 DEF IndInv, TypeOK
  <2>3. CASE s = target[k]
    BY <1>0, <1>11, <2>1, <2>2, <2>3 DEF Leave, TypeOK, SessionInv, ShellInv, CallInv, InExec,
       Own, Shells
  <2>4. CASE ~(s = target[k])
    BY <1>0, <1>11, <2>1, <2>2, <2>4 DEF Leave, TypeOK, SessionInv, ShellInv, CallInv, InExec,
       Own, Shells
  <2>5. QED
    BY <2>3, <2>4
<1>12. ASSUME NEW k \in Calls, Restart(k) PROVE ShellInv(s, g)'
  <2>1. ShellInv(s, g) /\ SessionInv(target[k]) /\ CallInv(k)
    BY <1>1 DEF IndInv, TypeOK
  <2>2. \A h \in 1..MaxGen : ShellInv(target[k], h)
    BY <1>1 DEF IndInv, TypeOK
  <2>3. PICK b \in BOOLEAN : RestartLocked(target[k], b) /\ Respond(k, IF b THEN "200" ELSE "500")
    BY <1>12 DEF Restart
  <2>4. CASE s = target[k] /\ target[k] \notin closed /\ b
    BY <1>0, <1>12, <2>1, <2>2, <2>3, <2>4, ShellMember DEF Restart, ExecFree, RestartLocked,
       MayRestart, SessionInv, ShellInv, CallInv, InExec, Own, Shells, TypeOK
  <2>5. CASE s = target[k] /\ target[k] \notin closed /\ ~b
    BY <1>0, <1>12, <2>1, <2>2, <2>3, <2>5, ShellMember DEF Restart, ExecFree, RestartLocked,
       MayRestart, SessionInv, ShellInv, CallInv, InExec, Own, Shells, TypeOK
  <2>6. CASE s = target[k] /\ target[k] \in closed
    BY <1>0, <1>12, <2>1, <2>2, <2>3, <2>6 DEF Restart, ExecFree, RestartLocked, MayRestart,
       SessionInv, ShellInv, CallInv, InExec, Own, Shells, TypeOK
  <2>7. CASE s # target[k]
    <3>1. target[k] \in Sessions /\ s \in Sessions
      BY <1>0 DEF TypeOK
    <3>2. /\ gen'[s] = gen[s] /\ current'[s] = current[s]
          /\ \A h \in 1..MaxGen : (<<s, h>> \in killed' <=> <<s, h>> \in killed)
          /\ \A h \in 1..MaxGen : (<<s, h>> \in alive' <=> <<s, h>> \in alive)
      BY <1>0, <2>3, <2>7, <3>1, RestartFrame
    <3>3. QED
      BY <1>0, <1>12, <2>1, <2>7, <3>1, <3>2 DEF Restart, SessionInv, ShellInv, CallInv, InExec,
         Own, Shells, TypeOK
  <2>8. QED
    BY <2>4, <2>5, <2>6, <2>7
<1>13. ASSUME NEW k \in Calls, ContextDone(k) PROVE ShellInv(s, g)'
  BY <1>1, <1>13 DEF ContextDone, IndInv, TypeOK, SessionInv, ShellInv, CallInv, InExec, Own,
     Shells
<1>14. ASSUME NEW t \in Sessions, Create(t) PROVE ShellInv(s, g)'
  BY <1>1, <1>14 DEF Create, IndInv, TypeOK, SessionInv, ShellInv, CallInv, InExec, Own, Shells
<1>15. ASSUME NEW t \in Sessions, Delete(t) PROVE ShellInv(s, g)'
  BY <1>1, <1>15 DEF Delete, IndInv, TypeOK, SessionInv, ShellInv, CallInv, InExec, Own, Shells
<1>16. ASSUME NEW t \in Sessions, Abort(t) PROVE ShellInv(s, g)'
  BY <1>1, <1>16 DEF Abort, Shell, IndInv, TypeOK, SessionInv, ShellInv, CallInv, InExec, Own,
     Shells
<1>17. ASSUME NEW t \in Sessions, ReaperDelete(t) PROVE ShellInv(s, g)'
  BY <1>1, <1>17 DEF ReaperDelete, IndInv, TypeOK, SessionInv, ShellInv, CallInv, InExec, Own,
     Shells
<1>18. ASSUME NEW stop \in BOOLEAN, KillAll(stop) PROVE ShellInv(s, g)'
  BY <1>1, <1>18 DEF KillAll, IndInv, TypeOK, SessionInv, ShellInv, CallInv, InExec, Own, Shells
<1>19. ASSUME NEW p \in Shells, KillShell(p) PROVE ShellInv(s, g)'
  BY <1>1, <1>19 DEF KillShell, IndInv, TypeOK, SessionInv, ShellInv, CallInv, InExec, Own, Shells
<1>20. ASSUME NEW p \in Shells, ShellDies(p) PROVE ShellInv(s, g)'
  BY <1>1, <1>20 DEF ShellDies, IndInv, TypeOK, SessionInv, ShellInv, CallInv, InExec, Own, Shells
<1>21. CASE ReaperCollect
  BY <1>1, <1>21 DEF ReaperCollect, IndInv, TypeOK, SessionInv, ShellInv, CallInv, InExec, Own,
     Shells
<1>22. CASE Tick
  BY <1>1, <1>22 DEF Tick, IndInv, TypeOK, SessionInv, ShellInv, CallInv, InExec, Own, Shells
<1>23. CASE UNCHANGED vars
  BY <1>1, <1>23 DEF IndInv, TypeOK, SessionInv, ShellInv, CallInv, InExec, Own, Shells
<1>24. QED
  BY <1>1, <1>2, <1>3, <1>4, <1>5, <1>6, <1>7, <1>8, <1>9, <1>10, <1>11, <1>12, <1>13, <1>14,
     <1>15, <1>16, <1>17, <1>18, <1>19, <1>20, <1>21, <1>22, <1>23 DEF Next, CallStep

(* Every call keeps what it knows of its shell. *)
LEMMA NextCallInv ==
    ASSUME IndInv, TypeOK', [Next]_vars, NEW c \in Calls
    PROVE  CallInv(c)'
<1>0. TypeOK /\ TypeOK'
  BY DEF IndInv
<1>1. IndInv /\ TypeOK' /\ [Next]_vars
  OBVIOUS
<1> USE MaxGenAssumption, NoCallAssumption
<1> USE DEF vars, manager, session, shells, callers, Goto, Touch, Respond
<1>2. ASSUME NEW k \in Calls, Request(k) PROVE CallInv(c)'
  <2>1. CallInv(c) /\ SessionInv(target[k]) /\ CallInv(k)
    BY <1>1 DEF IndInv, TypeOK
  <2>2. \A h \in 1..MaxGen : ShellInv(target[k], h)
    BY <1>1 DEF IndInv, TypeOK
  <2>3. CASE target[k] \in table
    BY <1>0, <1>2, <2>1, <2>2, <2>3 DEF Request, TypeOK, SessionInv, ShellInv, CallInv, InExec,
       Own, Shells
  <2>4. CASE ~(target[k] \in table)
    BY <1>0, <1>2, <2>1, <2>2, <2>4 DEF Request, TypeOK, SessionInv, ShellInv, CallInv, InExec,
       Own, Shells
  <2>5. QED
    BY <2>3, <2>4
<1>3. ASSUME NEW k \in Calls, BeginExec(k) PROVE CallInv(c)'
  <2>1. CallInv(c) /\ CallInv(k) /\ SessionInv(target[k]) /\ target[k] \in Sessions
    BY <1>0, <1>1 DEF IndInv, TypeOK
  <2>2. /\ pc[k] = "queued" /\ execMu[target[k]] = NoCall
        /\ UNCHANGED <<gen, current, closed, killed, target, verdict>>
    BY <1>3 DEF BeginExec, ExecFree
  <2>3. CASE target[k] \in closed \/ current[target[k]] = 0
    <3>1. pc' = [pc EXCEPT ![k] = "returned"] /\ UNCHANGED <<shell, execMu>>
      BY <1>3, <2>3 DEF BeginExec
    <3>2. QED
      BY <1>0, <2>1, <2>2, <3>1 DEF CallInv, InExec, Own, TypeOK
  <2>4. CASE ~(target[k] \in closed \/ current[target[k]] = 0)
    <3>1. /\ pc' = [pc EXCEPT ![k] = "writing"]
          /\ shell' = [shell EXCEPT ![k] = current[target[k]]]
          /\ execMu' = [execMu EXCEPT ![target[k]] = k]
      BY <1>3, <2>4 DEF BeginExec
    <3>2. CASE c = k
      BY <1>0, <2>1, <2>2, <2>4, <3>1, <3>2 DEF CallInv, SessionInv, InExec, Own, TypeOK
    <3>3. CASE c # k /\ c \notin InExec
      BY <1>0, <2>1, <2>2, <3>1, <3>3 DEF CallInv, InExec, Own, TypeOK
    <3>4. CASE c # k /\ c \in InExec
      <4>1. target[c] # target[k]
        BY <2>1, <2>2, <3>4 DEF CallInv
      <4>2. QED
        BY <1>0, <2>1, <2>2, <3>1, <3>4, <4>1 DEF CallInv, InExec, Own, TypeOK
    <3>5. QED
      BY <3>2, <3>3, <3>4
  <2>5. QED
    BY <2>3, <2>4
<1>4. ASSUME NEW k \in Calls, WriteCommand(k) PROVE CallInv(c)'
  BY <1>1, <1>4 DEF WriteCommand, IndInv, TypeOK, SessionInv, ShellInv, CallInv, InExec, Own,
     Shells
<1>5. ASSUME NEW k \in Calls, WriteFails(k) PROVE CallInv(c)'
  BY <1>1, <1>5 DEF WriteFails, IndInv, TypeOK, SessionInv, ShellInv, CallInv, InExec, Own, Shells
<1>6. ASSUME NEW k \in Calls, ReadFrame(k) PROVE CallInv(c)'
  BY <1>1, <1>6 DEF ReadFrame, IndInv, TypeOK, SessionInv, ShellInv, CallInv, InExec, Own, Shells
<1>7. ASSUME NEW k \in Calls, NEW r \in {"timeout", "exited"}, SelectKill(k, r) PROVE CallInv(c)'
  <2>1. CallInv(c) /\ SessionInv(target[k]) /\ CallInv(k)
    BY <1>1 DEF IndInv, TypeOK
  <2>2. \A h \in 1..MaxGen : ShellInv(target[k], h)
    BY <1>1 DEF IndInv, TypeOK
  <2>3. CASE target[c] = target[k]
    BY <1>0, <1>7, <2>1, <2>2, <2>3 DEF SelectKill, TypeOK, SessionInv, ShellInv, CallInv,
       InExec, Own, Shells
  <2>4. CASE ~(target[c] = target[k])
    BY <1>0, <1>7, <2>1, <2>2, <2>4 DEF SelectKill, TypeOK, SessionInv, ShellInv, CallInv,
       InExec, Own, Shells
  <2>5. QED
    BY <2>3, <2>4
<1>8. ASSUME NEW k \in Calls, SelectFrame(k) PROVE CallInv(c)'
  BY <1>1, <1>8 DEF SelectFrame, IndInv, TypeOK, SessionInv, ShellInv, CallInv, InExec, Own,
     Shells
<1>9. ASSUME NEW k \in Calls, Reap(k) PROVE CallInv(c)'
  BY <1>1, <1>9 DEF Reap, AfterReap, IndInv, TypeOK, SessionInv, ShellInv, CallInv, InExec, Own,
     Shells
<1>10. ASSUME NEW k \in Calls, RestartInExec(k) PROVE CallInv(c)'
  <2>1. CallInv(c) /\ SessionInv(target[k]) /\ CallInv(k)
    BY <1>1 DEF IndInv, TypeOK
  <2>2. \A h \in 1..MaxGen : ShellInv(target[k], h)
    BY <1>1 DEF IndInv, TypeOK
  <2>3. PICK b \in BOOLEAN : RestartLocked(target[k], b)
    BY <1>10 DEF RestartInExec
  <2>4. CASE target[c] = target[k] /\ target[k] \notin closed /\ b
    BY <1>0, <1>10, <2>1, <2>2, <2>3, <2>4, ShellMember DEF RestartInExec, RestartLocked,
       MayRestart, SessionInv, ShellInv, CallInv, InExec, Own, Shells, TypeOK
  <2>5. CASE target[c] = target[k] /\ target[k] \notin closed /\ ~b
    BY <1>0, <1>10, <2>1, <2>2, <2>3, <2>5, ShellMember DEF RestartInExec, RestartLocked,
       MayRestart, SessionInv, ShellInv, CallInv, InExec, Own, Shells, TypeOK
  <2>6. CASE target[c] = target[k] /\ target[k] \in closed
    BY <1>0, <1>10, <2>1, <2>2, <2>3, <2>6 DEF RestartInExec, RestartLocked, MayRestart,
       SessionInv, ShellInv, CallInv, InExec, Own, Shells, TypeOK
  <2>7. CASE target[c] # target[k]
    <3>1. target[k] \in Sessions /\ target[c] \in Sessions
      BY <1>0 DEF TypeOK
    <3>2. /\ gen'[target[c]] = gen[target[c]] /\ current'[target[c]] = current[target[c]]
          /\ \A h \in 1..MaxGen : (<<target[c], h>> \in killed' <=> <<target[c], h>> \in killed)
          /\ \A h \in 1..MaxGen : (<<target[c], h>> \in alive' <=> <<target[c], h>> \in alive)
      BY <1>0, <2>3, <2>7, <3>1, RestartFrame
    <3>3. QED
      BY <1>0, <1>10, <2>1, <2>7, <3>1, <3>2 DEF RestartInExec, SessionInv, ShellInv, CallInv,
         InExec, Own, Shells, TypeOK
  <2>8. QED
    BY <2>4, <2>5, <2>6, <2>7
<1>11. ASSUME NEW k \in Calls, Leave(k) PROVE CallInv(c)'
  <2>1. CallInv(c) /\ SessionInv(target[k]) /\ CallInv(k)
    BY <1>1 DEF IndInv, TypeOK
  <2>2. \A h \in 1..MaxGen : ShellInv(target[k], h)
    BY <1>1 DEF IndInv, TypeOK
  <2>3. CASE target[c] = target[k]
    BY <1>0, <1>11, <2>1, <2>2, <2>3 DEF Leave, TypeOK, SessionInv, ShellInv, CallInv, InExec,
       Own, Shells
  <2>4. CASE ~(target[c] = target[k])
    BY <1>0, <1>11, <2>1, <2>2, <2>4 DEF Leave, TypeOK, SessionInv, ShellInv, CallInv, InExec,
       Own, Shells
  <2>5. QED
    BY <2>3, <2>4
<1>12. ASSUME NEW k \in Calls, Restart(k) PROVE CallInv(c)'
  <2>1. CallInv(c) /\ SessionInv(target[k]) /\ CallInv(k)
    BY <1>1 DEF IndInv, TypeOK
  <2>2. \A h \in 1..MaxGen : ShellInv(target[k], h)
    BY <1>1 DEF IndInv, TypeOK
  <2>3. PICK b \in BOOLEAN : RestartLocked(target[k], b) /\ Respond(k, IF b THEN "200" ELSE "500")
    BY <1>12 DEF Restart
  <2>4. CASE target[c] = target[k] /\ target[k] \notin closed /\ b
    BY <1>0, <1>12, <2>1, <2>2, <2>3, <2>4, ShellMember DEF Restart, ExecFree, RestartLocked,
       MayRestart, SessionInv, ShellInv, CallInv, InExec, Own, Shells, TypeOK
  <2>5. CASE target[c] = target[k] /\ target[k] \notin closed /\ ~b
    BY <1>0, <1>12, <2>1, <2>2, <2>3, <2>5, ShellMember DEF Restart, ExecFree, RestartLocked,
       MayRestart, SessionInv, ShellInv, CallInv, InExec, Own, Shells, TypeOK
  <2>6. CASE target[c] = target[k] /\ target[k] \in closed
    BY <1>0, <1>12, <2>1, <2>2, <2>3, <2>6 DEF Restart, ExecFree, RestartLocked, MayRestart,
       SessionInv, ShellInv, CallInv, InExec, Own, Shells, TypeOK
  <2>7. CASE target[c] # target[k]
    <3>1. target[k] \in Sessions /\ target[c] \in Sessions
      BY <1>0 DEF TypeOK
    <3>2. /\ gen'[target[c]] = gen[target[c]] /\ current'[target[c]] = current[target[c]]
          /\ \A h \in 1..MaxGen : (<<target[c], h>> \in killed' <=> <<target[c], h>> \in killed)
          /\ \A h \in 1..MaxGen : (<<target[c], h>> \in alive' <=> <<target[c], h>> \in alive)
      BY <1>0, <2>3, <2>7, <3>1, RestartFrame
    <3>3. QED
      BY <1>0, <1>12, <2>1, <2>7, <3>1, <3>2 DEF Restart, SessionInv, ShellInv, CallInv, InExec,
         Own, Shells, TypeOK
  <2>8. QED
    BY <2>4, <2>5, <2>6, <2>7
<1>13. ASSUME NEW k \in Calls, ContextDone(k) PROVE CallInv(c)'
  BY <1>1, <1>13 DEF ContextDone, IndInv, TypeOK, SessionInv, ShellInv, CallInv, InExec, Own,
     Shells
<1>14. ASSUME NEW t \in Sessions, Create(t) PROVE CallInv(c)'
  BY <1>1, <1>14 DEF Create, IndInv, TypeOK, SessionInv, ShellInv, CallInv, InExec, Own, Shells
<1>15. ASSUME NEW t \in Sessions, Delete(t) PROVE CallInv(c)'
  BY <1>1, <1>15 DEF Delete, IndInv, TypeOK, SessionInv, ShellInv, CallInv, InExec, Own, Shells
<1>16. ASSUME NEW t \in Sessions, Abort(t) PROVE CallInv(c)'
  BY <1>1, <1>16 DEF Abort, Shell, IndInv, TypeOK, SessionInv, ShellInv, CallInv, InExec, Own,
     Shells
<1>17. ASSUME NEW t \in Sessions, ReaperDelete(t) PROVE CallInv(c)'
  BY <1>1, <1>17 DEF ReaperDelete, IndInv, TypeOK, SessionInv, ShellInv, CallInv, InExec, Own,
     Shells
<1>18. ASSUME NEW stop \in BOOLEAN, KillAll(stop) PROVE CallInv(c)'
  BY <1>1, <1>18 DEF KillAll, IndInv, TypeOK, SessionInv, ShellInv, CallInv, InExec, Own, Shells
<1>19. ASSUME NEW p \in Shells, KillShell(p) PROVE CallInv(c)'
  BY <1>1, <1>19 DEF KillShell, IndInv, TypeOK, SessionInv, ShellInv, CallInv, InExec, Own, Shells
<1>20. ASSUME NEW p \in Shells, ShellDies(p) PROVE CallInv(c)'
  BY <1>1, <1>20 DEF ShellDies, IndInv, TypeOK, SessionInv, ShellInv, CallInv, InExec, Own, Shells
<1>21. CASE ReaperCollect
  BY <1>1, <1>21 DEF ReaperCollect, IndInv, TypeOK, SessionInv, ShellInv, CallInv, InExec, Own,
     Shells
<1>22. CASE Tick
  BY <1>1, <1>22 DEF Tick, IndInv, TypeOK, SessionInv, ShellInv, CallInv, InExec, Own, Shells
<1>23. CASE UNCHANGED vars
  BY <1>1, <1>23 DEF IndInv, TypeOK, SessionInv, ShellInv, CallInv, InExec, Own, Shells
<1>24. QED
  BY <1>1, <1>2, <1>3, <1>4, <1>5, <1>6, <1>7, <1>8, <1>9, <1>10, <1>11, <1>12, <1>13, <1>14,
     <1>15, <1>16, <1>17, <1>18, <1>19, <1>20, <1>21, <1>22, <1>23 DEF Next, CallStep

(* The strengthened invariant is inductive. *)
THEOREM Inductive == Spec => []IndInv
<1>1. IndInv /\ [Next]_vars => IndInv'
  <2>1. SUFFICES ASSUME IndInv, [Next]_vars PROVE IndInv'
    OBVIOUS
  <2>2. TypeOK'
    BY <2>1, NextTypeOK
  <2>3. \A s \in Sessions : SessionInv(s)'
    BY <2>1, <2>2, NextSessionInv
  <2>4. \A s \in Sessions, g \in 1..MaxGen : ShellInv(s, g)'
    BY <2>1, <2>2, NextShellInv
  <2>5. \A c \in Calls : CallInv(c)'
    BY <2>1, <2>2, NextCallInv
  <2>6. QED
    BY <2>2, <2>3, <2>4, <2>5 DEF IndInv
<1>2. QED
  BY InitIndInv, <1>1, PTL DEF Spec

(* The type invariant, for every instance. *)
THEOREM TypeCorrect == Spec => []TypeOK
<1>1. IndInv => TypeOK
  BY DEF IndInv
<1>2. QED
  BY <1>1, Inductive, PTL

(* Restarts, deletions, the reaper and the kill switch, in any order, never *)
(* leave a running shell that no session holds and no Abort will kill.      *)
THEOREM NoOrphanShells == Spec => []EveryShellIsOwned
<1>1. IndInv => EveryShellIsOwned
  <2>1. SUFFICES ASSUME IndInv, NEW p \in alive \ killed, p \notin killing
                 PROVE  p \in Shell(p[1]) /\ p[1] \notin closed /\ p[1] \in table \cup aborting
    BY DEF EveryShellIsOwned
  <2>2. PICK s \in Sessions, g \in 1..MaxGen : p = <<s, g>>
    BY <2>1 DEF IndInv, TypeOK, Shells
  <2>3. current[s] = g
    BY <2>1, <2>2 DEF IndInv, ShellInv
  <2>4. p[1] = s /\ g # 0
    BY <2>2, MaxGenAssumption
  <2>5. s \notin closed /\ gen[s] # 0
    BY <2>1, <2>3, <2>4 DEF IndInv, SessionInv
  <2>6. QED
    BY <2>1, <2>2, <2>3, <2>4, <2>5 DEF IndInv, SessionInv, Shell
<1>2. QED
  BY <1>1, Inductive, PTL

(* execMu keeps the commands of one session apart, for any number of calls. *)
THEOREM Serialized == Spec => []CallsAreSerialized
<1>1. IndInv => CallsAreSerialized
  BY DEF IndInv, CallInv, CallsAreSerialized, InExec
<1>2. QED
  BY <1>1, Inductive, PTL

(* A call never starts on a shell the agent has killed, unless its session *)
(* was closed.                                                             *)
THEOREM FreshShell == Spec => []NoCallOnAKilledShell
<1>1. IndInv => NoCallOnAKilledShell
  BY DEF IndInv, CallInv, NoCallOnAKilledShell
<1>2. QED
  BY <1>1, Inductive, PTL
=============================================================================
