----------------------------- MODULE RunnerProofs -----------------------------
(***************************************************************************)
(* Proofs about Runner, for any set of calls.                              *)
(*                                                                         *)
(* The brake's properties need to know where a shell that holds a command  *)
(* can be (CallInv): such a shell is killed, gone, or registered, and      *)
(* whatever is registered when r.blocked is set is on the brake's kill     *)
(* list (BrakeInv).  With these every step of Run is a step of the         *)
(* contract.                                                               *)
(***************************************************************************)
EXTENDS Runner, TLAPS

(* Where a call is determines what it owns. *)
CallInv(c) ==
    /\ pc[c] \in {"idle", "entered", "starting"} =>
          /\ proc[c] = "none"
          /\ c \notin killed
    /\ pc[c] \in {"idle", "entered", "starting", "started", "writing"} => c \notin delivered
    /\ pc[c] \in {"selecting", "waiting"} => c \in delivered
    /\ outcome[c] = "none" <=> pc[c] \in {"idle", "entered", "starting", "started", "writing",
                                         "selecting", "waiting"}
    /\ c \in active <=> \/ pc[c] \in {"writing", "selecting", "waiting", "killing", "unregistering"}
                        \/ pc[c] = "reaping" /\ outcome[c] # "blocked"
    /\ proc[c] = "none" <=> waitDone[c] = "none"
    /\ waitDone[c] \in {"ready", "taken"} => proc[c] = "dead"
    /\ pc[c] \in {"started", "writing", "selecting", "waiting", "reaping"} =>
          waitDone[c] \in {"pending", "ready"}
    /\ pc[c] \in {"reaping", "unregistering"} => c \in killed
    /\ pc[c] = "returned" => c \in killed \/ proc[c] # "alive"
    /\ outcome[c] = "blocked" => blocked /\ c \notin delivered
    /\ outcome[c] = "timeout" => c \in done
    /\ outcome[c] = "ok" => frame[c] = "good" /\ proc[c] = "dead" /\ c \in delivered
    /\ reader[c] = "ok" => frame[c] = "good"
    /\ pc[c] = "waiting" => reader[c] = "ok"

BrakeInv ==
    /\ sweep \cup brakeSweep \subseteq active \cup killed
    /\ blocked <=> brake # "off"
    /\ blocked => active \subseteq killed \cup brakeSweep
    /\ brake = "returned" => active \subseteq killed

(* The inductive invariant. *)
IndInv == TypeOK /\ (\A c \in Calls : CallInv(c)) /\ BrakeInv

LEMMA InitTypeOK == Init => TypeOK
<1>1. SUFFICES ASSUME Init PROVE TypeOK
  OBVIOUS
<1>2. blocked \in BOOLEAN
  BY <1>1, Zenon DEF Init
<1>3. QED
  BY <1>1, <1>2 DEF Init, TypeOK

(* Types are preserved by every step. *)
LEMMA NextTypeOK == TypeOK /\ [Next]_vars => TypeOK'
<1>1. SUFFICES ASSUME TypeOK, [Next]_vars PROVE TypeOK'
  OBVIOUS
<1> USE DEF vars, call, shell, brakes, Goto, Answer
<1>2. ASSUME NEW k \in Calls, Enter(k) PROVE TypeOK'
  BY <1>1, <1>2 DEF Enter, TypeOK
<1>3. ASSUME NEW k \in Calls, CheckBlocked(k) PROVE TypeOK'
  BY <1>1, <1>3 DEF CheckBlocked, TypeOK
<1>4. ASSUME NEW k \in Calls, StartChild(k) PROVE TypeOK'
  BY <1>1, <1>4 DEF StartChild, TypeOK
<1>5. ASSUME NEW k \in Calls, StartFails(k) PROVE TypeOK'
  BY <1>1, <1>5 DEF StartFails, TypeOK
<1>6. ASSUME NEW k \in Calls, Register(k) PROVE TypeOK'
  BY <1>1, <1>6 DEF Register, TypeOK
<1>7. ASSUME NEW k \in Calls, SelectContext(k) PROVE TypeOK'
  BY <1>1, <1>7 DEF SelectContext, TypeOK
<1>8. ASSUME NEW k \in Calls, SelectFrame(k) PROVE TypeOK'
  BY <1>1, <1>8 DEF SelectFrame, FrameArrived, FrameError, TypeOK
<1>9. ASSUME NEW k \in Calls, SelectExit(k) PROVE TypeOK'
  BY <1>1, <1>9 DEF SelectExit, TypeOK
<1>10. ASSUME NEW k \in Calls, Reap(k) PROVE TypeOK'
  BY <1>1, <1>10 DEF Reap, TypeOK
<1>11. ASSUME NEW k \in Calls, DeferredKill(k) PROVE TypeOK'
  BY <1>1, <1>11 DEF DeferredKill, TypeOK
<1>12. ASSUME NEW k \in Calls, Unregister(k) PROVE TypeOK'
  BY <1>1, <1>12 DEF Unregister, TypeOK
<1>13. ASSUME NEW k \in Calls, WriteCommand(k) PROVE TypeOK'
  BY <1>1, <1>13 DEF WriteCommand, TypeOK
<1>14. ASSUME NEW k \in Calls, WriteFails(k) PROVE TypeOK'
  BY <1>1, <1>14 DEF WriteFails, TypeOK
<1>15. ASSUME NEW k \in Calls, ReadFrame(k) PROVE TypeOK'
  BY <1>1, <1>15 DEF ReadFrame, PipeOpen, TypeOK
<1>16. ASSUME NEW k \in Calls, KillOne(k) PROVE TypeOK'
  BY <1>1, <1>16 DEF KillOne, TypeOK
<1>17. ASSUME NEW k \in Calls, ContextDone(k) PROVE TypeOK'
  BY <1>1, <1>17 DEF ContextDone, TypeOK
<1>18. ASSUME NEW k \in Calls, ShellPrints(k) PROVE TypeOK'
  BY <1>1, <1>18 DEF ShellPrints, TypeOK
<1>19. ASSUME NEW k \in Calls, ShellDies(k) PROVE TypeOK'
  BY <1>1, <1>19 DEF ShellDies, TypeOK
<1>20. ASSUME NEW k \in Calls, WaitReturns(k) PROVE TypeOK'
  BY <1>1, <1>20 DEF WaitReturns, TypeOK
<1>21. CASE KillAll
  BY <1>1, <1>21 DEF KillAll, TypeOK
<1>22. CASE BlockAndKillAll
  BY <1>1, <1>22 DEF BlockAndKillAll, TypeOK
<1>23. CASE BrakeReturns
  BY <1>1, <1>23 DEF BrakeReturns, TypeOK
<1>24. CASE UNCHANGED vars
  BY <1>1, <1>24 DEF TypeOK
<1>25. QED
  BY <1>1, <1>2, <1>3, <1>4, <1>5, <1>6, <1>7, <1>8, <1>9, <1>10, <1>11, <1>12, <1>13, <1>14,
     <1>15, <1>16, <1>17, <1>18, <1>19, <1>20, <1>21, <1>22, <1>23, <1>24 DEF Next, RunStep

(* The type invariant, for every set of calls. *)
THEOREM TypeCorrect == Spec => []TypeOK
BY InitTypeOK, NextTypeOK, PTL DEF Spec

LEMMA InitCallInv == Init => \A c \in Calls : CallInv(c)
BY DEF Init, CallInv

(* A step of one call, of a brake or of a shell keeps every call's story. *)
LEMMA NextCallInv ==
    ASSUME TypeOK, TypeOK', \A c \in Calls : CallInv(c), BrakeInv, [Next]_vars, NEW c \in Calls
    PROVE  CallInv(c)'
<1>1. TypeOK /\ TypeOK' /\ CallInv(c) /\ BrakeInv /\ [Next]_vars
  OBVIOUS
<1> USE DEF vars, call, shell, brakes, Goto, Answer
<1>2. ASSUME NEW k \in Calls, Enter(k) PROVE CallInv(c)'
  BY <1>1, <1>2 DEF Enter, CallInv, TypeOK
<1>3. ASSUME NEW k \in Calls, CheckBlocked(k) PROVE CallInv(c)'
  BY <1>1, <1>3 DEF CheckBlocked, CallInv, TypeOK
<1>4. ASSUME NEW k \in Calls, StartChild(k) PROVE CallInv(c)'
  BY <1>1, <1>4 DEF StartChild, CallInv, TypeOK
<1>5. ASSUME NEW k \in Calls, StartFails(k) PROVE CallInv(c)'
  BY <1>1, <1>5 DEF StartFails, CallInv, TypeOK
<1>6. ASSUME NEW k \in Calls, Register(k) PROVE CallInv(c)'
  BY <1>1, <1>6 DEF Register, CallInv, TypeOK
<1>7. ASSUME NEW k \in Calls, SelectContext(k) PROVE CallInv(c)'
  BY <1>1, <1>7 DEF SelectContext, CallInv, TypeOK
<1>8. ASSUME NEW k \in Calls, SelectFrame(k) PROVE CallInv(c)'
  BY <1>1, <1>8 DEF SelectFrame, FrameArrived, FrameError, CallInv, TypeOK
<1>9. ASSUME NEW k \in Calls, SelectExit(k) PROVE CallInv(c)'
  BY <1>1, <1>9 DEF SelectExit, CallInv, TypeOK
<1>10. ASSUME NEW k \in Calls, Reap(k) PROVE CallInv(c)'
  BY <1>1, <1>10 DEF Reap, CallInv, TypeOK
<1>11. ASSUME NEW k \in Calls, DeferredKill(k) PROVE CallInv(c)'
  BY <1>1, <1>11 DEF DeferredKill, CallInv, TypeOK
<1>12. ASSUME NEW k \in Calls, Unregister(k) PROVE CallInv(c)'
  BY <1>1, <1>12 DEF Unregister, CallInv, TypeOK
<1>13. ASSUME NEW k \in Calls, WriteCommand(k) PROVE CallInv(c)'
  BY <1>1, <1>13 DEF WriteCommand, CallInv, TypeOK
<1>14. ASSUME NEW k \in Calls, WriteFails(k) PROVE CallInv(c)'
  BY <1>1, <1>14 DEF WriteFails, CallInv, TypeOK
<1>15. ASSUME NEW k \in Calls, ReadFrame(k) PROVE CallInv(c)'
  BY <1>1, <1>15 DEF ReadFrame, PipeOpen, CallInv, TypeOK
<1>16. ASSUME NEW k \in Calls, KillOne(k) PROVE CallInv(c)'
  BY <1>1, <1>16 DEF KillOne, BrakeInv, CallInv, TypeOK
<1>17. ASSUME NEW k \in Calls, ContextDone(k) PROVE CallInv(c)'
  BY <1>1, <1>17 DEF ContextDone, CallInv, TypeOK
<1>18. ASSUME NEW k \in Calls, ShellPrints(k) PROVE CallInv(c)'
  BY <1>1, <1>18 DEF ShellPrints, CallInv, TypeOK
<1>19. ASSUME NEW k \in Calls, ShellDies(k) PROVE CallInv(c)'
  BY <1>1, <1>19 DEF ShellDies, CallInv, TypeOK
<1>20. ASSUME NEW k \in Calls, WaitReturns(k) PROVE CallInv(c)'
  BY <1>1, <1>20 DEF WaitReturns, CallInv, TypeOK
<1>21. CASE KillAll
  BY <1>1, <1>21 DEF KillAll, CallInv, TypeOK
<1>22. CASE BlockAndKillAll
  BY <1>1, <1>22 DEF BlockAndKillAll, CallInv, TypeOK
<1>23. CASE BrakeReturns
  BY <1>1, <1>23 DEF BrakeReturns, CallInv, TypeOK
<1>24. CASE UNCHANGED vars
  BY <1>1, <1>24 DEF CallInv, TypeOK
<1>25. QED
  BY <1>1, <1>2, <1>3, <1>4, <1>5, <1>6, <1>7, <1>8, <1>9, <1>10, <1>11, <1>12, <1>13, <1>14,
     <1>15, <1>16, <1>17, <1>18, <1>19, <1>20, <1>21, <1>22, <1>23, <1>24 DEF Next, RunStep

LEMMA NextBrakeInv ==
    ASSUME TypeOK, TypeOK', \A c \in Calls : CallInv(c), BrakeInv, [Next]_vars
    PROVE  BrakeInv'
<1>1. TypeOK /\ TypeOK' /\ (\A c \in Calls : CallInv(c)) /\ BrakeInv /\ [Next]_vars
  OBVIOUS
<1> USE DEF vars, call, shell, brakes, Goto, Answer
<1>2. ASSUME NEW k \in Calls, Enter(k) PROVE BrakeInv'
  BY <1>1, <1>2 DEF Enter, BrakeInv, CallInv, TypeOK
<1>3. ASSUME NEW k \in Calls, CheckBlocked(k) PROVE BrakeInv'
  BY <1>1, <1>3 DEF CheckBlocked, BrakeInv, CallInv, TypeOK
<1>4. ASSUME NEW k \in Calls, StartChild(k) PROVE BrakeInv'
  BY <1>1, <1>4 DEF StartChild, BrakeInv, CallInv, TypeOK
<1>5. ASSUME NEW k \in Calls, StartFails(k) PROVE BrakeInv'
  BY <1>1, <1>5 DEF StartFails, BrakeInv, CallInv, TypeOK
<1>6. ASSUME NEW k \in Calls, Register(k) PROVE BrakeInv'
  BY <1>1, <1>6 DEF Register, BrakeInv, CallInv, TypeOK
<1>7. ASSUME NEW k \in Calls, SelectContext(k) PROVE BrakeInv'
  BY <1>1, <1>7 DEF SelectContext, BrakeInv, CallInv, TypeOK
<1>8. ASSUME NEW k \in Calls, SelectFrame(k) PROVE BrakeInv'
  BY <1>1, <1>8 DEF SelectFrame, FrameArrived, FrameError, BrakeInv, CallInv, TypeOK
<1>9. ASSUME NEW k \in Calls, SelectExit(k) PROVE BrakeInv'
  BY <1>1, <1>9 DEF SelectExit, BrakeInv, CallInv, TypeOK
<1>10. ASSUME NEW k \in Calls, Reap(k) PROVE BrakeInv'
  BY <1>1, <1>10 DEF Reap, BrakeInv, CallInv, TypeOK
<1>11. ASSUME NEW k \in Calls, DeferredKill(k) PROVE BrakeInv'
  BY <1>1, <1>11 DEF DeferredKill, BrakeInv, CallInv, TypeOK
<1>12. ASSUME NEW k \in Calls, Unregister(k) PROVE BrakeInv'
  BY <1>1, <1>12 DEF Unregister, BrakeInv, CallInv, TypeOK
<1>13. ASSUME NEW k \in Calls, WriteCommand(k) PROVE BrakeInv'
  BY <1>1, <1>13 DEF WriteCommand, BrakeInv, CallInv, TypeOK
<1>14. ASSUME NEW k \in Calls, WriteFails(k) PROVE BrakeInv'
  BY <1>1, <1>14 DEF WriteFails, BrakeInv, CallInv, TypeOK
<1>15. ASSUME NEW k \in Calls, ReadFrame(k) PROVE BrakeInv'
  BY <1>1, <1>15 DEF ReadFrame, PipeOpen, BrakeInv, CallInv, TypeOK
<1>16. ASSUME NEW k \in Calls, KillOne(k) PROVE BrakeInv'
  BY <1>1, <1>16 DEF KillOne, BrakeInv, CallInv, TypeOK
<1>17. ASSUME NEW k \in Calls, ContextDone(k) PROVE BrakeInv'
  BY <1>1, <1>17 DEF ContextDone, BrakeInv, CallInv, TypeOK
<1>18. ASSUME NEW k \in Calls, ShellPrints(k) PROVE BrakeInv'
  BY <1>1, <1>18 DEF ShellPrints, BrakeInv, CallInv, TypeOK
<1>19. ASSUME NEW k \in Calls, ShellDies(k) PROVE BrakeInv'
  BY <1>1, <1>19 DEF ShellDies, BrakeInv, CallInv, TypeOK
<1>20. ASSUME NEW k \in Calls, WaitReturns(k) PROVE BrakeInv'
  BY <1>1, <1>20 DEF WaitReturns, BrakeInv, CallInv, TypeOK
<1>21. CASE KillAll
  BY <1>1, <1>21 DEF KillAll, BrakeInv, CallInv, TypeOK
<1>22. CASE BlockAndKillAll
  BY <1>1, <1>22 DEF BlockAndKillAll, BrakeInv, CallInv, TypeOK
<1>23. CASE BrakeReturns
  BY <1>1, <1>23 DEF BrakeReturns, BrakeInv, CallInv, TypeOK
<1>24. CASE UNCHANGED vars
  BY <1>1, <1>24 DEF BrakeInv, CallInv, TypeOK
<1>25. QED
  BY <1>1, <1>2, <1>3, <1>4, <1>5, <1>6, <1>7, <1>8, <1>9, <1>10, <1>11, <1>12, <1>13, <1>14,
     <1>15, <1>16, <1>17, <1>18, <1>19, <1>20, <1>21, <1>22, <1>23, <1>24 DEF Next, RunStep

LEMMA InitIndInv == Init => IndInv
<1>1. Init => BrakeInv
  BY DEF Init, BrakeInv
<1>2. QED
  BY <1>1, InitTypeOK, InitCallInv DEF IndInv

(* The strengthened invariant is inductive. *)
THEOREM Inductive == Spec => []IndInv
<1>1. IndInv /\ [Next]_vars => IndInv'
  BY NextTypeOK, NextCallInv, NextBrakeInv DEF IndInv
<1>2. QED
  BY InitIndInv, <1>1, PTL DEF Spec

LEMMA TightFromIndInv == IndInv => BrakeIsTight
BY DEF IndInv, TypeOK, CallInv, BrakeInv, BrakeIsTight, Unstopped

(* Once BlockAndKillAll has returned no shell holding a command is left alone. *)
THEOREM BrakeTight == Spec => []BrakeIsTight
BY TightFromIndInv, Inductive, PTL

(* Every way out of Run kills or has reaped the shell and unregisters it. *)
THEOREM NoOrphans == Spec => []NothingOutlivesItsCall
<1>1. IndInv => NothingOutlivesItsCall
  BY DEF IndInv, CallInv, NothingOutlivesItsCall
<1>2. QED
  BY <1>1, Inductive, PTL

(* No path of Run receives twice from waitDone. *)
THEOREM SingleReap == Spec => []ReapedOnce
<1>1. IndInv => ReapedOnce
  BY DEF IndInv, CallInv, ReapedOnce
<1>2. QED
  BY <1>1, Inductive, PTL

(* A result is reported only for a complete frame of a shell that has exited. *)
THEOREM OkFramed == Spec => []OkMeansFramed
<1>1. IndInv => OkMeansFramed
  BY DEF IndInv, CallInv, OkMeansFramed
<1>2. QED
  BY <1>1, Inductive, PTL

(* A call that leaves Run answers its caller, and changes nothing else that *)
(* the caller can see.                                                      *)
LEMMA ReturnSeen ==
    ASSUME TypeOK, NEW k \in Calls, NEW r,
           pc' = [pc EXCEPT ![k] = "returned"], outcome' = [outcome EXCEPT ![k] = r]
    PROVE  /\ Phase' = [Phase EXCEPT ![k] = "returned"]
           /\ Result' = [Result EXCEPT ![k] = r]
BY DEF Phase, Result, TypeOK

(* A call that enters Run is seen as running. *)
LEMMA EnterSeen ==
    ASSUME TypeOK, NEW k \in Calls, pc[k] = "idle", pc' = [pc EXCEPT ![k] = "entered"]
    PROVE  Phase' = [Phase EXCEPT ![k] = "running"] /\ Phase[k] = "idle"
<1>1. Phase' = [c \in Calls |-> IF c = k THEN "running" ELSE Phase[c]]
  BY DEF Phase, TypeOK
<1>2. Phase[k] = "idle"
  BY DEF Phase
<1>3. QED
  BY <1>1, <1>2 DEF Phase

(* The initial state, and every step, seen through the contract's variables. *)
LEMMA InitContract == Init => Contract!Init
BY DEF Init, Contract!Init, Unstopped, Phase, Result

LEMMA StepContract ==
    ASSUME IndInv, IndInv', [Next]_vars
    PROVE  [Contract!Next]_(Contract!vars)
<1> DEFINE Goal == [Contract!Next]_(Contract!vars)
<1>1. TypeOK /\ TypeOK' /\ (\A c \in Calls : CallInv(c)) /\ BrakeInv /\ [Next]_vars
  BY DEF IndInv
<1> USE DEF vars, call, shell, brakes, Goto, Answer, Unstopped, Contract!vars
<1>2. ASSUME NEW k \in Calls, Enter(k) PROVE Goal
  <2>1. CASE k \in done
    <3>a. outcome' = [outcome EXCEPT ![k] = "timeout"] /\ pc' = [pc EXCEPT ![k] = "returned"]
      BY <1>1, <1>2, <2>1 DEF Enter, CallInv, TypeOK
    <3>b. Phase' = [Phase EXCEPT ![k] = "returned"] /\ Result' = [Result EXCEPT ![k] = "timeout"]
      BY <1>1, <3>a, ReturnSeen
    <3>c. Phase[k] # "returned" /\ UNCHANGED <<done, delivered, Unstopped, brake>> /\ k \notin Unstopped
      BY <1>1, <1>2, <2>1 DEF Enter, CallInv, TypeOK, Phase
    <3>d. "timeout" \in Contract!Results /\ ("timeout" = "timeout" => k \in done) /\ ("timeout" = "ok" => k \in delivered)
          /\ ("timeout" = "blocked" => brake # "off" /\ k \notin delivered)
      BY <1>1, <1>2, <2>1 DEF Enter, CallInv, BrakeInv, TypeOK, Contract!Results
    <3>e. Contract!Return(k, "timeout")
      BY <1>1, <3>b, <3>c, <3>d DEF Contract!Return, TypeOK
    <3>f. QED
      BY <3>d, <3>e DEF Contract!Next
  <2>2. CASE k \notin done
    <3>a. pc[k] = "idle" /\ pc' = [pc EXCEPT ![k] = "entered"] /\ outcome' = outcome
      BY <1>2, <2>2 DEF Enter
    <3>b. Phase' = [Phase EXCEPT ![k] = "running"] /\ Phase[k] = "idle"
      BY <1>1, <3>a, EnterSeen
    <3>c. Result' = Result
      BY <1>1, <3>a DEF Result, TypeOK
    <3>1. Phase' = [Phase EXCEPT ![k] = "running"] /\ Result' = Result /\ Phase[k] = "idle"
      BY <3>b, <3>c
    <3>2. Contract!Call(k)
      BY <1>2, <2>2, <3>1 DEF Enter, Contract!Call
    <3>3. QED
      BY <3>2 DEF Contract!Next
  <2>3. QED
    BY <2>1, <2>2
<1>3. ASSUME NEW k \in Calls, CheckBlocked(k) PROVE Goal
  <2>1. CASE blocked
    <3>a. outcome' = [outcome EXCEPT ![k] = "blocked"] /\ pc' = [pc EXCEPT ![k] = "returned"]
      BY <1>1, <1>3, <2>1 DEF CheckBlocked, CallInv, TypeOK
    <3>b. Phase' = [Phase EXCEPT ![k] = "returned"] /\ Result' = [Result EXCEPT ![k] = "blocked"]
      BY <1>1, <3>a, ReturnSeen
    <3>c. Phase[k] # "returned" /\ UNCHANGED <<done, delivered, Unstopped, brake>> /\ k \notin Unstopped
      BY <1>1, <1>3, <2>1 DEF CheckBlocked, CallInv, TypeOK, Phase
    <3>d. "blocked" \in Contract!Results /\ ("blocked" = "timeout" => k \in done) /\ ("blocked" = "ok" => k \in delivered)
          /\ ("blocked" = "blocked" => brake # "off" /\ k \notin delivered)
      BY <1>1, <1>3, <2>1 DEF CheckBlocked, CallInv, BrakeInv, TypeOK, Contract!Results
    <3>e. Contract!Return(k, "blocked")
      BY <1>1, <3>b, <3>c, <3>d DEF Contract!Return, TypeOK
    <3>f. QED
      BY <3>d, <3>e DEF Contract!Next
  <2>2. CASE ~(blocked)
    <3>1. Phase' = Phase /\ Result' = Result
      BY <1>1, <1>3, <2>2 DEF CheckBlocked, Phase, Result, TypeOK
    <3>2. QED
      BY <1>1, <1>3, <2>2, <3>1 DEF CheckBlocked
  <2>3. QED
    BY <2>1, <2>2
<1>4. ASSUME NEW k \in Calls, StartChild(k) PROVE Goal
  <2>1. UNCHANGED Contract!vars
    BY <1>1, <1>4 DEF StartChild, Phase, Result, CallInv, BrakeInv, TypeOK
  <2>2. QED
    BY <2>1 DEF Contract!Next
<1>5. ASSUME NEW k \in Calls, StartFails(k) PROVE Goal
  <2>a. outcome' = [outcome EXCEPT ![k] = "error"] /\ pc' = [pc EXCEPT ![k] = "returned"]
    BY <1>1, <1>5 DEF StartFails, CallInv, TypeOK
  <2>b. Phase' = [Phase EXCEPT ![k] = "returned"] /\ Result' = [Result EXCEPT ![k] = "error"]
    BY <1>1, <2>a, ReturnSeen
  <2>c. Phase[k] # "returned" /\ UNCHANGED <<done, delivered, Unstopped, brake>> /\ k \notin Unstopped
    BY <1>1, <1>5 DEF StartFails, CallInv, TypeOK, Phase
  <2>d. "error" \in Contract!Results /\ ("error" = "timeout" => k \in done) /\ ("error" = "ok" => k \in delivered)
        /\ ("error" = "blocked" => brake # "off" /\ k \notin delivered)
    BY <1>1, <1>5 DEF StartFails, CallInv, BrakeInv, TypeOK, Contract!Results
  <2>e. Contract!Return(k, "error")
    BY <1>1, <2>b, <2>c, <2>d DEF Contract!Return, TypeOK
  <2>f. QED
    BY <2>d, <2>e DEF Contract!Next
<1>6. ASSUME NEW k \in Calls, Register(k) PROVE Goal
  <2>1. UNCHANGED Contract!vars
    BY <1>1, <1>6 DEF Register, Phase, Result, CallInv, BrakeInv, TypeOK
  <2>2. QED
    BY <2>1 DEF Contract!Next
<1>7. ASSUME NEW k \in Calls, SelectContext(k) PROVE Goal
  <2>1. Contract!Stop(k)
    BY <1>1, <1>7 DEF SelectContext, Phase, Result, CallInv, BrakeInv, TypeOK, Contract!Stop
  <2>2. QED
    BY <2>1 DEF Contract!Next
<1>8. ASSUME NEW k \in Calls, SelectFrame(k) PROVE Goal
  <2>1. Contract!Stop(k) \/ UNCHANGED Contract!vars
    BY <1>1, <1>8 DEF SelectFrame, FrameArrived, FrameError, Phase, Result, CallInv, BrakeInv,
       TypeOK, Contract!Stop
  <2>2. QED
    BY <2>1 DEF Contract!Next
<1>9. ASSUME NEW k \in Calls, SelectExit(k) PROVE Goal
  <2>1. UNCHANGED Contract!vars
    BY <1>1, <1>9 DEF SelectExit, Phase, Result, CallInv, BrakeInv, TypeOK
  <2>2. QED
    BY <2>1 DEF Contract!Next
<1>10. ASSUME NEW k \in Calls, Reap(k) PROVE Goal
  <2>1. CASE k \notin active
    <3>a. outcome' = [outcome EXCEPT ![k] = "blocked"] /\ pc' = [pc EXCEPT ![k] = "returned"]
      BY <1>1, <1>10, <2>1 DEF Reap, CallInv, TypeOK
    <3>b. Phase' = [Phase EXCEPT ![k] = "returned"] /\ Result' = [Result EXCEPT ![k] = "blocked"]
      BY <1>1, <3>a, ReturnSeen
    <3>c. Phase[k] # "returned" /\ UNCHANGED <<done, delivered, Unstopped, brake>> /\ k \notin Unstopped
      BY <1>1, <1>10, <2>1 DEF Reap, CallInv, TypeOK, Phase
    <3>d. "blocked" \in Contract!Results /\ ("blocked" = "timeout" => k \in done) /\ ("blocked" = "ok" => k \in delivered)
          /\ ("blocked" = "blocked" => brake # "off" /\ k \notin delivered)
      BY <1>1, <1>10, <2>1 DEF Reap, CallInv, BrakeInv, TypeOK, Contract!Results
    <3>e. Contract!Return(k, "blocked")
      BY <1>1, <3>b, <3>c, <3>d DEF Contract!Return, TypeOK
    <3>f. QED
      BY <3>d, <3>e DEF Contract!Next
  <2>2. CASE ~(k \notin active)
    <3>1. Phase' = Phase /\ Result' = Result
      BY <1>1, <1>10, <2>2 DEF Reap, Phase, Result, TypeOK
    <3>2. QED
      BY <1>1, <1>10, <2>2, <3>1 DEF Reap
  <2>3. QED
    BY <2>1, <2>2
<1>11. ASSUME NEW k \in Calls, DeferredKill(k) PROVE Goal
  <2>1. Contract!Stop(k)
    BY <1>1, <1>11 DEF DeferredKill, Phase, Result, CallInv, BrakeInv, TypeOK, Contract!Stop
  <2>2. QED
    BY <2>1 DEF Contract!Next
<1>12. ASSUME NEW k \in Calls, Unregister(k) PROVE Goal
  <2>a. outcome' = [outcome EXCEPT ![k] = outcome[k]] /\ pc' = [pc EXCEPT ![k] = "returned"]
    BY <1>1, <1>12 DEF Unregister, CallInv, TypeOK
  <2>b. Phase' = [Phase EXCEPT ![k] = "returned"] /\ Result' = [Result EXCEPT ![k] = outcome[k]]
    BY <1>1, <2>a, ReturnSeen
  <2>c. Phase[k] # "returned" /\ UNCHANGED <<done, delivered, Unstopped, brake>> /\ k \notin Unstopped
    BY <1>1, <1>12 DEF Unregister, CallInv, TypeOK, Phase
  <2>d. outcome[k] \in Contract!Results /\ (outcome[k] = "timeout" => k \in done) /\ (outcome[k] = "ok" => k \in delivered)
        /\ (outcome[k] = "blocked" => brake # "off" /\ k \notin delivered)
    BY <1>1, <1>12 DEF Unregister, CallInv, BrakeInv, TypeOK, Contract!Results
  <2>e. Contract!Return(k, outcome[k])
    BY <1>1, <2>b, <2>c, <2>d DEF Contract!Return, TypeOK
  <2>f. QED
    BY <2>d, <2>e DEF Contract!Next
<1>13. ASSUME NEW k \in Calls, WriteCommand(k) PROVE Goal
  <2>1. Contract!Execute(k)
    BY <1>1, <1>13 DEF WriteCommand, Phase, Result, CallInv, BrakeInv, TypeOK, Contract!Execute
  <2>2. QED
    BY <2>1 DEF Contract!Next
<1>14. ASSUME NEW k \in Calls, WriteFails(k) PROVE Goal
  <2>1. UNCHANGED Contract!vars
    BY <1>1, <1>14 DEF WriteFails, Phase, Result, CallInv, BrakeInv, TypeOK
  <2>2. QED
    BY <2>1 DEF Contract!Next
<1>15. ASSUME NEW k \in Calls, ReadFrame(k) PROVE Goal
  <2>1. UNCHANGED Contract!vars
    BY <1>1, <1>15 DEF ReadFrame, PipeOpen, Phase, Result, CallInv, BrakeInv, TypeOK
  <2>2. QED
    BY <2>1 DEF Contract!Next
<1>16. ASSUME NEW k \in Calls, KillOne(k) PROVE Goal
  <2>1. Contract!Stop(k)
    BY <1>1, <1>16 DEF KillOne, Phase, Result, CallInv, BrakeInv, TypeOK, Contract!Stop
  <2>2. QED
    BY <2>1 DEF Contract!Next
<1>17. ASSUME NEW k \in Calls, ContextDone(k) PROVE Goal
  <2>1. Contract!ContextDone(k)
    BY <1>1, <1>17 DEF ContextDone, Phase, Result, CallInv, BrakeInv, TypeOK, Contract!ContextDone
  <2>2. QED
    BY <2>1 DEF Contract!Next
<1>18. ASSUME NEW k \in Calls, ShellPrints(k) PROVE Goal
  <2>1. UNCHANGED Contract!vars
    BY <1>1, <1>18 DEF ShellPrints, Phase, Result, CallInv, BrakeInv, TypeOK
  <2>2. QED
    BY <2>1 DEF Contract!Next
<1>19. ASSUME NEW k \in Calls, ShellDies(k) PROVE Goal
  <2>1. Contract!Stop(k)
    BY <1>1, <1>19 DEF ShellDies, Phase, Result, CallInv, BrakeInv, TypeOK, Contract!Stop
  <2>2. QED
    BY <2>1 DEF Contract!Next
<1>20. ASSUME NEW k \in Calls, WaitReturns(k) PROVE Goal
  <2>1. UNCHANGED Contract!vars
    BY <1>1, <1>20 DEF WaitReturns, Phase, Result, CallInv, BrakeInv, TypeOK
  <2>2. QED
    BY <2>1 DEF Contract!Next
<1>21. ASSUME KillAll PROVE Goal
  <2>1. UNCHANGED Contract!vars
    BY <1>1, <1>21 DEF KillAll, Phase, Result, CallInv, BrakeInv, TypeOK
  <2>2. QED
    BY <2>1 DEF Contract!Next
<1>22. ASSUME BlockAndKillAll PROVE Goal
  <2>1. Contract!Pull \/ UNCHANGED Contract!vars
    BY <1>1, <1>22 DEF BlockAndKillAll, Phase, Result, CallInv, BrakeInv, TypeOK, Contract!Pull
  <2>2. QED
    BY <2>1 DEF Contract!Next
<1>23. ASSUME BrakeReturns PROVE Goal
  <2>1. Contract!TakeEffect
    BY <1>1, <1>23 DEF BrakeReturns, Phase, Result, CallInv, BrakeInv, TypeOK, Contract!TakeEffect
  <2>2. QED
    BY <2>1 DEF Contract!Next
<1>24. CASE UNCHANGED vars
  BY <1>24 DEF Phase, Result
<1>25. QED
  BY <1>1, <1>2, <1>3, <1>4, <1>5, <1>6, <1>7, <1>8, <1>9, <1>10, <1>11, <1>12, <1>13, <1>14,
     <1>15, <1>16, <1>17, <1>18, <1>19, <1>20, <1>21, <1>22, <1>23, <1>24 DEF Next, RunStep

(* Run and BlockAndKillAll implement the contract the job manager and the *)
(* handlers rely on.                                                      *)
THEOREM Refinement == Spec => KeepsContract
BY InitContract, StepContract, Inductive, PTL DEF Spec, KeepsContract, Contract!Spec
=============================================================================
