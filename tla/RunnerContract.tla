---------------------------- MODULE RunnerContract ----------------------------
(***************************************************************************)
(* What the one-shot runner promises its callers, the /exec handler and    *)
(* the job manager (internal/powershell/runner.go, Run and                 *)
(* BlockAndKillAll), without saying how:                                   *)
(*   - a call hands its command over at most once and is answered once;    *)
(*     "timeout" only if its context is done, "ok" only if its command was *)
(*     handed to a shell, "blocked" only if the brake was pulled and the   *)
(*     command was never handed over;                                      *)
(*   - no shell that was given a command outlives its call;                *)
(*   - once the brake has been reported effective, no shell holding a      *)
(*     command is left running and no command is handed over any more.     *)
(***************************************************************************)
CONSTANT Calls

VARIABLES
    phase,     \* "idle", "running" or "returned"
    result,    \* the answer, "none" until returned
    done,      \* calls whose context is done
    executed,  \* calls whose command was handed to a shell
    live,      \* of those, the ones whose shell may still be running
    brake      \* "off", "pulled" or "effective"

vars == <<phase, result, done, executed, live, brake>>

Results == {"ok", "timeout", "blocked", "exited", "error"}

Init ==
    /\ phase = [c \in Calls |-> "idle"]
    /\ result = [c \in Calls |-> "none"]
    /\ done = {}
    /\ executed = {}
    /\ live = {}
    /\ brake = "off"

Call(c) ==
    /\ phase[c] = "idle"
    /\ phase' = [phase EXCEPT ![c] = "running"]
    /\ UNCHANGED <<result, done, executed, live, brake>>

ContextDone(c) ==
    /\ done' = done \cup {c}
    /\ UNCHANGED <<phase, result, executed, live, brake>>

(* The shell may be gone by the time the command has reached its pipe. *)
Execute(c) ==
    /\ phase[c] = "running"
    /\ brake # "effective"
    /\ c \notin executed
    /\ executed' = executed \cup {c}
    /\ live' \in {live, live \cup {c}}
    /\ UNCHANGED <<phase, result, done, brake>>

Stop(c) ==
    /\ live' = live \ {c}
    /\ UNCHANGED <<phase, result, done, executed, brake>>

Return(c, r) ==
    /\ phase[c] # "returned"
    /\ c \notin live
    /\ r = "timeout" => c \in done
    /\ r = "blocked" => brake # "off" /\ c \notin executed
    /\ r = "ok" => c \in executed
    /\ phase' = [phase EXCEPT ![c] = "returned"]
    /\ result' = [result EXCEPT ![c] = r]
    /\ UNCHANGED <<done, executed, live, brake>>

Pull ==
    /\ brake = "off"
    /\ brake' = "pulled"
    /\ UNCHANGED <<phase, result, done, executed, live>>

TakeEffect ==
    /\ brake = "pulled"
    /\ live = {}
    /\ brake' = "effective"
    /\ UNCHANGED <<phase, result, done, executed, live>>

Next ==
    \/ \E c \in Calls : Call(c) \/ ContextDone(c) \/ Execute(c) \/ Stop(c)
    \/ \E c \in Calls, r \in Results : Return(c, r)
    \/ Pull
    \/ TakeEffect

Spec == Init /\ [][Next]_vars
=============================================================================
