---------------------------- MODULE AccessControl ----------------------------
(***************************************************************************)
(* securityMiddleware (internal/server/server.go) with the client address, *)
(* the blocklist and the token check of internal/security, and DELETE      *)
(* /blocklist.  A request resolves its address, asks the blocklist, then   *)
(* the limiter (module RateLimiter), and compares the token; each call     *)
(* takes a lock of its own, so what one of them saw may be stale at the    *)
(* next.                                                                   *)
(*                                                                         *)
(* Abstractions: a token is right or wrong; a count that is not in the map *)
(* is 0; of the audit events only ip_auto_blocked is kept.  Whether the    *)
(* token is right, and what the request asks for, is chosen when it is     *)
(* looked at.  A slot of Requests is used again after its answer.          *)
(***************************************************************************)
EXTENDS RateLimiter

CONSTANTS
    Proxy,      \* trusted_proxy_ip, also an address
    None,       \* no CF-Connecting-IP header
    Threshold   \* auth_failures_before_block

ASSUME ThresholdAssumption ==
    /\ Threshold \in Nat \ {0}
    /\ Proxy \in Addresses /\ None \notin Addresses

VARIABLES
    pc,        \* where a request is
    from,      \* history: the machine that sent it
    addr,      \* the address it was resolved to
    failures,  \* Blocklist.failures
    attempts,  \* FailedAttempts of an entry of Blocklist.blocked, or 0
    logged,    \* the addresses with an ip_auto_blocked event since they were last removed
    dropped,   \* history: those with such an event that could not be written
    own        \* history: the failures a machine sent itself, up to Threshold

requests == <<pc, from, addr>>
lists == <<failures, attempts, logged, dropped, own>>
vars == <<limiter, requests, lists>>

Init ==
    /\ LimiterInit
    /\ pc = [c \in Requests |-> "idle"]
    /\ from = [c \in Requests |-> None]
    /\ addr = [c \in Requests |-> None]
    /\ failures = [ip \in Addresses |-> 0]
    /\ attempts = [ip \in Addresses |-> 0]
    /\ logged = {} /\ dropped = {}
    /\ own = [ip \in Addresses |-> 0]

Goto(c, here, there) == pc[c] = here /\ pc' = [pc EXCEPT ![c] = there]

(* The answer is sent and the slot is free. *)
Answer(c, here) ==
    /\ Goto(c, here, "idle")
    /\ from' = [from EXCEPT ![c] = None]
    /\ addr' = [addr EXCEPT ![c] = None]

(* Mutant: the header is believed from anybody. *)
MResolve(peer, header) == IF header # None THEN header ELSE peer

(* CF-Connecting-IP counts only when the proxy is the peer. *)
Resolve(peer, header) == IF peer = Proxy /\ header # None THEN header ELSE peer

(* A request comes straight from a machine, which may claim anything, or      *)
(* through the proxy, which says whom it got it from.                         *)
Arrive(c, sender, peer, header) ==
    /\ \/ peer = sender /\ (sender = Proxy => header = None)
       \/ peer = Proxy /\ header = sender
    /\ Goto(c, "idle", "resolved")
    /\ from' = [from EXCEPT ![c] = sender]
    /\ addr' = [addr EXCEPT ![c] = Resolve(peer, header)]
    /\ UNCHANGED <<limiter, lists>>

Blocked == {ip \in Addresses : attempts[ip] # 0}

(* IsBlocked: the connection of a blocked address is closed. *)
IsBlocked(c) ==
    /\ IF addr[c] \in Blocked
       THEN Answer(c, "resolved")
       ELSE Goto(c, "resolved", "limiting") /\ UNCHANGED <<from, addr>>
    /\ UNCHANGED <<limiter, lists>>

(* The limiter's two steps: the clock is read, then Allow gets its mutex. *)
AskClock(c) ==
    /\ pc[c] = "limiting"
    /\ ReadClock(c)
    /\ UNCHANGED <<requests, lists>>

AskLimiter(c, allowed) ==
    /\ Allow(c, addr[c], allowed)
    /\ IF allowed THEN Goto(c, "limiting", "authenticating") /\ UNCHANGED <<from, addr>>
                  ELSE Answer(c, "limiting")
    /\ UNCHANGED lists

(* The count that RecordFailure returns. *)
Count(ip) == IF ip \in Blocked THEN attempts[ip] ELSE failures[ip] + 1

Tripped(count) == count >= Threshold

(* Authenticate fails: RecordFailure, and whether to log a block. *)
RecordFailure(c) ==
    LET ip == addr[c] count == Count(ip) IN
    /\ Goto(c, "authenticating", IF Tripped(count) THEN "logging" ELSE "refusing")
    /\ failures' = [failures EXCEPT ![ip] = IF Tripped(count) THEN 0 ELSE count]
    /\ attempts' = [attempts EXCEPT ![ip] = IF Tripped(count) THEN count ELSE @]
    /\ own' = [own EXCEPT ![from[c]] = IF @ < Threshold THEN @ + 1 ELSE @]
    /\ UNCHANGED <<limiter, from, addr, logged, dropped>>

(* Mutant: the failure count, which is gone by now, decides whether to log. *)
MLogBlock(c) ==
    /\ Goto(c, "logging", "refusing")
    /\ logged' = IF failures[addr[c]] >= Threshold THEN logged \cup {addr[c]} ELSE logged
    /\ UNCHANGED <<limiter, from, addr, failures, attempts, dropped, own>>

(* writeAudit of ip_auto_blocked, which drops the event when Write fails. *)
LogBlock(c) ==
    /\ Goto(c, "logging", "refusing")
    /\ \/ logged' = logged \cup {addr[c]} /\ UNCHANGED dropped
       \/ dropped' = dropped \cup {addr[c]} /\ UNCHANGED logged
    /\ UNCHANGED <<limiter, from, addr, failures, attempts, own>>

(* Mutant: a refused address's bucket is dropped. *)
MRefuse(c) ==
    /\ Answer(c, "refusing")
    /\ buckets' = buckets \ {addr[c]}
    /\ UNCHANGED <<clock, reading, tokens, last, mark, spent, lists>>

(* 401 *)
Refuse(c) == Answer(c, "refusing") /\ UNCHANGED <<limiter, lists>>

RecordSuccess(c) ==
    /\ Goto(c, "authenticating", "serving")
    /\ failures' = [failures EXCEPT ![addr[c]] = 0]
    /\ own' = [own EXCEPT ![addr[c]] = IF addr[c] \in Blocked THEN @ ELSE 0]
    /\ UNCHANGED <<limiter, from, addr, attempts, logged, dropped>>

(* DELETE /blocklist/{ip}: Remove. *)
Remove(c, ip) ==
    /\ Answer(c, "serving")
    /\ failures' = [failures EXCEPT ![ip] = 0]
    /\ attempts' = [attempts EXCEPT ![ip] = 0]
    /\ logged' = logged \ {ip} /\ dropped' = dropped \ {ip}
    /\ own' = [own EXCEPT ![ip] = 0]
    /\ UNCHANGED limiter

(* The other handlers leave the lists alone. *)
Serve(c) == Answer(c, "serving") /\ UNCHANGED <<limiter, lists>>

(* The agent is restarted: the lists and the buckets live in memory only. *)
Restart ==
    /\ NewRateLimiter
    /\ pc' = [c \in Requests |-> "idle"]
    /\ from' = [c \in Requests |-> None]
    /\ addr' = [c \in Requests |-> None]
    /\ failures' = [ip \in Addresses |-> 0]
    /\ attempts' = [ip \in Addresses |-> 0]
    /\ logged' = {} /\ dropped' = {}
    /\ own' = [ip \in Addresses |-> 0]

RequestStep(c) ==
    \/ IsBlocked(c) \/ AskClock(c)
    \/ \E allowed \in BOOLEAN : AskLimiter(c, allowed)
    \/ RecordFailure(c) \/ LogBlock(c) \/ Refuse(c) \/ RecordSuccess(c) \/ Serve(c)
    \/ \E ip \in Addresses : Remove(c, ip)

Next ==
    \/ \E c \in Requests : RequestStep(c)
    \/ \E c \in Requests, sender, peer \in Addresses, header \in Addresses \cup {None} :
          Arrive(c, sender, peer, header)
    \/ (Tick \/ Mark) /\ UNCHANGED <<requests, lists>>
    \/ Restart

Spec == Init /\ [][Next]_vars

-----------------------------------------------------------------------------
(* Types. *)
TypeOK ==
    /\ clock \in 0..MaxClock /\ mark \in 0..clock
    /\ reading \in [Requests -> 0..clock \cup {NotRead}]
    /\ buckets \subseteq Addresses
    /\ tokens \in [Addresses -> Int]
    /\ last \in [Addresses -> 0..clock]
    /\ spent \in [Addresses -> Nat]
    /\ pc \in [Requests -> {"idle", "resolved", "limiting", "authenticating", "logging", "refusing",
                            "serving"}]
    /\ from \in [Requests -> Addresses \cup {None}]
    /\ addr \in [Requests -> Addresses \cup {None}]
    /\ failures \in [Addresses -> 0..Threshold]
    /\ attempts \in [Addresses -> 0..Threshold]
    /\ logged \subseteq Addresses /\ dropped \subseteq Addresses
    /\ own \in [Addresses -> 0..Threshold]

(* An entry of the blocklist shows exactly the failures that made it, and an  *)
(* address has a count or an entry, never both, although requests that passed *)
(* IsBlocked before the block go on to fail and to succeed after it.          *)
BlockCountIsExact ==
    \A ip \in Addresses : attempts[ip] \in {0, Threshold} /\ failures[ip] * attempts[ip] = 0

(* A machine is blocked only for wrong tokens it sent itself, Threshold of    *)
(* them with no success of its own and no DELETE in between: nobody can put   *)
(* another address on the list.                                               *)
BlockedForOwnFailures ==
    \A ip \in Addresses : ip \in Blocked => own[ip] = Threshold

(* No interleaving loses the audit event of a block: it was written, or its   *)
(* Write failed and writeAudit dropped it, or a request is about to write it. *)
BlocksAreLogged ==
    \A ip \in Blocked :
        ip \in logged \cup dropped \/ \E c \in Requests : pc[c] = "logging" /\ addr[c] = ip

(* An address leaves the list by a DELETE with the right token, sent from an  *)
(* address that was not blocked itself when it was let in, or by a restart.   *)
OnlyDeleteUnblocks ==
    [][\A ip \in Addresses : attempts[ip] # 0 /\ attempts'[ip] = 0 =>
          \/ \E c \in Requests : pc[c] = "serving" /\ pc'[c] = "idle"
          \/ \A c \in Requests : pc'[c] = "idle"]_vars
=============================================================================
