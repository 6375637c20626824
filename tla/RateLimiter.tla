----------------------------- MODULE RateLimiter -----------------------------
(***************************************************************************)
(* The rate limiter (internal/security/ratelimit.go): one token bucket per *)
(* client address, behind a mutex.  The middleware reads the clock before  *)
(* Allow takes the mutex, so readings may reach the bucket late and out of *)
(* order.                                                                  *)
(*                                                                         *)
(* Abstractions: time is counted in ticks of the (monotonic) clock and     *)
(* tokens in the ticks they take to refill, Cost ticks each, which makes   *)
(* the float64 arithmetic exact.  A reading is at most MaxLag ticks old    *)
(* when it is used.  mark and spent are history: what the addresses have   *)
(* spent since an arbitrary instant.                                       *)
(***************************************************************************)
EXTENDS Integers

CONSTANTS
    Requests,    \* the requests in progress
    Addresses,   \* the client addresses
    Cost,        \* ticks in which one token refills: 1 / rate_limit_per_sec
    Capacity,    \* rate_limit_burst, in ticks
    MaxLag,      \* the longest delay between time.Now() and the mutex
    MaxClock     \* bound: the last instant of a behaviour

(* Config.Validate: the rate and the burst are positive. *)
ASSUME LimiterAssumption ==
    /\ Cost \in Nat \ {0}
    /\ Capacity \in Nat /\ Capacity >= Cost
    /\ MaxLag \in Nat /\ MaxClock \in Nat

VARIABLES
    clock,    \* the time
    reading,  \* the result of a request's time.Now(), or NotRead
    buckets,  \* the addresses that have a bucket
    tokens,   \* its tokens
    last,     \* its last reading
    mark,     \* history: the instant a window of time began
    spent     \* history: what was admitted since then, in ticks

limiter == <<clock, reading, buckets, tokens, last, mark, spent>>

NotRead == -1

LimiterInit ==
    /\ clock = 0
    /\ reading = [c \in Requests |-> NotRead]
    /\ buckets = {}
    /\ tokens = [ip \in Addresses |-> 0]
    /\ last = [ip \in Addresses |-> 0]
    /\ mark = 0
    /\ spent = [ip \in Addresses |-> 0]

(* Mutant: the time between two readings counts whichever came first. *)
MRefill(ip, now) ==
    LET saved == tokens[ip] + (IF now > last[ip] THEN now - last[ip] ELSE last[ip] - now) IN
    IF ip \in buckets /\ saved <= Capacity THEN saved ELSE Capacity

(* The bucket at a reading; elapsed is negative if another request has      *)
(* brought a later one.                                                     *)
Refill(ip, now) ==
    LET saved == tokens[ip] + (now - last[ip]) IN
    IF ip \in buckets /\ saved <= Capacity THEN saved ELSE Capacity

(* Mutant: last never goes back, so a late reading is charged for ever. *)
MNewLast(ip, now) == IF ip \in buckets /\ last[ip] > now THEN last[ip] ELSE now

NewLast(ip, now) == now

(* time.Now(), the argument of Allow. *)
ReadClock(c) ==
    /\ reading[c] = NotRead
    /\ reading' = [reading EXCEPT ![c] = clock]
    /\ UNCHANGED <<clock, buckets, tokens, last, mark, spent>>

(* Allow, under the mutex. *)
Allow(c, ip, allowed) ==
    LET full == Refill(ip, reading[c]) IN
    /\ reading[c] # NotRead
    /\ allowed = (full >= Cost)
    /\ buckets' = buckets \cup {ip}
    /\ tokens' = [tokens EXCEPT ![ip] = IF allowed THEN full - Cost ELSE full]
    /\ last' = [last EXCEPT ![ip] = NewLast(ip, reading[c])]
    /\ spent' = [spent EXCEPT ![ip] = IF allowed THEN @ + Cost ELSE @]
    /\ reading' = [reading EXCEPT ![c] = NotRead]
    /\ UNCHANGED <<clock, mark>>

Tick ==
    /\ clock < MaxClock
    /\ \A c \in Requests : reading[c] # NotRead => clock < reading[c] + MaxLag
    /\ clock' = clock + 1
    /\ UNCHANGED <<reading, buckets, tokens, last, mark, spent>>

(* History: a window of time begins now. *)
Mark ==
    /\ mark' = clock
    /\ spent' = [ip \in Addresses |-> 0]
    /\ UNCHANGED <<clock, reading, buckets, tokens, last>>

(* The agent starts anew, with no buckets. *)
NewRateLimiter ==
    /\ reading' = [c \in Requests |-> NotRead]
    /\ buckets' = {}
    /\ tokens' = [ip \in Addresses |-> 0]
    /\ last' = [ip \in Addresses |-> 0]
    /\ mark' = clock
    /\ spent' = [ip \in Addresses |-> 0]
    /\ UNCHANGED clock

LimiterNext ==
    \/ \E c \in Requests : ReadClock(c)
    \/ \E c \in Requests, ip \in Addresses, allowed \in BOOLEAN : Allow(c, ip, allowed)
    \/ Tick \/ Mark \/ NewRateLimiter

LimiterSpec == LimiterInit /\ [][LimiterNext]_limiter

-----------------------------------------------------------------------------
(* In any window of time an address is admitted at most the burst plus what  *)
(* refills in that time, however late and in whatever order the readings     *)
(* reach the bucket; late readings buy MaxLag at most.                       *)
RateHolds == \A ip \in Addresses : spent[ip] <= Capacity + (clock - mark) + MaxLag

(* Negative elapsed times leave no lasting debt: an address that sends       *)
(* nothing for the time of one token is then admitted.                       *)
PatienceIsRewarded == \A ip \in Addresses : Refill(ip, clock + Cost) >= Cost
=============================================================================
