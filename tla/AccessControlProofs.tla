------------------------- MODULE AccessControlProofs -------------------------
(***************************************************************************)
(* Proofs about the rate limiter and the middleware, for any number of     *)
(* requests and addresses and any limits.                                  *)
(***************************************************************************)
EXTENDS AccessControl, TLAPS

-----------------------------------------------------------------------------
(* The rate limiter. *)

LimiterTypeOK ==
    /\ clock \in Nat /\ mark \in 0..clock
    /\ reading \in [Requests -> 0..clock \cup {NotRead}]
    /\ buckets \subseteq Addresses
    /\ tokens \in [Addresses -> Int]
    /\ last \in [Addresses -> 0..clock]
    /\ spent \in [Addresses -> Nat]

(* A reading that is still to be used is at most MaxLag old. *)
ReadingsAreFresh ==
    \A c \in Requests : reading[c] # NotRead => clock <= reading[c] + MaxLag

(* What a bucket has at its last reading, together with what was spent in    *)
(* the window: the tokens never exceed the burst, are not in debt at the     *)
(* present time, and their sum with what was spent is paid for by the burst  *)
(* and the time since the earliest reading the window can have seen.  A      *)
(* bucket that was last used before that has spent nothing in the window.    *)
Account(ip) ==
    /\ ip \notin buckets => spent[ip] = 0
    /\ ip \in buckets =>
          /\ tokens[ip] <= Capacity
          /\ tokens[ip] + (clock - last[ip]) >= 0
          /\ IF last[ip] + MaxLag >= mark
             THEN spent[ip] + tokens[ip] <= Capacity + (last[ip] - mark) + MaxLag
             ELSE spent[ip] = 0

LimiterInv == LimiterTypeOK /\ ReadingsAreFresh /\ \A ip \in Addresses : Account(ip)

(* Every step of the limiter keeps its books in order. *)
LEMMA LimiterStep == LimiterInv /\ [LimiterNext]_limiter => LimiterInv'
<1> SUFFICES ASSUME LimiterInv, [LimiterNext]_limiter PROVE LimiterInv'
  OBVIOUS
<1> USE LimiterAssumption DEF NotRead
<1>0. LimiterTypeOK /\ ReadingsAreFresh /\ \A ip \in Addresses : Account(ip)
  BY DEF LimiterInv
<1>1. ASSUME NEW c \in Requests, ReadClock(c) PROVE LimiterInv'
  <2>1. LimiterTypeOK'
    BY <1>0, <1>1 DEF ReadClock, LimiterTypeOK
  <2>2. ReadingsAreFresh'
    BY <1>0, <1>1 DEF ReadClock, LimiterTypeOK, ReadingsAreFresh
  <2>3. \A ip \in Addresses : Account(ip)'
    BY <1>0, <1>1 DEF ReadClock, Account
  <2> QED BY <2>1, <2>2, <2>3 DEF LimiterInv
<1>2. ASSUME NEW c \in Requests, NEW i \in Addresses, NEW allowed \in BOOLEAN, Allow(c, i, allowed)
      PROVE LimiterInv'
  <2> DEFINE now == reading[c]
             full == Refill(i, now)
  <2>0. /\ clock \in Nat /\ mark \in 0..clock /\ now \in 0..clock
        /\ clock <= now + MaxLag
        /\ tokens[i] \in Int /\ last[i] \in 0..clock /\ spent[i] \in Nat
    BY <1>0, <1>2 DEF Allow, LimiterTypeOK, ReadingsAreFresh
  <2>1. /\ full \in Int /\ full <= Capacity
        /\ i \in buckets => full <= tokens[i] + (now - last[i])
        /\ i \in buckets /\ full # Capacity => full = tokens[i] + (now - last[i])
        /\ i \notin buckets => full = Capacity
    BY <2>0 DEF Refill
  <2> HIDE DEF full
  <2>2. /\ tokens'[i] \in Int /\ last'[i] = now /\ spent'[i] \in Nat
        /\ spent'[i] + tokens'[i] = spent[i] + full
        /\ tokens'[i] <= full
        /\ tokens'[i] = full \/ tokens'[i] >= 0
        /\ i \in buckets'
    <3>1. CASE allowed
      <4>1. full >= Cost
        BY <1>2, <3>1 DEF Allow, full
      <4>2. tokens'[i] = full - Cost /\ last'[i] = now /\ spent'[i] = spent[i] + Cost /\ i \in buckets'
        BY <1>0, <1>2, <3>1 DEF Allow, NewLast, LimiterTypeOK, full
      <4> QED BY <4>1, <4>2, <2>0, <2>1
    <3>2. CASE ~allowed
      <4>2. tokens'[i] = full /\ last'[i] = now /\ spent'[i] = spent[i] /\ i \in buckets'
        BY <1>0, <1>2, <3>2 DEF Allow, NewLast, LimiterTypeOK, full
      <4> QED BY <4>2, <2>0, <2>1
    <3> QED BY <3>1, <3>2
  <2>3. LimiterTypeOK'
    <3>1. tokens' \in [Addresses -> Int] /\ spent' \in [Addresses -> Nat]
      BY <1>0, <1>2, <2>2 DEF Allow, LimiterTypeOK
    <3>2. last' \in [Addresses -> 0..clock]
      BY <1>0, <1>2, <2>0 DEF Allow, NewLast, LimiterTypeOK
    <3>3. reading' \in [Requests -> 0..clock \cup {NotRead}] /\ buckets' \subseteq Addresses
      BY <1>0, <1>2 DEF Allow, LimiterTypeOK
    <3> QED BY <1>0, <1>2, <3>1, <3>2, <3>3 DEF Allow, LimiterTypeOK
  <2>4. ReadingsAreFresh'
    BY <1>0, <1>2 DEF Allow, LimiterTypeOK, ReadingsAreFresh
  <2>5. ASSUME NEW ip \in Addresses PROVE Account(ip)'
    <3>1. CASE ip = i
      <4>1. Account(i)
        BY <1>0
      <4>2. clock' = clock /\ mark' = mark
        BY <1>2 DEF Allow
      <4>3. tokens'[i] + (clock - now) >= 0
        BY <2>0, <2>1, <2>2, <4>1 DEF Account
      <4>4. spent[i] + full <= Capacity + (now - mark) + MaxLag
        BY <2>0, <2>1, <4>1 DEF Account
      <4> QED BY <3>1, <4>2, <4>3, <4>4, <2>0, <2>1, <2>2 DEF Account
    <3>2. CASE ip # i
      <4>1. /\ tokens'[ip] = tokens[ip] /\ last'[ip] = last[ip] /\ spent'[ip] = spent[ip]
            /\ (ip \in buckets') = (ip \in buckets)
            /\ clock' = clock /\ mark' = mark
        BY <1>0, <1>2, <3>2 DEF Allow, LimiterTypeOK
      <4> QED BY <1>0, <4>1 DEF Account
    <3> QED BY <3>1, <3>2
  <2> QED BY <2>3, <2>4, <2>5 DEF LimiterInv
<1>3. ASSUME Tick PROVE LimiterInv'
  <2>1. LimiterTypeOK'
    BY <1>0, <1>3 DEF Tick, LimiterTypeOK
  <2>2. ReadingsAreFresh'
    BY <1>0, <1>3 DEF Tick, LimiterTypeOK, ReadingsAreFresh
  <2>3. ASSUME NEW ip \in Addresses PROVE Account(ip)'
    <3>1. Account(ip)
      BY <1>0
    <3>2. tokens[ip] \in Int /\ last[ip] \in Int /\ clock \in Nat
      BY <1>0 DEF LimiterTypeOK
    <3> QED BY <1>3, <3>1, <3>2 DEF Tick, Account
  <2> QED BY <2>1, <2>2, <2>3 DEF LimiterInv
<1>4. ASSUME Mark PROVE LimiterInv'
  <2>1. LimiterTypeOK'
    BY <1>0, <1>4 DEF Mark, LimiterTypeOK
  <2>2. ReadingsAreFresh'
    BY <1>0, <1>4 DEF Mark, ReadingsAreFresh
  <2>3. ASSUME NEW ip \in Addresses PROVE Account(ip)'
    <3>1. Account(ip)
      BY <1>0
    <3>2. tokens[ip] \in Int /\ last[ip] \in 0..clock /\ clock \in Nat
      BY <1>0 DEF LimiterTypeOK
    <3>3. spent'[ip] = 0 /\ mark' = clock
      BY <1>4 DEF Mark
    <3> QED BY <1>4, <3>1, <3>2, <3>3 DEF Mark, Account
  <2> QED BY <2>1, <2>2, <2>3 DEF LimiterInv
<1>5. ASSUME NewRateLimiter PROVE LimiterInv'
  <2>1. LimiterTypeOK'
    BY <1>0, <1>5 DEF NewRateLimiter, LimiterTypeOK
  <2>2. ReadingsAreFresh'
    BY <1>0, <1>5 DEF NewRateLimiter, ReadingsAreFresh
  <2>3. \A ip \in Addresses : Account(ip)'
    BY <1>5 DEF NewRateLimiter, Account
  <2> QED BY <2>1, <2>2, <2>3 DEF LimiterInv
<1>6. ASSUME UNCHANGED limiter PROVE LimiterInv'
  BY <1>0, <1>6 DEF limiter, LimiterInv, LimiterTypeOK, ReadingsAreFresh, Account
<1> QED BY <1>1, <1>2, <1>3, <1>4, <1>5, <1>6 DEF LimiterNext

LEMMA LimiterInitially == LimiterInit => LimiterInv
BY LimiterAssumption DEF LimiterInit, LimiterInv, LimiterTypeOK, ReadingsAreFresh, Account, NotRead

LEMMA LimiterConsequences == LimiterInv => RateHolds /\ PatienceIsRewarded
<1> SUFFICES ASSUME LimiterInv PROVE RateHolds /\ PatienceIsRewarded
  OBVIOUS
<1>1. ASSUME NEW ip \in Addresses
      PROVE /\ spent[ip] <= Capacity + (clock - mark) + MaxLag
            /\ Refill(ip, clock + Cost) >= Cost
  <2>1. /\ Account(ip) /\ clock \in Nat /\ mark \in 0..clock
        /\ tokens[ip] \in Int /\ last[ip] \in 0..clock /\ spent[ip] \in Nat
    BY DEF LimiterInv, LimiterTypeOK
  <2> QED BY <2>1, LimiterAssumption DEF Account, Refill
<1> QED BY <1>1 DEF RateHolds, PatienceIsRewarded

LEMMA LimiterInvariant == LimiterSpec => []LimiterInv
BY LimiterInitially, LimiterStep, PTL DEF LimiterSpec

(* The rate limit holds in every window of time, for every rate, burst and   *)
(* lag of the clock readings.                                                *)
THEOREM RateTheorem == LimiterSpec => []RateHolds
BY LimiterInvariant, LimiterConsequences, PTL

(* Late clock readings leave no address in lasting debt. *)
THEOREM PatienceTheorem == LimiterSpec => []PatienceIsRewarded
BY LimiterInvariant, LimiterConsequences, PTL

-----------------------------------------------------------------------------
(* The middleware. *)

RequestTypeOK ==
    /\ clock <= MaxClock
    /\ pc \in [Requests -> {"idle", "resolved", "limiting", "authenticating", "logging", "refusing",
                            "serving"}]
    /\ from \in [Requests -> Addresses \cup {None}]
    /\ addr \in [Requests -> Addresses \cup {None}]
    /\ failures \in [Addresses -> 0..Threshold]
    /\ attempts \in [Addresses -> 0..Threshold]
    /\ logged \subseteq Addresses /\ dropped \subseteq Addresses
    /\ own \in [Addresses -> 0..Threshold]

(* A request goes by the address of the machine that sent it. *)
TrueAddress == \A c \in Requests : pc[c] # "idle" => addr[c] \in Addresses /\ from[c] = addr[c]

(* An address has a count below the threshold, which its own failures        *)
(* account for, or an entry that shows the threshold.                        *)
Fair(ip) ==
    /\ failures[ip] < Threshold /\ failures[ip] <= own[ip]
    /\ attempts[ip] = 0 \/ (attempts[ip] = Threshold /\ failures[ip] = 0 /\ own[ip] = Threshold)

Announced(ip) ==
    attempts[ip] # 0 =>
        ip \in logged \cup dropped \/ \E c \in Requests : pc[c] = "logging" /\ addr[c] = ip

IndInv ==
    /\ LimiterInv
    /\ RequestTypeOK
    /\ TrueAddress
    /\ \A ip \in Addresses : Fair(ip)
    /\ \A ip \in Addresses : Announced(ip)

(* The steps that change neither the lists nor what is about to be logged. *)
LEMMA ListsAlone ==
    ASSUME IndInv, LimiterInv', RequestTypeOK', TrueAddress', UNCHANGED lists,
           \A c \in Requests : pc[c] = "logging" => pc'[c] = "logging" /\ addr'[c] = addr[c]
    PROVE  IndInv'
<1>1. \A ip \in Addresses : Fair(ip)'
  BY DEF IndInv, lists, Fair
<1>2. \A ip \in Addresses : Announced(ip)'
  BY DEF IndInv, lists, Announced
<1> QED BY <1>1, <1>2 DEF IndInv

(* The middleware uses the limiter the way its specification says. *)
LEMMA LimiterUse == IndInv /\ [Next]_vars => [LimiterNext]_limiter
<1> SUFFICES ASSUME IndInv, [Next]_vars PROVE [LimiterNext]_limiter
  OBVIOUS
<1>1. ASSUME NEW c \in Requests, RequestStep(c) PROVE [LimiterNext]_limiter
  <2>1. ASSUME NEW allowed \in BOOLEAN, AskLimiter(c, allowed) PROVE LimiterNext
    <3>1. pc[c] = "limiting"
      BY <2>1 DEF AskLimiter, Answer, Goto
    <3>2. addr[c] \in Addresses
      BY <3>1 DEF IndInv, TrueAddress
    <3> QED BY <2>1, <3>2 DEF AskLimiter, LimiterNext
  <2>2. AskClock(c) => LimiterNext
    BY DEF AskClock, LimiterNext
  <2>3. IsBlocked(c) \/ RecordFailure(c) \/ LogBlock(c) \/ Refuse(c) \/ RecordSuccess(c) \/ Serve(c)
        \/ (\E ip \in Addresses : Remove(c, ip)) => UNCHANGED limiter
    BY DEF IsBlocked, RecordFailure, LogBlock, Refuse, RecordSuccess, Serve, Remove
  <2> QED BY <1>1, <2>1, <2>2, <2>3 DEF RequestStep
<1>2. ASSUME NEW c \in Requests, NEW sender \in Addresses, NEW peer \in Addresses,
             NEW header \in Addresses \cup {None}, Arrive(c, sender, peer, header)
      PROVE UNCHANGED limiter
  BY <1>2 DEF Arrive
<1>3. Restart => LimiterNext
  BY DEF Restart, LimiterNext
<1>4. UNCHANGED vars => UNCHANGED limiter
  BY DEF vars
<1> QED BY <1>1, <1>2, <1>3, <1>4 DEF Next, LimiterNext

LEMMA AccessInitially == Init => IndInv
<1> SUFFICES ASSUME Init PROVE IndInv
  OBVIOUS
<1>1. LimiterInv
  BY LimiterInitially DEF Init
<1> QED BY <1>1, LimiterAssumption, ThresholdAssumption
        DEF Init, LimiterInit, IndInv, RequestTypeOK, TrueAddress, Fair, Announced

(* Every step of the middleware keeps the invariant. *)
LEMMA AccessStep == IndInv /\ [Next]_vars => IndInv'
<1> SUFFICES ASSUME IndInv, [Next]_vars PROVE IndInv'
  OBVIOUS
<1> USE ThresholdAssumption
<1>0. /\ LimiterInv /\ RequestTypeOK /\ TrueAddress
      /\ \A ip \in Addresses : Fair(ip)
      /\ \A ip \in Addresses : Announced(ip)
  BY DEF IndInv
<1>1. LimiterInv'
  BY LimiterUse, LimiterStep, <1>0
<1>2. ASSUME NEW c \in Requests, NEW here \in {"resolved", "limiting", "refusing", "serving"},
             Answer(c, here), clock' = clock, UNCHANGED lists
      PROVE IndInv'
  <2>1. RequestTypeOK'
    BY <1>0, <1>2 DEF Answer, Goto, RequestTypeOK, lists
  <2>2. TrueAddress'
    BY <1>0, <1>2 DEF Answer, Goto, RequestTypeOK, TrueAddress
  <2>3. \A d \in Requests : pc[d] = "logging" => pc'[d] = "logging" /\ addr'[d] = addr[d]
    BY <1>0, <1>2 DEF Answer, Goto, RequestTypeOK
  <2> QED BY <1>1, <1>2, <2>1, <2>2, <2>3, ListsAlone
<1>3. ASSUME NEW c \in Requests, NEW here \in {"resolved", "limiting"},
             NEW there \in {"limiting", "authenticating"},
             Goto(c, here, there), clock' = clock, UNCHANGED <<from, addr, lists>>
      PROVE IndInv'
  <2>1. RequestTypeOK'
    BY <1>0, <1>3 DEF Goto, RequestTypeOK, lists
  <2>2. TrueAddress'
    BY <1>0, <1>3 DEF Goto, RequestTypeOK, TrueAddress
  <2>3. \A d \in Requests : pc[d] = "logging" => pc'[d] = "logging" /\ addr'[d] = addr[d]
    BY <1>0, <1>3 DEF Goto, RequestTypeOK
  <2> QED BY <1>1, <1>3, <2>1, <2>2, <2>3, ListsAlone
<1>4. ASSUME NEW c \in Requests, IsBlocked(c) PROVE IndInv'
  BY <1>2, <1>3, <1>4 DEF IsBlocked, limiter
<1>5. ASSUME NEW c \in Requests, NEW allowed \in BOOLEAN, AskLimiter(c, allowed) PROVE IndInv'
  BY <1>2, <1>3, <1>5 DEF AskLimiter, Allow
<1>6. ASSUME NEW c \in Requests, Refuse(c) \/ Serve(c) PROVE IndInv'
  BY <1>2, <1>6 DEF Refuse, Serve, limiter
<1>7. ASSUME UNCHANGED <<requests, lists>>, clock' <= MaxClock PROVE IndInv'
  <2>1. RequestTypeOK' /\ TrueAddress'
    BY <1>0, <1>7 DEF RequestTypeOK, TrueAddress, requests, lists
  <2>2. \A d \in Requests : pc[d] = "logging" => pc'[d] = "logging" /\ addr'[d] = addr[d]
    BY <1>7 DEF requests
  <2> QED BY <1>1, <1>7, <2>1, <2>2, ListsAlone
<1>8. ASSUME NEW c \in Requests, AskClock(c) PROVE IndInv'
  BY <1>0, <1>7, <1>8 DEF AskClock, ReadClock, RequestTypeOK
<1>9. ASSUME (Tick \/ Mark) /\ UNCHANGED <<requests, lists>> PROVE IndInv'
  BY <1>0, <1>7, <1>9, LimiterAssumption DEF Tick, Mark, RequestTypeOK, LimiterInv, LimiterTypeOK
<1>10. ASSUME NEW c \in Requests, NEW sender \in Addresses, NEW peer \in Addresses,
              NEW header \in Addresses \cup {None}, Arrive(c, sender, peer, header)
       PROVE IndInv'
  <2>1. Resolve(peer, header) = sender
    BY <1>10 DEF Arrive, Resolve
  <2>2. RequestTypeOK'
    BY <1>0, <1>10, <2>1 DEF Arrive, Goto, RequestTypeOK, lists, limiter
  <2>3. TrueAddress'
    BY <1>0, <1>10, <2>1 DEF Arrive, Goto, RequestTypeOK, TrueAddress
  <2>4. \A d \in Requests : pc[d] = "logging" => pc'[d] = "logging" /\ addr'[d] = addr[d]
    BY <1>0, <1>10 DEF Arrive, Goto, RequestTypeOK
  <2> QED BY <1>1, <1>10, <2>2, <2>3, <2>4, ListsAlone DEF Arrive
<1>11. ASSUME NEW c \in Requests, RecordFailure(c) PROVE IndInv'
  <2> DEFINE i == addr[c]
             count == Count(i)
  <2>1. pc[c] = "authenticating" /\ i \in Addresses /\ from[c] = i
    BY <1>0, <1>11 DEF RecordFailure, Goto, TrueAddress
  <2>2. /\ Fair(i) /\ failures[i] \in 0..Threshold /\ attempts[i] \in 0..Threshold
        /\ own[i] \in 0..Threshold
    BY <1>0, <2>1 DEF RequestTypeOK
  <2>3. count \in 1..Threshold /\ (attempts[i] # 0 => count = Threshold)
        /\ (count < Threshold => attempts[i] = 0 /\ count <= own[i] + 1)
        /\ (count = Threshold => own[i] + 1 >= Threshold)
    BY <2>1, <2>2 DEF Count, Blocked, Fair
  <2>4. /\ failures' = [failures EXCEPT ![i] = IF count >= Threshold THEN 0 ELSE count]
        /\ attempts' = [attempts EXCEPT ![i] = IF count >= Threshold THEN count ELSE attempts[i]]
        /\ own' = [own EXCEPT ![i] = IF own[i] < Threshold THEN own[i] + 1 ELSE own[i]]
        /\ pc' = [pc EXCEPT ![c] = IF count >= Threshold THEN "logging" ELSE "refusing"]
        /\ UNCHANGED <<from, addr, logged, dropped, clock>>
    BY <1>11, <2>1, <1>0 DEF RecordFailure, Tripped, Goto, limiter, RequestTypeOK
  <2> HIDE DEF count
  <2>5. RequestTypeOK'
    BY <1>0, <2>1, <2>2, <2>3, <2>4 DEF RequestTypeOK
  <2>6. TrueAddress'
    BY <1>0, <2>1, <2>4 DEF RequestTypeOK, TrueAddress
  <2>7. ASSUME NEW ip \in Addresses PROVE Fair(ip)'
    <3>1. CASE ip = i
      <4>1. failures'[i] = (IF count >= Threshold THEN 0 ELSE count)
            /\ attempts'[i] = (IF count >= Threshold THEN count ELSE attempts[i])
            /\ own'[i] = (IF own[i] < Threshold THEN own[i] + 1 ELSE own[i])
        BY <1>0, <2>1, <2>4 DEF RequestTypeOK
      <4> QED BY <2>2, <2>3, <3>1, <4>1 DEF Fair
    <3>2. CASE ip # i
      BY <1>0, <2>4, <3>2 DEF RequestTypeOK, Fair
    <3> QED BY <3>1, <3>2
  <2>8. ASSUME NEW ip \in Addresses PROVE Announced(ip)'
    <3>1. CASE ip = i /\ count >= Threshold
      <4>1. pc'[c] = "logging" /\ addr'[c] = ip
        BY <1>0, <2>4, <3>1 DEF RequestTypeOK
      <4> QED BY <4>1 DEF Announced
    <3>2. CASE ip # i \/ ~(count >= Threshold)
      <4>1. attempts'[ip] = attempts[ip]
        BY <1>0, <2>1, <2>4, <3>2 DEF RequestTypeOK
      <4>2. \A d \in Requests : pc[d] = "logging" => pc'[d] = "logging" /\ addr'[d] = addr[d]
        BY <1>0, <2>1, <2>4 DEF RequestTypeOK
      <4> QED BY <1>0, <2>4, <4>1, <4>2 DEF Announced
    <3> QED BY <3>1, <3>2
  <2> QED BY <1>1, <2>5, <2>6, <2>7, <2>8 DEF IndInv
<1>12. ASSUME NEW c \in Requests, LogBlock(c) PROVE IndInv'
  <2>1. pc[c] = "logging" /\ addr[c] \in Addresses
    BY <1>0, <1>12 DEF LogBlock, Goto, TrueAddress
  <2>2. RequestTypeOK' /\ TrueAddress'
    BY <1>0, <1>12, <2>1 DEF LogBlock, Goto, RequestTypeOK, TrueAddress, limiter
  <2>3. \A ip \in Addresses : Fair(ip)'
    BY <1>0, <1>12 DEF LogBlock, Fair
  <2>4. ASSUME NEW ip \in Addresses PROVE Announced(ip)'
    <3>1. Announced(ip)
      BY <1>0
    <3>2. \A d \in Requests : pc[d] = "logging" /\ d # c => pc'[d] = "logging" /\ addr'[d] = addr[d]
      BY <1>0, <1>12 DEF LogBlock, Goto, RequestTypeOK
    <3>3. /\ logged \subseteq logged' /\ dropped \subseteq dropped' /\ attempts' = attempts
          /\ addr[c] \in logged' \cup dropped'
      BY <1>12 DEF LogBlock
    <3> QED BY <3>1, <3>2, <3>3 DEF Announced
  <2> QED BY <1>1, <2>2, <2>3, <2>4 DEF IndInv
<1>13. ASSUME NEW c \in Requests, RecordSuccess(c) PROVE IndInv'
  <2> DEFINE i == addr[c]
  <2>1. pc[c] = "authenticating" /\ i \in Addresses
    BY <1>0, <1>13 DEF RecordSuccess, Goto, TrueAddress
  <2>2. RequestTypeOK' /\ TrueAddress'
    BY <1>0, <1>13, <2>1 DEF RecordSuccess, Goto, RequestTypeOK, TrueAddress, limiter
  <2>3. ASSUME NEW ip \in Addresses PROVE Fair(ip)'
    <3>1. Fair(ip) /\ own[ip] \in 0..Threshold /\ failures[ip] \in 0..Threshold
      BY <1>0 DEF RequestTypeOK
    <3>2. CASE ip = i
      <4>1. /\ failures'[ip] = 0 /\ attempts'[ip] = attempts[ip]
            /\ own'[ip] = IF attempts[ip] # 0 THEN own[ip] ELSE 0
        BY <1>0, <1>13, <2>1, <3>2 DEF RecordSuccess, Blocked, RequestTypeOK
      <4> QED BY <3>1, <4>1 DEF Fair
    <3>3. CASE ip # i
      BY <1>0, <1>13, <3>1, <3>3 DEF RecordSuccess, RequestTypeOK, Fair
    <3> QED BY <3>2, <3>3
  <2>4. \A d \in Requests : pc[d] = "logging" => pc'[d] = "logging" /\ addr'[d] = addr[d]
    BY <1>0, <1>13, <2>1 DEF RecordSuccess, Goto, RequestTypeOK
  <2>5. \A ip \in Addresses : Announced(ip)'
    BY <1>0, <1>13, <2>4 DEF RecordSuccess, Announced
  <2> QED BY <1>1, <2>2, <2>3, <2>5 DEF IndInv
<1>14. ASSUME NEW c \in Requests, NEW i \in Addresses, Remove(c, i) PROVE IndInv'
  <2>1. pc[c] = "serving"
    BY <1>14 DEF Remove, Answer, Goto
  <2>2. RequestTypeOK' /\ TrueAddress'
    BY <1>0, <1>14 DEF Remove, Answer, Goto, RequestTypeOK, TrueAddress, limiter
  <2>3. ASSUME NEW ip \in Addresses PROVE Fair(ip)'
    BY <1>0, <1>14 DEF Remove, RequestTypeOK, Fair
  <2>4. \A d \in Requests : pc[d] = "logging" => pc'[d] = "logging" /\ addr'[d] = addr[d]
    BY <1>0, <1>14, <2>1 DEF Remove, Answer, Goto, RequestTypeOK
  <2>5. ASSUME NEW ip \in Addresses PROVE Announced(ip)'
    <3>1. CASE ip = i
      BY <1>0, <1>14, <3>1 DEF Remove, RequestTypeOK, Announced
    <3>2. CASE ip # i
      BY <1>0, <1>14, <2>4, <3>2 DEF Remove, RequestTypeOK, Announced
    <3> QED BY <3>1, <3>2
  <2> QED BY <1>1, <2>2, <2>3, <2>5 DEF IndInv
<1>15. ASSUME Restart PROVE IndInv'
  <2>1. RequestTypeOK' /\ TrueAddress'
    BY <1>0, <1>15 DEF Restart, NewRateLimiter, RequestTypeOK, TrueAddress
  <2>2. \A ip \in Addresses : Fair(ip)' /\ Announced(ip)'
    BY <1>15 DEF Restart, Fair, Announced
  <2> QED BY <1>1, <2>1, <2>2 DEF IndInv
<1>16. ASSUME UNCHANGED vars PROVE IndInv'
  BY <1>0, <1>7, <1>16 DEF vars, limiter, RequestTypeOK
<1>17. ASSUME NEW c \in Requests, RequestStep(c) PROVE IndInv'
  BY <1>4, <1>5, <1>6, <1>8, <1>11, <1>12, <1>13, <1>14, <1>17 DEF RequestStep
<1> QED BY <1>9, <1>10, <1>15, <1>16, <1>17 DEF Next

LEMMA AccessInvariant == Spec => []IndInv
BY AccessInitially, AccessStep, PTL DEF Spec

(* The middleware implements the limiter's specification, so RateTheorem     *)
(* holds for it too.                                                         *)
THEOREM UsesTheLimiter == Spec => LimiterSpec
<1>1. Init => LimiterInit
  BY DEF Init
<1> QED BY <1>1, AccessInvariant, LimiterUse, PTL DEF Spec, LimiterSpec

(* Types of the middleware. *)
THEOREM AccessTypes == Spec => []TypeOK
<1>1. IndInv => TypeOK
  BY LimiterAssumption DEF IndInv, LimiterInv, LimiterTypeOK, RequestTypeOK, TypeOK
<1> QED BY <1>1, AccessInvariant, PTL

(* An entry of the blocklist shows exactly the threshold, whatever requests  *)
(* were in flight when it was made.                                          *)
THEOREM BlockCounts == Spec => []BlockCountIsExact
<1>1. IndInv => BlockCountIsExact
  BY ThresholdAssumption DEF IndInv, Fair, RequestTypeOK, BlockCountIsExact
<1> QED BY <1>1, AccessInvariant, PTL

(* Nobody can put another machine on the blocklist. *)
THEOREM BlocksAreDeserved == Spec => []BlockedForOwnFailures
<1>1. IndInv => BlockedForOwnFailures
  BY DEF IndInv, Fair, Blocked, BlockedForOwnFailures
<1> QED BY <1>1, AccessInvariant, PTL

(* The event of every block has reached the audit log, or was dropped when   *)
(* its Write failed, or is on its way to the log.                            *)
THEOREM BlocksGetLogged == Spec => []BlocksAreLogged
<1>1. IndInv => BlocksAreLogged
  BY DEF IndInv, Announced, Blocked, BlocksAreLogged
<1> QED BY <1>1, AccessInvariant, PTL

(* An entry leaves the blocklist only by a DELETE that was let in with the   *)
(* right token, or with the process.                                         *)
THEOREM Unblocking == Spec => OnlyDeleteUnblocks
<1> DEFINE Lawful == \A ip \in Addresses : attempts[ip] # 0 /\ attempts'[ip] = 0 =>
                        \/ \E c \in Requests : pc[c] = "serving" /\ pc'[c] = "idle"
                        \/ \A c \in Requests : pc'[c] = "idle"
<1>1. IndInv /\ [Next]_vars => [Lawful]_vars
  <2> SUFFICES ASSUME IndInv, Next PROVE Lawful
    OBVIOUS
  <2>1. ASSUME attempts' = attempts PROVE Lawful
    BY <2>1
  <2>2. ASSUME NEW c \in Requests, RecordFailure(c) PROVE Lawful
    <3>1. addr[c] \in Addresses
      BY <2>2 DEF RecordFailure, Goto, IndInv, TrueAddress
    <3>2. \A ip \in Addresses : attempts[ip] # 0 => attempts'[ip] # 0
      BY <2>2, <3>1, ThresholdAssumption DEF RecordFailure, Count, Blocked, Tripped, IndInv, RequestTypeOK
    <3> QED BY <3>2
  <2>3. ASSUME NEW c \in Requests, NEW i \in Addresses, Remove(c, i) PROVE Lawful
    <3>1. pc[c] = "serving" /\ pc'[c] = "idle"
      BY <2>3 DEF Remove, Answer, Goto, IndInv, RequestTypeOK
    <3> QED BY <3>1
  <2>4. Restart => Lawful
    BY DEF Restart
  <2>5. ASSUME NEW c \in Requests, RequestStep(c) PROVE Lawful
    <3>1. \/ IsBlocked(c) \/ AskClock(c) \/ LogBlock(c) \/ Refuse(c) \/ RecordSuccess(c) \/ Serve(c)
          \/ \E allowed \in BOOLEAN : AskLimiter(c, allowed)
          => attempts' = attempts
      BY DEF IsBlocked, AskClock, AskLimiter, LogBlock, Refuse, RecordSuccess, Serve, lists
    <3> QED BY <2>1, <2>2, <2>3, <2>5, <3>1 DEF RequestStep
  <2>6. ASSUME NEW c \in Requests, NEW sender \in Addresses, NEW peer \in Addresses,
               NEW header \in Addresses \cup {None}, Arrive(c, sender, peer, header)
        PROVE attempts' = attempts
    BY <2>6 DEF Arrive, lists
  <2>7. (Tick \/ Mark) /\ UNCHANGED <<requests, lists>> => attempts' = attempts
    BY DEF lists
  <2> HIDE DEF Lawful
  <2> QED BY <2>1, <2>4, <2>5, <2>6, <2>7 DEF Next
<1> QED BY <1>1, AccessInvariant, PTL DEF Spec, OnlyDeleteUnblocks
=============================================================================
