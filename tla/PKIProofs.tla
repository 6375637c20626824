------------------------------ MODULE PKIProofs ------------------------------
(***************************************************************************)
(* Theorems about the PKI tool, for any number of overlapping runs.        *)
(***************************************************************************)
EXTENDS PKI, TLAPS

(* The sets the variables range over. *)
Types ==
    /\ key \in [Pairs -> Runs \cup {Absent, Torn}]
    /\ cert \in [Pairs -> Runs \cup {Absent, Torn}]
    /\ behind \in Runs \cup {Absent, Torn}
    /\ pc \in [Runs -> {"idle", "statCert", "statKey", "readCert", "readKey", "openKey", "writeKey",
                        "openCert", "writeCert", "writeIssuer", "removeKey"} \cup Ended]
    /\ pair \in [Runs -> Pairs \cup {"none"}]
    /\ forced \subseteq Runs /\ disturbed \subseteq Runs /\ silent \subseteq Runs
    /\ signer \in [Runs -> Runs \cup {Absent, Torn}]
    /\ issuer \in [Runs -> Runs \cup {Absent, Torn}]

(* A run knows what it makes; past loadCA an issue has a CA whose key belongs *)
(* to its certificate.                                                       *)
RunInv(r) ==
    /\ pc[r] # "idle" => pair[r] \in Pairs
    /\ pair[r] = "leaf" /\ pc[r] = "readKey" => issuer[r] \in Runs
    /\ pair[r] = "leaf" /\ pc[r] \in {"openKey", "writeKey", "openCert", "writeCert", "writeIssuer"} =>
          issuer[r] \in Runs /\ signer[r] = issuer[r]
    /\ pc[r] = "writeIssuer" => pair[r] = "leaf"

(* So have the runs that wrote what is in the leaf's file; they do not load    *)
(* another one.                                                              *)
Settled(r) ==
    /\ pc[r] \in Ended \cup {"writeIssuer"}
    /\ issuer[r] \in Runs
    /\ signer[r] = issuer[r]

LeafInv == \A r \in Runs : r = cert["leaf"] \/ r = behind => Settled(r)

IndInv == Types /\ LeafInv /\ \A r \in Runs : RunInv(r)

LEMMA Initially == Init => IndInv
  BY ContentAssumption DEF Init, IndInv, Types, LeafInv, Settled, RunInv, Pairs, Ended

(* Every step keeps the types. *)
LEMMA TypesStep == Types /\ (\A r \in Runs : RunInv(r)) /\ [Next]_vars => Types'
  <1> SUFFICES ASSUME Types, \A r \in Runs : RunInv(r), [Next]_vars PROVE Types'
    OBVIOUS
  <1> USE DEF Types, Pairs, Ended, Keeps, Goto, files, history
  <1>1. ASSUME NEW r \in Runs, NEW p \in Pairs, NEW withForce \in BOOLEAN, Begin(r, p, withForce)
        PROVE  Types'
    <2>1. Rivals(p, withForce) \subseteq Runs
      BY DEF Rivals
    <2> QED BY <1>1, <2>1 DEF Begin, AfterExists
  <1>2. ASSUME NEW r \in Runs, RunStep(r) PROVE Types'
    <2>1. \A what \in Runs \cup {Absent, Torn} :
             /\ Fill(key, r, what) \in [Pairs -> Runs \cup {Absent, Torn}]
             /\ Fill(cert, r, what) \in [Pairs -> Runs \cup {Absent, Torn}]
      BY DEF Fill
    <2>2. CASE StatCert(r) \/ StatKey(r)
      BY <2>2 DEF StatCert, StatKey, AfterExists
    <2>3. CASE ReadCert(r) \/ ReadKey(r)
      BY <2>3 DEF ReadCert, ReadKey
    <2>4. CASE OpenKey(r) \/ OpenCert(r)
      BY <2>1, <2>4 DEF OpenKey, OpenCert, CertFails
    <2>5. CASE WriteKey(r) \/ WriteCert(r) \/ WriteIssuer(r) \/ RemoveKey(r)
      BY <2>1, <2>5 DEF WriteKey, WriteCert, WriteIssuer, RemoveKey
    <2>6. CASE StepFails(r)
      BY <2>6 DEF StepFails, AfterExists, CertFails
    <2>7. CASE WriteFails(r)
      BY <2>1, <2>7 DEF WriteFails, CertFails
    <2>8. CASE ErrorIsShadowed(r) \/ Killed(r)
      BY <2>1, <2>8 DEF ErrorIsShadowed, Killed
    <2> QED BY <1>2, <2>2, <2>3, <2>4, <2>5, <2>6, <2>7, <2>8 DEF RunStep
  <1>3. CASE UNCHANGED vars
    BY <1>3 DEF vars
  <1> QED BY <1>1, <1>2, <1>3 DEF Next

(* Every step keeps what a run knows, and what the leaf's file says. *)
LEMMA RunsStep == IndInv /\ [Next]_vars => LeafInv' /\ \A r \in Runs : RunInv(r)'
  <1> SUFFICES ASSUME IndInv, [Next]_vars PROVE LeafInv' /\ \A r \in Runs : RunInv(r)'
    OBVIOUS
  <1>1. Types /\ LeafInv /\ \A r \in Runs : RunInv(r)
    BY DEF IndInv
  <1> USE DEF Types, Pairs, Ended, Keeps, Goto, files, history
  <1>2. ASSUME NEW r \in Runs, NEW p \in Pairs, NEW withForce \in BOOLEAN, Begin(r, p, withForce)
        PROVE  LeafInv' /\ \A s \in Runs : RunInv(s)'
    <2>1. pc[r] = "idle" /\ UNCHANGED <<key, cert, signer, issuer>>
      BY <1>2 DEF Begin
    <2>2. LeafInv'
      BY <1>1, <1>2, <2>1 DEF Begin, LeafInv, Settled
    <2>3. ASSUME NEW s \in Runs PROVE RunInv(s)'
      <3>1. RunInv(s)
        BY <1>1
      <3>2. CASE s = r
        BY <1>1, <1>2, <2>1, <3>2 DEF Begin, RunInv, AfterExists
      <3>3. CASE s # r
        BY <1>1, <1>2, <2>1, <3>1, <3>3 DEF Begin, RunInv
      <3> QED BY <3>2, <3>3
    <2> QED BY <2>2, <2>3
  <1>3. ASSUME NEW r \in Runs, RunStep(r)
        PROVE  LeafInv' /\ \A s \in Runs : RunInv(s)'
    <2>1. RunInv(r)
      BY <1>1
    <2>2. pair' = pair /\ pc[r] \notin Ended
      BY <1>1, <1>3 DEF RunStep, StatCert, StatKey, ReadCert, ReadKey, OpenKey, WriteKey, OpenCert,
            WriteCert, WriteIssuer, RemoveKey, StepFails, WriteFails, ErrorIsShadowed, Killed
    <2>3. \A s \in Runs \ {r} : pc'[s] = pc[s] /\ signer'[s] = signer[s] /\ issuer'[s] = issuer[s]
      BY <1>1, <1>3 DEF RunStep, StatCert, StatKey, ReadCert, ReadKey, OpenKey, WriteKey, OpenCert,
            WriteCert, WriteIssuer, RemoveKey, StepFails, WriteFails, ErrorIsShadowed, Killed
    <2>4. RunInv(r)'
      BY <1>1, <1>3, <2>1, ContentAssumption DEF RunStep, RunInv, StatCert, StatKey, ReadCert, ReadKey,
            OpenKey, WriteKey, OpenCert, WriteCert, WriteIssuer, RemoveKey, StepFails, WriteFails, ErrorIsShadowed,
            Killed, AfterExists, CertFails, IsWhole, Fits
    <2>5. \A s \in Runs \ {r} : RunInv(s)'
      BY <1>1, <2>2, <2>3 DEF RunInv
    <2>6. ASSUME NEW s \in Runs, s = cert'["leaf"] \/ s = behind' PROVE Settled(s)'
      <3>1. CASE s = r
        <4>1. CASE pc[r] = "writeCert" /\ pair[r] = "leaf"
          <5>1. pc'[r] \in Ended \cup {"writeIssuer"} /\ UNCHANGED <<signer, issuer>>
            BY <1>1, <1>3, <4>1 DEF RunStep, StatCert, StatKey, ReadCert, ReadKey, OpenKey, WriteKey,
                  OpenCert, WriteCert, WriteIssuer, RemoveKey, StepFails, WriteFails, ErrorIsShadowed,
                  Killed, CertFails
          <5> QED BY <2>1, <3>1, <4>1, <5>1 DEF Settled, RunInv
        <4>2. CASE pc[r] = "writeIssuer"
          <5>1. pc'[r] \in Ended /\ UNCHANGED <<signer, issuer>>
            BY <1>1, <1>3, <4>2 DEF RunStep, StatCert, StatKey, ReadCert, ReadKey, OpenKey, WriteKey,
                  OpenCert, WriteCert, WriteIssuer, RemoveKey, StepFails, WriteFails, ErrorIsShadowed,
                  Killed
          <5> QED BY <2>1, <3>1, <4>2, <5>1 DEF Settled, RunInv
        <4>3. CASE pc[r] # "writeIssuer" /\ ~(pc[r] = "writeCert" /\ pair[r] = "leaf")
          <5>1. r # cert["leaf"] /\ r # behind
            BY <1>1, <2>2, <4>3 DEF LeafInv, Settled
          <5>2. cert'["leaf"] \in {cert["leaf"], Torn} /\ behind' \in {behind, Torn}
            BY <1>1, <1>3, <2>1, <4>3 DEF RunInv, RunStep, StatCert, StatKey, ReadCert, ReadKey, OpenKey,
                  WriteKey, OpenCert, WriteCert, WriteIssuer, RemoveKey, StepFails, WriteFails,
                  ErrorIsShadowed, Killed, CertFails, Fill
          <5> QED BY <2>6, <3>1, <5>1, <5>2, ContentAssumption
        <4> QED BY <4>1, <4>2, <4>3
      <3>2. CASE s # r
        <4>1. s = cert["leaf"] \/ s = behind
          <5>1. cert'["leaf"] \in {cert["leaf"], Torn, r} /\ behind' \in {behind, Torn, r}
            BY <1>1, <1>3, <2>1 DEF RunInv, RunStep, StatCert, StatKey, ReadCert, ReadKey, OpenKey,
                  WriteKey, OpenCert, WriteCert, WriteIssuer, RemoveKey, StepFails, WriteFails,
                  ErrorIsShadowed, Killed, CertFails, Fill
          <5> QED BY <2>6, <3>2, <5>1, ContentAssumption
        <4>2. Settled(s)
          BY <1>1, <4>1 DEF LeafInv
        <4> QED BY <2>3, <3>2, <4>2 DEF Settled
      <3> QED BY <3>1, <3>2
    <2>7. LeafInv'
      BY <2>6 DEF LeafInv
    <2> QED BY <2>4, <2>5, <2>7
  <1>4. CASE UNCHANGED vars
    BY <1>1, <1>4 DEF vars, LeafInv, Settled, RunInv
  <1> QED BY <1>2, <1>3, <1>4 DEF Next

LEMMA Invariant == Spec => []IndInv
  <1>1. IndInv /\ [Next]_vars => IndInv'
    BY TypesStep, RunsStep DEF IndInv
  <1> QED BY Initially, <1>1, PTL DEF Spec

-----------------------------------------------------------------------------
(* A run that is under way; one that has its key file open or written. *)
Active(s) == pc[s] \notin Ended \cup {"idle"}
Holding == {"writeKey", "openCert", "writeCert", "writeIssuer", "removeKey"}
Writing == {"writeCert", "writeIssuer"}

(* Beside a run that was not disturbed nobody is under way on its pair who   *)
(* has --force or was disturbed.                                             *)
Apart(r, s) ==
    r # s /\ pair[r] = pair[s] /\ r \notin disturbed /\ pc[r] \notin {"failed", "killed", "idle"} /\ Active(s) =>
        s \notin forced /\ s \notin disturbed

(* Such a run has its files to itself from the moment it opened the key. *)
Sole(r, s) ==
    r # s /\ pair[r] = pair[s] /\ r \notin disturbed /\ pc[r] \in Holding \cup {"ok"} => pc[s] \notin Holding

Owns(r) ==
    r \notin disturbed =>
        /\ pc[r] = "writeKey" => key[pair[r]] # Absent
        /\ pc[r] \in {"openCert", "writeCert", "writeIssuer", "removeKey", "ok"} => key[pair[r]] = r
        /\ pc[r] = "writeCert" /\ pair[r] = "leaf" => behind = Torn
        /\ pc[r] = "writeIssuer" => cert["leaf"] = r
        /\ pc[r] = "ok" => r \in silent \/ (cert[pair[r]] = r /\ (pair[r] = "leaf" => behind = r))

(* While a block of the leaf's file is that of an undisturbed run, nobody else *)
(* has the file open.                                                        *)
Kept(r, s) ==
    r # s /\ r \notin disturbed /\ (cert["leaf"] = r \/ behind = r) =>
        ~(pair[s] = "leaf" /\ pc[s] \in Writing)

(* Two runs have written the leaf's file only if they were disturbed. *)
Mixed ==
    /\ cert["leaf"] \in Runs => pair[cert["leaf"]] = "leaf"
    /\ behind \in Runs => pair[behind] = "leaf"
    /\ cert["leaf"] \in Runs /\ behind \in Runs /\ cert["leaf"] # behind =>
          cert["leaf"] \in disturbed /\ behind \in disturbed

(* A run that has not begun is on no pair and nobody's rival. *)
Fresh(r) == pc[r] = "idle" => pair[r] = "none" /\ r \notin forced /\ r \notin disturbed

FileInv == \A r \in Runs : Fresh(r) /\ Owns(r) /\ \A s \in Runs : Apart(r, s) /\ Sole(r, s)

ChainInv == Mixed /\ \A r, s \in Runs : Kept(r, s)

(* What a run's step can do to its own position and to the files. *)
LEMMA Moves ==
    ASSUME NEW t \in Runs, Types, RunInv(t), RunStep(t)
    PROVE  /\ pair' = pair /\ forced' = forced /\ disturbed' = disturbed /\ silent \subseteq silent'
           /\ Active(t) /\ pair[t] \in Pairs /\ pc'[t] # "idle"
           /\ \A s \in Runs \ {t} : pc'[s] = pc[s]
           /\ \A p \in Pairs \ {pair[t]} : key'[p] = key[p] /\ cert'[p] = cert[p]
           /\ pair[t] # "leaf" => behind' = behind
           /\ \/ pc[t] \in Holding
              \/ key' = key /\ cert' = cert /\ behind' = behind /\ pc'[t] \notin Holding \cup {"ok"}
              \/ /\ pc[t] = "openKey" /\ pc'[t] = "writeKey"
                 /\ t \in forced \/ key[pair[t]] = Absent
                 /\ key'[pair[t]] = Torn
           /\ pc'[t] = "writeKey" => key'[pair[t]] = Torn
           /\ pc'[t] = "openCert" => key'[pair[t]] = t
           /\ pc'[t] \in {"writeCert", "writeIssuer", "removeKey", "ok"} =>
                 pc[t] \in {"openCert", "writeCert", "writeIssuer"} /\ key' = key
           /\ pc'[t] = "writeCert" /\ pair[t] = "leaf" => behind' = Torn
           /\ pc'[t] = "writeIssuer" => cert'["leaf"] = t
           /\ pc'[t] = "ok" =>
                 \/ t \in silent'
                 \/ cert'[pair[t]] = t /\ pair[t] # "leaf"
                 \/ pc[t] = "writeIssuer" /\ cert' = cert /\ behind' = t /\ pair[t] = "leaf"
  <1> USE DEF Types, RunInv, Pairs, Ended, Keeps, Goto, files, history, Active, Holding, Fill
  <1>1. CASE StatCert(t) \/ StatKey(t) \/ StepFails(t)
    BY <1>1 DEF StatCert, StatKey, StepFails, AfterExists, CertFails
  <1>2. CASE ReadCert(t) \/ ReadKey(t)
    BY <1>2 DEF ReadCert, ReadKey
  <1>3. CASE OpenKey(t)
    BY <1>3 DEF OpenKey, MayOpen
  <1>4. CASE OpenCert(t)
    BY <1>4 DEF OpenCert, CertFails
  <1>5. CASE WriteKey(t)
    BY <1>5 DEF WriteKey
  <1>6. CASE WriteCert(t)
    BY <1>6 DEF WriteCert
  <1>6a. CASE WriteIssuer(t)
    BY <1>6a DEF WriteIssuer
  <1>6b. CASE ErrorIsShadowed(t)
    BY <1>6b DEF ErrorIsShadowed
  <1>7. CASE RemoveKey(t) \/ Killed(t)
    BY <1>7 DEF RemoveKey, Killed
  <1>8. CASE WriteFails(t)
    BY <1>8 DEF WriteFails, CertFails
  <1> QED BY <1>1, <1>2, <1>3, <1>4, <1>5, <1>6, <1>6a, <1>6b, <1>7, <1>8 DEF RunStep

(* A new run disturbs whom it may disturb. *)
LEMMA BeginKeepsFiles ==
    ASSUME IndInv, FileInv, NEW t \in Runs, NEW p \in Pairs, NEW withForce \in BOOLEAN,
           Begin(t, p, withForce)
    PROVE  FileInv'
  <1> USE DEF Pairs, Ended, Active, Holding
  <1>1. Types /\ Types'
    BY TypesStep DEF IndInv, Next
  <1>2. /\ pc[t] = "idle" /\ pair[t] = "none" /\ t \notin forced /\ t \notin disturbed
        /\ UNCHANGED <<key, cert, behind, silent>>
        /\ pc'[t] \in {"statCert", "openKey", "readCert"} /\ pair'[t] = p
        /\ \A r \in Runs \ {t} : pc'[r] = pc[r] /\ pair'[r] = pair[r]
    BY <1>1 DEF Begin, FileInv, Fresh, Types, AfterExists, files
  <1>3. /\ disturbed \subseteq disturbed'
        /\ forced' = IF withForce THEN forced \cup {t} ELSE forced
        /\ \A s \in Runs : pair[s] = p /\ withForce => s \in disturbed'
        /\ \A s \in Runs : pair[s] = p /\ Active(s) /\ (withForce \/ s \in forced \/ s \in disturbed) =>
              s \in disturbed' /\ t \in disturbed'
        /\ \A s \in Runs \ {t} : s \in disturbed' /\ s \notin disturbed => pair[s] = p /\ (withForce \/ s \in forced)
        /\ t \in disturbed' /\ t \notin disturbed =>
              \E s \in Runs : pair[s] = p /\ pc[s] \notin Ended /\ (withForce \/ s \in forced \/ s \in disturbed)
    BY <1>2 DEF Begin, Rivals, Over
  <1>4. ASSUME NEW r \in Runs PROVE Owns(r)'
    BY <1>2, <1>3, <1>4 DEF FileInv, Owns
  <1>5. ASSUME NEW r \in Runs, NEW s \in Runs PROVE Sole(r, s)'
    BY <1>2, <1>3, <1>5 DEF FileInv, Sole
  <1>6. ASSUME NEW r \in Runs, NEW s \in Runs PROVE Apart(r, s)'
    <2> SUFFICES ASSUME r # s, pair'[r] = pair'[s], r \notin disturbed', Active(s)',
                        pc'[r] \notin {"failed", "killed", "idle"}
                 PROVE  s \notin forced' /\ s \notin disturbed'
      BY DEF Apart
    <2>1. CASE r = t
      BY <1>2, <1>3, <2>1
    <2>2. CASE s = t
      <3>1. ~withForce /\ t \notin forced /\ pair[r] = p /\ r \notin disturbed
        BY <1>2, <1>3, <2>2 DEF FileInv
      <3>2. ASSUME t \in disturbed' PROVE FALSE
        <4>1. PICK q \in Runs : pair[q] = p /\ pc[q] \notin Ended /\ (q \in forced \/ q \in disturbed)
          BY <1>2, <1>3, <3>1, <3>2
        <4>2. Fresh(q) /\ Apart(r, q)
          BY DEF FileInv
        <4>3. Active(q)
          BY <4>1, <4>2 DEF Fresh
        <4>4. CASE q = r
          BY <1>3, <3>1, <4>1, <4>3, <4>4
        <4>5. CASE q # r
          BY <1>2, <2>2, <3>1, <4>1, <4>2, <4>3, <4>5 DEF Apart
        <4> QED BY <4>4, <4>5
      <3> QED BY <1>2, <1>3, <2>2, <3>1, <3>2
    <2>3. CASE r # t /\ s # t
      BY <1>2, <1>3, <2>3 DEF FileInv, Apart
    <2> QED BY <2>1, <2>2, <2>3
  <1>7. ASSUME NEW r \in Runs PROVE Fresh(r)'
    BY <1>2, <1>3 DEF FileInv, Fresh
  <1> QED BY <1>4, <1>5, <1>6, <1>7 DEF FileInv

(* No run opens a key beside one that holds the pair undisturbed, and none    *)
(* that is undisturbed opens a key that another run is about to write.        *)
LEMMA RunKeepsFiles ==
    ASSUME IndInv, FileInv, NEW t \in Runs, RunStep(t)
    PROVE  FileInv'
  <1> DEFINE Enters == /\ pc[t] = "openKey" /\ pc'[t] = "writeKey"
                       /\ t \in forced \/ key[pair[t]] = Absent
                       /\ key'[pair[t]] = Torn
  <1> USE DEF Pairs, Ended, Active, Holding
  <1>1. Types /\ RunInv(t)
    BY DEF IndInv
  <1>2. /\ pair' = pair /\ forced' = forced /\ disturbed' = disturbed /\ silent \subseteq silent'
        /\ Active(t) /\ pair[t] \in Pairs /\ pc'[t] # "idle"
        /\ \A s \in Runs \ {t} : pc'[s] = pc[s]
        /\ \A p \in Pairs \ {pair[t]} : key'[p] = key[p] /\ cert'[p] = cert[p]
        /\ pair[t] # "leaf" => behind' = behind
    BY <1>1, Moves
  <1>3. \/ pc[t] \in Holding
        \/ key' = key /\ cert' = cert /\ behind' = behind /\ pc'[t] \notin Holding \cup {"ok"}
        \/ Enters
    BY <1>1, Moves
  <1>4. /\ pc'[t] = "writeKey" => key'[pair[t]] = Torn
        /\ pc'[t] = "openCert" => key'[pair[t]] = t
        /\ pc'[t] \in {"writeCert", "writeIssuer", "removeKey", "ok"} =>
              pc[t] \in {"openCert", "writeCert", "writeIssuer"} /\ key' = key
        /\ pc'[t] = "writeCert" /\ pair[t] = "leaf" => behind' = Torn
        /\ pc'[t] = "writeIssuer" => cert'["leaf"] = t
        /\ pc'[t] = "ok" =>
              \/ t \in silent'
              \/ cert'[pair[t]] = t /\ pair[t] # "leaf"
              \/ pc[t] = "writeIssuer" /\ cert' = cert /\ behind' = t /\ pair[t] = "leaf"
    BY <1>1, Moves
  <1>5. ASSUME NEW r \in Runs, r # t, pair[r] = pair[t], r \notin disturbed, pc[r] \in Holding \cup {"ok"}
        PROVE  ~Enters
    <2>1. Apart(r, t) /\ Owns(r)
      BY DEF FileInv
    <2>2. t \notin forced
      BY <1>2, <1>5, <2>1 DEF Apart
    <2>3. key[pair[r]] # Absent
      BY <1>5, <2>1, ContentAssumption DEF Owns
    <2> QED BY <1>5, <2>2, <2>3
  <1>6. ASSUME NEW s \in Runs, s # t, pair[s] = pair[t], t \notin disturbed, pc[s] \in Holding
        PROVE  ~Enters
    <2>1. CASE s \in disturbed
      <3>1. Apart(t, s)
        BY DEF FileInv
      <3> QED BY <1>6, <2>1, <3>1 DEF Apart
    <2>2. CASE s \notin disturbed
      BY <1>5, <1>6, <2>2
    <2> QED BY <2>1, <2>2
  <1>7. ASSUME NEW r \in Runs PROVE Owns(r)'
    <2>1. CASE r = t
      <3>1. Owns(t)
        BY DEF FileInv
      <3> QED BY <1>2, <1>4, <2>1, <3>1, ContentAssumption DEF Owns
    <2>2. CASE r # t /\ r \notin disturbed /\ pc[r] \in Holding \cup {"ok"}
      <3>1. Owns(r) /\ Sole(r, t)
        BY DEF FileInv
      <3>2. RunInv(r) /\ pair[r] \in Pairs
        BY <2>2 DEF IndInv, RunInv
      <3>3. /\ key'[pair[r]] = key[pair[r]] /\ cert'[pair[r]] = cert[pair[r]]
            /\ pair[r] = "leaf" => behind' = behind
        <4>1. CASE pair[r] # pair[t]
          BY <1>2, <3>2, <4>1
        <4>2. CASE pair[r] = pair[t]
          BY <1>3, <1>5, <2>2, <3>1, <4>2 DEF Sole
        <4> QED BY <4>1, <4>2
      <3> QED BY <1>2, <2>2, <3>1, <3>2, <3>3 DEF Owns, RunInv
    <2>3. CASE r # t /\ ~(r \notin disturbed /\ pc[r] \in Holding \cup {"ok"})
      BY <1>2, <2>3 DEF Owns
    <2> QED BY <2>1, <2>2, <2>3
  <1>8. ASSUME NEW r \in Runs, NEW s \in Runs PROVE Sole(r, s)'
    <2>1. Sole(r, s)
      BY DEF FileInv
    <2>2. CASE r = t
      BY <1>2, <1>3, <1>6, <2>1, <2>2 DEF Sole
    <2>3. CASE s = t
      BY <1>2, <1>3, <1>5, <2>1, <2>3 DEF Sole
    <2>4. CASE r # t /\ s # t
      BY <1>2, <2>1, <2>4 DEF Sole
    <2> QED BY <2>2, <2>3, <2>4
  <1>9. ASSUME NEW r \in Runs, NEW s \in Runs PROVE Apart(r, s)'
    <2>1. Apart(r, s)
      BY DEF FileInv
    <2> QED BY <1>2, <2>1 DEF Apart
  <1>10. ASSUME NEW r \in Runs PROVE Fresh(r)'
    BY <1>2 DEF FileInv, Fresh
  <1> QED BY <1>7, <1>8, <1>9, <1>10 DEF FileInv

LEMMA FilesInvariant == Spec => []FileInv
  <1>1. Init => FileInv
    BY DEF Init, FileInv, Fresh, Owns, Sole, Apart, Active, Holding, Ended
  <1>2. ASSUME IndInv, FileInv, [Next]_vars PROVE FileInv'
    <2>1. CASE UNCHANGED vars
      BY <1>2, <2>1 DEF vars, files, history, FileInv, Fresh, Owns, Sole, Apart, Active
    <2> QED BY <1>2, <2>1, BeginKeepsFiles, RunKeepsFiles DEF Next
  <1> QED BY <1>1, <1>2, Invariant, PTL DEF Spec

(* A new run has no file open yet. *)
LEMMA BeginKeepsChain ==
    ASSUME IndInv, FileInv, ChainInv, NEW t \in Runs, NEW p \in Pairs, NEW withForce \in BOOLEAN,
           Begin(t, p, withForce)
    PROVE  ChainInv'
  <1> USE DEF Pairs, Ended, Active, Writing
  <1>1. /\ pc[t] = "idle" /\ pair[t] = "none" /\ t \notin forced /\ t \notin disturbed
        /\ UNCHANGED <<cert, behind>> /\ disturbed \subseteq disturbed'
        /\ pc'[t] \in {"statCert", "openKey", "readCert"}
        /\ \A r \in Runs \ {t} : pc'[r] = pc[r] /\ pair'[r] = pair[r]
    BY DEF IndInv, Begin, FileInv, Fresh, Types, AfterExists, files
  <1>2. ASSUME NEW r \in Runs, NEW s \in Runs PROVE Kept(r, s)'
    <2>1. CASE s = t
      BY <1>1, <2>1 DEF Kept
    <2>2. CASE s # t
      BY <1>1, <2>2 DEF ChainInv, Kept
    <2> QED BY <2>1, <2>2
  <1>3. Mixed'
    <2>1. \A r \in Runs : r = cert["leaf"] \/ r = behind => r # t
      BY <1>1 DEF ChainInv, Mixed
    <2> QED BY <1>1, <2>1 DEF ChainInv, Mixed
  <1> QED BY <1>2, <1>3 DEF ChainInv

(* What a run's step can do to the leaf's file. *)
LEMMA ChainMoves ==
    ASSUME NEW t \in Runs, Types, RunInv(t), RunStep(t)
    PROVE  \/ /\ cert'["leaf"] = cert["leaf"] /\ behind' = behind
              /\ pair[t] = "leaf" /\ pc'[t] \in Writing => pc[t] \in Writing
           \/ /\ pair[t] = "leaf" /\ pc[t] = "openCert" /\ pc'[t] = "writeCert"
              /\ cert'["leaf"] = Torn /\ behind' = Torn
           \/ /\ pair[t] = "leaf" /\ pc[t] = "writeCert"
              /\ cert'["leaf"] \in {cert["leaf"], Torn, t} /\ behind' = behind
           \/ /\ pair[t] = "leaf" /\ pc[t] = "writeIssuer"
              /\ cert'["leaf"] = cert["leaf"] /\ behind' \in {behind, Torn, t}
  <1> USE DEF Types, RunInv, Pairs, Ended, Keeps, Goto, files, history, Writing, Fill
  <1>1. CASE StatCert(t) \/ StatKey(t) \/ StepFails(t)
    BY <1>1 DEF StatCert, StatKey, StepFails, AfterExists, CertFails
  <1>2. CASE ReadCert(t) \/ ReadKey(t)
    BY <1>2 DEF ReadCert, ReadKey
  <1>3. CASE OpenKey(t) \/ WriteKey(t)
    BY <1>3 DEF OpenKey, WriteKey
  <1>4. CASE OpenCert(t)
    BY <1>4 DEF OpenCert, CertFails, MayOpen
  <1>5. CASE WriteCert(t)
    BY <1>5 DEF WriteCert
  <1>6. CASE WriteIssuer(t)
    BY <1>6 DEF WriteIssuer
  <1>7. CASE ErrorIsShadowed(t)
    BY <1>7 DEF ErrorIsShadowed
  <1>8. CASE RemoveKey(t) \/ Killed(t)
    BY <1>8 DEF RemoveKey, Killed
  <1>9. CASE WriteFails(t)
    BY <1>9 DEF WriteFails, CertFails
  <1> QED BY <1>1, <1>2, <1>3, <1>4, <1>5, <1>6, <1>7, <1>8, <1>9 DEF RunStep

(* Who writes a block beside another's was disturbed, and so was the other.   *)
LEMMA RunKeepsChain ==
    ASSUME IndInv, FileInv, ChainInv, NEW t \in Runs, RunStep(t)
    PROVE  ChainInv'
  <1> USE DEF Pairs, Ended, Active
  <1>1. Types /\ RunInv(t)
    BY DEF IndInv
  <1>2. /\ pair' = pair /\ forced' = forced /\ disturbed' = disturbed
        /\ Active(t) /\ pair[t] \in Pairs /\ pc'[t] # "idle"
        /\ \A s \in Runs \ {t} : pc'[s] = pc[s]
    BY <1>1, Moves
  <1>4. Mixed /\ Owns(t) /\ \A r \in Runs : Kept(r, t)
    BY DEF ChainInv, FileInv
  <1>6. CASE /\ cert'["leaf"] = cert["leaf"] /\ behind' = behind
             /\ pair[t] = "leaf" /\ pc'[t] \in Writing => pc[t] \in Writing
    <2>1. ASSUME NEW r \in Runs, NEW s \in Runs PROVE Kept(r, s)'
      BY <1>2, <1>6 DEF ChainInv, Kept
    <2>2. Mixed'
      BY <1>2, <1>4, <1>6 DEF Mixed
    <2> QED BY <2>1, <2>2 DEF ChainInv
  <1>7. CASE cert'["leaf"] = Torn /\ behind' = Torn
    <2>1. ASSUME NEW r \in Runs, NEW s \in Runs PROVE Kept(r, s)'
      BY <1>7, ContentAssumption DEF Kept
    <2>2. Mixed'
      BY <1>7, ContentAssumption DEF Mixed
    <2> QED BY <2>1, <2>2 DEF ChainInv
  <1>8. ASSUME pair[t] = "leaf", pc[t] \in Writing,
               cert'["leaf"] \in {cert["leaf"], Torn, t}, behind' \in {behind, Torn, t},
               cert'["leaf"] = cert["leaf"] \/ (behind' = behind /\ pc[t] = "writeCert"),
               behind' = behind \/ pc[t] = "writeIssuer"
        PROVE  ChainInv'
    <2>1. ASSUME NEW r \in Runs, NEW s \in Runs PROVE Kept(r, s)'
      <3>1. Kept(r, s) /\ Sole(t, s) /\ Kept(r, t)
        BY DEF ChainInv, FileInv
      <3>2. CASE r # t
        <4>1. cert'["leaf"] = r \/ behind' = r => cert["leaf"] = r \/ behind = r
          BY <1>8, <3>2, ContentAssumption
        <4>2. CASE s = t
          BY <1>2, <1>8, <3>1, <3>2, <4>1, <4>2 DEF Kept
        <4>3. CASE s # t
          BY <1>2, <3>1, <4>1, <4>3 DEF Kept
        <4> QED BY <4>2, <4>3
      <3>3. CASE r = t
        BY <1>2, <1>8, <3>1, <3>3 DEF Kept, Sole, Holding, Writing
      <3> QED BY <3>2, <3>3
    <2>2. ASSUME cert'["leaf"] \in Runs, behind' \in Runs, cert'["leaf"] # behind'
          PROVE  cert'["leaf"] \in disturbed /\ behind' \in disturbed
      <3>1. CASE cert'["leaf"] = cert["leaf"] /\ behind' = behind
        BY <1>4, <2>2, <3>1 DEF Mixed
      <3>2. CASE cert'["leaf"] = t /\ behind' = behind /\ pc[t] = "writeCert"
        <4>1. t \in disturbed
          BY <1>4, <1>8, <2>2, <3>2, ContentAssumption DEF Owns
        <4>2. behind \in disturbed
          BY <1>4, <1>8, <2>2, <3>2 DEF Kept
        <4> QED BY <3>2, <4>1, <4>2
      <3>3. CASE behind' = t /\ cert'["leaf"] = cert["leaf"] /\ pc[t] = "writeIssuer"
        <4>1. t \in disturbed
          BY <1>4, <2>2, <3>3 DEF Owns
        <4>2. cert["leaf"] \in disturbed
          BY <1>4, <1>8, <2>2, <3>3 DEF Kept
        <4> QED BY <3>3, <4>1, <4>2
      <3> QED BY <1>8, <2>2, <3>1, <3>2, <3>3, ContentAssumption
    <2>3. Mixed'
      BY <1>2, <1>4, <1>8, <2>2, ContentAssumption DEF Mixed
    <2> QED BY <2>1, <2>3 DEF ChainInv
  <1> QED
    <2>1. pc[t] = "writeCert" \/ pc[t] = "writeIssuer" => pc[t] \in Writing
      BY DEF Writing
    <2> QED BY <1>1, <1>6, <1>7, <1>8, <2>1, ChainMoves

LEMMA ChainInvariant == Spec => []ChainInv
  <1>1. Init => ChainInv
    BY ContentAssumption DEF Init, ChainInv, Mixed, Kept, Pairs
  <1>2. ASSUME IndInv, FileInv, ChainInv, [Next]_vars PROVE ChainInv'
    <2>1. CASE UNCHANGED vars
      BY <1>2, <2>1 DEF vars, files, history, ChainInv, Mixed, Kept
    <2> QED BY <1>2, <2>1, BeginKeepsChain, RunKeepsChain DEF Next
  <1> QED BY <1>1, <1>2, Invariant, FilesInvariant, PTL DEF Spec

(* The types hold, and what a leaf's run has signed with was parsed. *)
THEOREM TypeCorrect == Spec => []TypeOK
  <1>1. IndInv => TypeOK
    BY DEF IndInv, Types, LeafInv, Settled, TypeOK
  <1> QED BY Invariant, <1>1, PTL

(* A leaf is signed with the key of the CA certificate behind it, however many *)
(* runs of init-ca --force and issue overlap, fail or are killed; only of two  *)
(* issues whose files --force lets overlap may one have written the leaf and   *)
(* the other what follows it.                                                 *)
THEOREM ChainsAreSigned == Spec => []ChainIsSigned
  <1>1. IndInv /\ ChainInv => ChainIsSigned
    <2> SUFFICES ASSUME IndInv, ChainInv, cert["leaf"] \in Runs, behind \in Runs
                 PROVE  \/ signer[cert["leaf"]] = issuer[behind]
                        \/ cert["leaf"] # behind /\ {cert["leaf"], behind} \subseteq disturbed
      BY DEF ChainIsSigned
    <2>1. CASE cert["leaf"] = behind
      BY <2>1 DEF IndInv, LeafInv, Settled
    <2>2. CASE cert["leaf"] # behind
      BY <2>2 DEF ChainInv, Mixed
    <2> QED BY <2>1, <2>2
  <1> QED BY Invariant, ChainInvariant, <1>1, PTL

(* What a run has reported as done is on the disk and stays there until      *)
(* --force is used, for any number of overlapping runs.                       *)
THEOREM SuccessLasts == Spec => []SuccessIsReal
  <1>1. FileInv => SuccessIsReal
    BY DEF FileInv, Owns, SuccessIsReal
  <1> QED BY FilesInvariant, <1>1, PTL
=============================================================================
