--------------------------------- MODULE PKI ---------------------------------
(***************************************************************************)
(* The PKI tool (cmd/pki): init-ca makes the pair ca.key and ca.crt, issue *)
(* makes tls-key.pem and tls-cert.pem, signed with the CA it finds.  The   *)
(* tool takes no lock: runs of it may overlap, any of its file operations  *)
(* may fail, and it may be killed between two of them.                     *)
(*                                                                         *)
(* Abstractions: a run generates one key pair, named after the run; a file *)
(* holds the key or the certificate of a run, or is Torn (it has been      *)
(* truncated or not been written to its end); the leaf's file also holds   *)
(* the CA certificate that a run has put behind its leaf.  A PEM block is  *)
(* written by one operation.  What a leaf was signed with, and the CA      *)
(* certificate that follows it, are what its run has loaded.  Names and    *)
(* validity periods are left out.                                          *)
(***************************************************************************)
CONSTANTS
    Runs,    \* the runs of the tool
    Absent,  \* no such file, no such run
    Torn     \* a file without a whole PEM block

ASSUME ContentAssumption == Absent \notin Runs /\ Torn \notin Runs /\ Absent # Torn

VARIABLES
    key,        \* the private key files of the "ca" and of the "leaf"
    cert,       \* the certificate files (of the leaf's, the first block)
    behind,     \* the second block of the leaf's: the run that wrote its issuer's certificate there
    pc,         \* where a run is
    pair,       \* what it makes: "ca" (init-ca) or "leaf" (issue)
    forced,     \* the runs with --force
    signer,     \* the CA key a run has loaded
    issuer,     \* the CA certificate it has loaded
    disturbed,  \* history: the runs whose files another run may have touched, see Rivals
    silent      \* history: the runs whose error was swallowed

files == <<key, cert, behind>>
history == <<disturbed, silent>>
vars == <<files, pc, pair, forced, signer, issuer, history>>

Pairs == {"ca", "leaf"}
Ended == {"ok", "failed", "killed"}

Init ==
    /\ key = [p \in Pairs |-> Absent]
    /\ cert = [p \in Pairs |-> Absent]
    /\ behind = Absent
    /\ pc = [r \in Runs |-> "idle"]
    /\ pair = [r \in Runs |-> "none"]
    /\ forced = {}
    /\ signer = [r \in Runs |-> Absent]
    /\ issuer = [r \in Runs |-> Absent]
    /\ disturbed = {}
    /\ silent = {}

Goto(r, here, there) ==
    /\ pc[r] = here
    /\ pc' = [pc EXCEPT ![r] = there]
    /\ UNCHANGED <<pair, forced>>

Keeps == UNCHANGED <<signer, issuer, history>>

Fill(content, r, what) == [content EXCEPT ![pair[r]] = what]

-----------------------------------------------------------------------------
(* init-ca and issue up to their first write. *)

(* The exists checks are for runs without --force. *)
AfterExists(p) == IF p = "ca" THEN "openKey" ELSE "readCert"

Over == {s \in Runs : pc[s] \in Ended}

(* The runs on the same pair that a new run may disturb: all of them if it   *)
(* has --force, else those in progress that have it or were disturbed.       *)
Rivals(p, withForce) ==
    {s \in Runs : pair[s] = p /\ (withForce \/ s \in (forced \cup disturbed) \ Over)}

Begin(r, p, withForce) ==
    /\ pc[r] = "idle"
    /\ pc' = [pc EXCEPT ![r] = IF withForce THEN AfterExists(p) ELSE "statCert"]
    /\ pair' = [pair EXCEPT ![r] = p]
    /\ forced' = IF withForce THEN forced \cup {r} ELSE forced
    /\ LET rivals == Rivals(p, withForce) IN
       disturbed' = disturbed \cup rivals \cup (IF rivals \subseteq Over THEN {} ELSE {r})
    /\ UNCHANGED <<files, signer, issuer, silent>>

StatCert(r) ==
    /\ Goto(r, "statCert", IF cert[pair[r]] = Absent THEN "statKey" ELSE "failed")
    /\ UNCHANGED files /\ Keeps

StatKey(r) ==
    /\ Goto(r, "statKey", IF key[pair[r]] = Absent THEN AfterExists(pair[r]) ELSE "failed")
    /\ UNCHANGED files /\ Keeps

IsWhole(content) == content \in Runs

(* loadCA reads and parses the certificate, then the key ... *)
ReadCert(r) ==
    /\ Goto(r, "readCert", IF IsWhole(cert["ca"]) THEN "readKey" ELSE "failed")
    /\ issuer' = [issuer EXCEPT ![r] = cert["ca"]]
    /\ UNCHANGED <<files, signer, history>>

(* Mutant: the key is not compared with the certificate. *)
MFits(r) == IsWhole(key["ca"])

(* ... which must belong to it. *)
Fits(r) == key["ca"] = issuer[r]

ReadKey(r) ==
    /\ Goto(r, "readKey", IF Fits(r) THEN "openKey" ELSE "failed")
    /\ signer' = [signer EXCEPT ![r] = key["ca"]]
    /\ UNCHANGED <<files, issuer, history>>

-----------------------------------------------------------------------------
(* writePEMExclusive for both keys and the CA certificate, and the same      *)
(* steps in issue for the leaf's chain.                                      *)

(* Mutant: after the exists checks every file is just truncated. *)
MMayOpen(r, content) == TRUE

(* openOutput: O_TRUNC with --force, O_EXCL without. *)
MayOpen(r, content) == r \in forced \/ content[pair[r]] = Absent

OpenKey(r) ==
    /\ Goto(r, "openKey", IF MayOpen(r, key) THEN "writeKey" ELSE "failed")
    /\ key' = IF MayOpen(r, key) THEN Fill(key, r, Torn) ELSE key
    /\ UNCHANGED <<cert, behind>> /\ Keeps

WriteKey(r) ==
    /\ Goto(r, "writeKey", "openCert")
    /\ key' = Fill(key, r, r)
    /\ UNCHANGED <<cert, behind>> /\ Keeps

(* init-ca removes its key when the certificate fails; issue does not. *)
CertFails(r) == IF pair[r] = "ca" THEN "removeKey" ELSE "failed"

OpenCert(r) ==
    /\ Goto(r, "openCert", IF MayOpen(r, cert) THEN "writeCert" ELSE CertFails(r))
    /\ cert' = IF MayOpen(r, cert) THEN Fill(cert, r, Torn) ELSE cert
    /\ behind' = IF MayOpen(r, cert) /\ pair[r] = "leaf" THEN Torn ELSE behind
    /\ UNCHANGED key /\ Keeps

(* issue's certificate is the first of two. *)
WriteCert(r) ==
    /\ Goto(r, "writeCert", IF pair[r] = "leaf" THEN "writeIssuer" ELSE "ok")
    /\ cert' = Fill(cert, r, r)
    /\ UNCHANGED <<key, behind>> /\ Keeps

WriteIssuer(r) ==
    /\ Goto(r, "writeIssuer", "ok")
    /\ behind' = r
    /\ UNCHANGED <<key, cert>> /\ Keeps

(* os.Remove, its error ignored; Windows keeps a file that another run has open. *)
RemoveKey(r) ==
    /\ Goto(r, "removeKey", "failed")
    /\ \/ UNCHANGED key
       \/ /\ \A s \in Runs : pc[s] = "writeKey" => pair[s] # pair[r]
          /\ key' = Fill(key, r, Absent)
    /\ UNCHANGED <<cert, behind>> /\ Keeps

-----------------------------------------------------------------------------
(* What can go wrong: a stat (then the file passes for absent), a read, a    *)
(* generation, a directory or an open ...                                    *)
StepFails(r) ==
    /\ \/ Goto(r, "statCert", "statKey") \/ Goto(r, "statKey", AfterExists(pair[r]))
       \/ \E here \in {"readCert", "readKey", "openKey"} : Goto(r, here, "failed")
       \/ Goto(r, "openCert", CertFails(r))
    /\ UNCHANGED files /\ Keeps

(* ... the write of a file, or its close (the block may be there even so) ... *)
WriteFails(r) ==
    /\ \/ /\ Goto(r, "writeKey", "failed")
          /\ key' \in {key, Fill(key, r, Torn), Fill(key, r, r)}
          /\ UNCHANGED <<cert, behind>>
       \/ /\ Goto(r, "writeCert", CertFails(r))
          /\ cert' \in {cert, Fill(cert, r, Torn), Fill(cert, r, r)}
          /\ UNCHANGED <<key, behind>>
       \/ /\ Goto(r, "writeIssuer", "failed")
          /\ behind' \in {behind, Torn, r}
          /\ UNCHANGED <<key, cert>>
    /\ Keeps

(* ... or one of the two writes of the leaf's chain: issue assigns the error   *)
(* to a variable of the inner scope and returns nil.                          *)
ErrorIsShadowed(r) ==
    /\ \/ /\ pair[r] = "leaf" /\ Goto(r, "writeCert", "ok")
          /\ cert' \in {cert, Fill(cert, r, Torn)}
          /\ UNCHANGED behind
       \/ /\ Goto(r, "writeIssuer", "ok")
          /\ behind' \in {behind, Torn}
          /\ UNCHANGED cert
    /\ silent' = silent \cup {r}
    /\ UNCHANGED <<key, signer, issuer, disturbed>>

Killed(r) ==
    /\ pc[r] \notin Ended \cup {"idle"}
    /\ Goto(r, pc[r], "killed")
    /\ UNCHANGED files /\ Keeps

RunStep(r) ==
    \/ StatCert(r) \/ StatKey(r) \/ ReadCert(r) \/ ReadKey(r)
    \/ OpenKey(r) \/ WriteKey(r) \/ OpenCert(r) \/ WriteCert(r) \/ WriteIssuer(r) \/ RemoveKey(r)
    \/ StepFails(r) \/ WriteFails(r) \/ ErrorIsShadowed(r) \/ Killed(r)

Next ==
    \/ \E r \in Runs, p \in Pairs, withForce \in BOOLEAN : Begin(r, p, withForce)
    \/ \E r \in Runs : RunStep(r)

Spec == Init /\ [][Next]_vars

-----------------------------------------------------------------------------
(* Types.  What is signed with, and appended to a leaf's chain, was parsed.  *)
TypeOK ==
    /\ key \in [Pairs -> Runs \cup {Absent, Torn}]
    /\ cert \in [Pairs -> Runs \cup {Absent, Torn}]
    /\ behind \in Runs \cup {Absent, Torn}
    /\ pc \in [Runs -> {"idle", "statCert", "statKey", "readCert", "readKey", "openKey", "writeKey",
                        "openCert", "writeCert", "writeIssuer", "removeKey"} \cup Ended]
    /\ pair \in [Runs -> Pairs \cup {"none"}]
    /\ forced \cup disturbed \cup silent \subseteq Runs
    /\ signer \in [Runs -> Runs \cup {Absent, Torn}]
    /\ issuer \in [Runs -> Runs \cup {Absent, Torn}]
    /\ \A r \in Runs \cap {cert["leaf"], behind} : issuer[r] \in Runs

(* A leaf certificate is signed with the key of the CA certificate behind it  *)
(* in its chain, also when a forced init-ca replaces the two files between    *)
(* the two reads, or was interrupted between its two writes before.  Only     *)
(* where a forced issue overlaps another may one of them have written the     *)
(* leaf and the other the certificate behind it, signed by different CAs.     *)
ChainIsSigned ==
    cert["leaf"] \in Runs /\ behind \in Runs =>
        \/ signer[cert["leaf"]] = issuer[behind]
        \/ cert["leaf"] # behind /\ {cert["leaf"], behind} \subseteq disturbed

(* A run that reports success has left its own key and its own certificate or *)
(* chain, and they stay there: other runs, overlapping or later, refuse or    *)
(* fail without touching them, unless --force is used.  (The chain may be     *)
(* torn where issue swallowed the error.)                                     *)
SuccessIsReal ==
    \A r \in Runs : pc[r] = "ok" /\ r \notin disturbed =>
        /\ key[pair[r]] = r
        /\ r \in silent \/ (cert[pair[r]] = r /\ (pair[r] = "leaf" => behind = r))
=============================================================================
