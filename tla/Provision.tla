------------------------------ MODULE Provision ------------------------------
(***************************************************************************)
(* The identity of the core: loading it from its file, checking it with    *)
(* the account API, enrolling a MASQUE key, registering a new device, and  *)
(* saving the result (config.rs, account.rs, and the two front ends:       *)
(* load_or_provision_* of lib.rs for the command line, open_identity of    *)
(* api.rs for the FFI).  A device is a number of the order in which the    *)
(* API registered it, a MASQUE key of the order in which it was enrolled.  *)
(* The account API is external: a call may have its effect and lose its    *)
(* answer, fail without an effect, or be refused because the device was    *)
(* revoked.  The process may crash between any two steps; only the file    *)
(* and the API survive.                                                    *)
(***************************************************************************)
EXTENDS Integers, Sequences, FiniteSets

CONSTANTS
    Fronts,     \* which front ends open the identity: "cli", "ffi"
    MaxFaults,  \* bound on crashes, lost answers, outages, failed writes
    MaxRevokes, \* bound on the devices the account service revokes
    MaxYears    \* bound on how often a certificate grows older

ASSUME ProvisionAssumption ==
    /\ Fronts \subseteq {"cli", "ffi"}
    /\ MaxFaults \in Nat /\ MaxRevokes \in Nat /\ MaxYears \in Nat

VARIABLES
    setup,    \* how this installation is started: front, masque, team, replace
    opening,       \* the step the process is at, "off" when it does not run
    fresh,    \* TRUE once this start has registered a device
    id,       \* the identity in memory: dev, key, refused
    file,     \* the identity file: absent, corrupt, or an identity
    temp,     \* the temporary file write_private renames over it
    enrolled, \* per registered device, the key the API has for it (0: none)
    owner,    \* per enrolled key, the device it was enrolled for
    ages,     \* per enrolled key: "new", "expiring" (last week) or "expired"
    revoked,  \* the devices the API refuses
    faults,   \* faults so far
    years     \* how often a certificate has grown older

provVars == <<setup, opening, fresh, id, file, temp, enrolled, owner, ages, revoked,
              faults, years>>

(* Only the command line reads AETHER_REPROVISION, for a team's device.   *)
Setups == {s \in [front: Fronts, masque: BOOLEAN, team: BOOLEAN, replace: BOOLEAN]:
              s.replace => s.front = "cli" /\ s.team}
Devices == 1..Len(enrolled)
Keys == 1..Len(ages)
NoId == [dev |-> 0, key |-> 0, refused |-> FALSE]
Saved(i) == [is |-> "identity", dev |-> i.dev, key |-> i.key]
Blank(what) == [is |-> what, dev |-> 0, key |-> 0]
IsIdentity(f) == f.is = "identity"

-----------------------------------------------------------------------------
(* masque_cert_expiring, has_masque_credentials and cert_still_usable.     *)

HasCredentials(i) == i.key # 0 /\ ages[i.key] = "new"
StillUsable(i) == i.key # 0 /\ ages[i.key] # "expired"

(* send_with_retry and the camouflaged route: what a call about device d   *)
(* comes to.                                                               *)
Outcomes(d) == (IF d \in revoked THEN {"refused"} ELSE {"ok"}) \cup
               (IF faults < MaxFaults THEN {"unreachable"} ELSE {})

Charge(o) == faults' = IF o \in {"unreachable", "lost"} THEN faults + 1 ELSE faults

-----------------------------------------------------------------------------
(* Which step follows which: the bodies of load_or_provision_warp,         *)
(* load_or_provision_masque, open_identity and provision_identity.         *)

NeedsKey(i) == setup.masque /\ ~HasCredentials(i)

AfterLoad(i) ==
    IF setup.front = "cli"
    THEN IF NeedsKey(i) THEN "enrol" ELSE IF setup.team THEN "adopt" ELSE "write"
    ELSE IF setup.team THEN "refresh" ELSE IF NeedsKey(i) THEN "enrol" ELSE "write"

AdoptNew == IF setup.front = "cli" /\ setup.team THEN "adopt" ELSE "write"

AfterRegister(i) == IF setup.team THEN "refresh"
                    ELSE IF NeedsKey(i) THEN "enrol" ELSE "write"
AfterRefresh(i) == IF NeedsKey(i) THEN "enrol" ELSE IF fresh THEN AdoptNew ELSE "write"

(* Mutant: a renewed certificate is used but not saved.                    *)
AfterEnrolUnsaved == IF fresh THEN AdoptNew ELSE "ready"

AfterEnrol == IF fresh THEN AdoptNew ELSE "write"

(* Mutant: a refused identity is used as it is.                            *)
AfterAdoptKeeps(i) == IF fresh \/ ~i.refused THEN "write" ELSE "ready"

(* keep_saved_identity: a refused identity is replaced unless             *)
(* AETHER_REPROVISION turns that off.                                      *)
AfterAdopt(i) == IF fresh \/ ~i.refused THEN "write"
                 ELSE IF setup.replace THEN "register" ELSE "ready"

-----------------------------------------------------------------------------
(* The front end is called.                                                *)
BeginOpen == /\ opening = "off"
             /\ opening' = "load" /\ fresh' = FALSE
             /\ UNCHANGED <<setup, id, file, temp, enrolled, owner, ages, revoked, faults, years>>

(* The call returns an error: what was only in memory is gone.             *)
FailOpen == opening' = "off" /\ id' = NoId

(* config::load: a file that cannot be parsed is moved aside, and the call *)
(* fails; the next one finds no file.                                      *)
LoadFile ==
    /\ opening = "load"
    /\ \/ /\ file = Blank("absent")
          /\ opening' = "register" /\ UNCHANGED <<id, file>>
       \/ /\ file = Blank("corrupt")
          /\ FailOpen /\ file' = Blank("absent")
       \/ /\ IsIdentity(file)
          /\ id' = [dev |-> file.dev, key |-> file.key, refused |-> FALSE]
          /\ opening' = AfterLoad(id') /\ UNCHANGED file
    /\ UNCHANGED <<setup, fresh, temp, enrolled, owner, ages, revoked, faults, years>>

(* refresh_profile: only a refusal marks the identity, only an answer      *)
(* clears the mark.                                                        *)
Refreshed(i, o) == [i EXCEPT !.refused = o = "refused" \/ (o = "unreachable" /\ @)]

(* Mutant: a refresh that leaves the key behind.                           *)
RefreshTeamBare ==
    /\ opening = "refresh"
    /\ \E o \in Outcomes(id.dev):
          id' = [Refreshed(id, o) EXCEPT !.key = 0] /\ Charge(o)
    /\ opening' = AfterRefresh(id')
    /\ UNCHANGED <<setup, fresh, file, temp, enrolled, owner, ages, revoked, years>>

(* refresh_identity of the FFI, and the refresh that ends provision_account *)
(* and provision_identity for a team.                                      *)
RefreshTeam ==
    /\ opening = "refresh"
    /\ \E o \in Outcomes(id.dev):
          id' = Refreshed(id, o) /\ Charge(o)
    /\ opening' = AfterRefresh(id')
    /\ UNCHANGED <<setup, fresh, file, temp, enrolled, owner, ages, revoked, years>>

(* adopt_team_profile of the command line.                                 *)
AdoptProfile ==
    /\ opening = "adopt"
    /\ \E o \in Outcomes(id.dev):
          id' = Refreshed(id, o) /\ Charge(o)
    /\ opening' = AfterAdopt(id')
    /\ UNCHANGED <<setup, fresh, file, temp, enrolled, owner, ages, revoked, years>>

(* Mutant: the certificate of the old device goes with the new one.        *)
NewKeepsKey == [dev |-> Len(enrolled) + 1, key |-> id.key, refused |-> FALSE]

(* provision_wg and provision_team: register, then finish_provision.  A    *)
(* registration whose answer is lost leaves a device nobody uses.          *)
NewIdentity == [dev |-> Len(enrolled) + 1, key |-> 0, refused |-> FALSE]

RegisterDevice ==
    /\ opening = "register"
    /\ \/ /\ enrolled' = Append(enrolled, 0)
          /\ id' = NewIdentity
          /\ fresh' = TRUE
          /\ opening' = AfterRegister(id')
          /\ UNCHANGED faults
       \/ /\ faults < MaxFaults
          /\ \/ enrolled' = Append(enrolled, 0) /\ Charge("lost")
                /\ (UNCHANGED <<opening, id>> \/ FailOpen)
             \/ Charge("unreachable") /\ FailOpen /\ UNCHANGED enrolled
          /\ UNCHANGED fresh
    /\ UNCHANGED <<setup, file, temp, owner, ages, revoked, years>>

(* enroll_key reached the API: the device's key is the new one.            *)
TakesKey(d) == /\ enrolled' = [enrolled EXCEPT ![d] = Len(ages) + 1]
               /\ ages' = Append(ages, "new")
               /\ owner' = Append(owner, d)

(* ensure_masque_enrolled: on any error the certificate at hand is kept    *)
(* while it has not expired; otherwise the call fails.  enroll_key folds a *)
(* refusal into the same error, so a refusal never gets further.           *)
EnrolKey ==
    /\ opening = "enrol"
    /\ \/ /\ id.dev \notin revoked
          /\ TakesKey(id.dev)
          /\ id' = [id EXCEPT !.key = Len(ages) + 1]
          /\ opening' = AfterEnrol
          /\ UNCHANGED faults
       \/ /\ \/ id.dev \notin revoked /\ faults < MaxFaults
                /\ TakesKey(id.dev) /\ Charge("lost")
             \/ \E o \in Outcomes(id.dev) \ {"ok"}:
                   Charge(o) /\ UNCHANGED <<enrolled, ages, owner>>
          /\ IF StillUsable(id) THEN opening' = AfterEnrol /\ UNCHANGED id ELSE FailOpen
    /\ UNCHANGED <<setup, fresh, file, temp, revoked, years>>

-----------------------------------------------------------------------------
(* config::save and write_private: the temporary file is truncated and     *)
(* written, synced, and renamed over the identity file.                    *)

WriteTemp == /\ opening = "write"
             /\ temp' = Blank("part") /\ opening' = "sync" /\ UNCHANGED file

SyncTemp == /\ opening = "sync"
            /\ temp' = Saved(id) /\ opening' = "rename" /\ UNCHANGED file

RenameTemp == /\ opening = "rename"
              /\ file' = temp /\ temp' = Blank("absent") /\ opening' = "ready"

SaveFile == /\ WriteTemp \/ SyncTemp \/ RenameTemp
            /\ UNCHANGED <<setup, fresh, id, enrolled, owner, ages, revoked, faults, years>>

(* A step of the save fails: the temporary file is removed.                *)
SaveFails ==
    /\ opening \in {"write", "sync", "rename"} /\ faults < MaxFaults
    /\ temp' = Blank("absent") /\ FailOpen /\ faults' = faults + 1
    /\ UNCHANGED <<setup, fresh, file, enrolled, owner, ages, revoked, years>>

-----------------------------------------------------------------------------
(* The process ends after it had its identity, or crashes on the way.      *)
QuitCore == /\ opening = "ready" /\ FailOpen
            /\ UNCHANGED <<setup, fresh, file, temp, enrolled, owner, ages, revoked, faults, years>>

CrashCore == /\ opening \notin {"off", "ready"} /\ faults < MaxFaults
             /\ FailOpen /\ faults' = faults + 1
             /\ UNCHANGED <<setup, fresh, file, temp, enrolled, owner, ages, revoked, years>>

(* The account service revokes a device, at any time.                      *)
RevokeDevice ==
    /\ Cardinality(revoked) < MaxRevokes
    /\ \E d \in Devices \ revoked: revoked' = revoked \cup {d}
    /\ UNCHANGED <<setup, opening, fresh, id, file, temp, enrolled, owner, ages, faults, years>>

(* Time passes between two runs of the process: a certificate comes into   *)
(* its last week, or expires.                                              *)
GrowOlder ==
    /\ opening = "off" /\ years < MaxYears /\ years' = years + 1
    /\ \E k \in Keys:
          /\ ages[k] # "expired"
          /\ ages' = [ages EXCEPT ![k] = IF @ = "new" THEN "expiring" ELSE "expired"]
    /\ UNCHANGED <<setup, opening, fresh, id, file, temp, enrolled, owner, revoked, faults>>

-----------------------------------------------------------------------------
(* One installation: its file is missing, damaged by something else, or    *)
(* was saved with or without a certificate.                                *)
ProvStart(s, f) ==
    /\ setup = s /\ file = f /\ temp = Blank("absent")
    /\ opening = "off" /\ fresh = FALSE /\ id = NoId
    /\ revoked = {} /\ faults = 0 /\ years = 0
    /\ enrolled = IF IsIdentity(f) THEN <<f.key>> ELSE <<>>
    /\ owner = IF IsIdentity(f) /\ f.key # 0 THEN <<1>> ELSE <<>>
    /\ ages = IF IsIdentity(f) /\ f.key # 0 THEN <<"new">> ELSE <<>>

FirstFiles == {Blank("absent"), Blank("corrupt")} \cup
              [is: {"identity"}, dev: {1}, key: {0, 1}]

ProvInit == \E s \in Setups, f \in FirstFiles: ProvStart(s, f)

ProvProgress == BeginOpen \/ LoadFile \/ RefreshTeam \/ AdoptProfile \/
                RegisterDevice \/ EnrolKey \/ SaveFile \/ QuitCore

ProvNext == ProvProgress \/ SaveFails \/ CrashCore \/ RevokeDevice \/ GrowOlder

(* The user starts the core again whenever it has stopped, the process     *)
(* runs on, and the faults are finitely many.                              *)
ProvFairness == WF_provVars(ProvProgress)
ProvSpec == ProvInit /\ [][ProvNext]_provVars /\ ProvFairness

-----------------------------------------------------------------------------
(* Properties.                                                             *)

(* Every variable has its type; identities name registered devices and     *)
(* enrolled keys.                                                          *)
ProvTypeOK ==
    /\ setup \in Setups /\ fresh \in BOOLEAN /\ faults \in 0..MaxFaults /\ years \in 0..MaxYears
    /\ opening \in {"off", "load", "refresh", "adopt", "register", "enrol", "write",
               "sync", "rename", "ready"}
    /\ id \in [dev: Devices, key: Keys \cup {0}, refused: BOOLEAN] \cup {NoId}
    /\ file \in [is: {"identity"}, dev: Devices, key: Keys \cup {0}] \cup
                {Blank("absent"), Blank("corrupt")}
    /\ temp \in [is: {"identity"}, dev: Devices, key: Keys \cup {0}] \cup
                {Blank("absent"), Blank("part")}
    /\ enrolled \in Seq(Keys \cup {0})
    /\ owner \in Seq(Devices) /\ Len(owner) = Len(ages)
    /\ ages \in Seq({"new", "expiring", "expired"})
    /\ revoked \subseteq Devices

(* config.rs write_private: whatever step a crash or an error falls on, a  *)
(* saved identity is never damaged or lost: the file is replaced whole, and *)
(* only a file that was already damaged is ever taken away.                *)
SavedNeverLost == [][IsIdentity(file) => IsIdentity(file')]_provVars

(* lib.rs, api.rs: the identity a front end hands to the tunnel is the one *)
(* on disk, so the next start uses the same device and key.  The only      *)
(* exception is a refused identity the user asked not to replace.          *)
UsedIsSaved ==
    opening = "ready" => file = Saved(id) \/ (id.refused /\ ~setup.replace)

(* lib.rs load_or_provision_*: a saved device gives way to another one only *)
(* when the account service has refused it; an outage, a crash or a failed *)
(* enrolment never costs the installation its device.                      *)
DeviceKeptUnlessRefused ==
    [][IsIdentity(file) /\ IsIdentity(file') /\ file'.dev # file.dev
          => file.dev \in revoked]_provVars

(* account.rs ensure_masque_enrolled: a MASQUE start that succeeds has a    *)
(* certificate that has not expired and was enrolled for this very device; *)
(* if no answer was lost and nothing crashed, it is the one the account    *)
(* service has now.                                                        *)
CertificateServes ==
    opening = "ready" /\ setup.masque =>
        /\ id.key # 0 /\ ages[id.key] # "expired" /\ owner[id.key] = id.dev
        /\ faults = 0 => enrolled[id.dev] = id.key

(* All of the steps above, each of which may be the last, implement the    *)
(* file that changes whole, keeps its device and never goes back to an     *)
(* earlier key (config.rs save, as both front ends use it).                *)
Store == INSTANCE IdentityStore WITH stored <- file, banned <- revoked
ImplementsStore == Store!StoreSpec

(* lib.rs load_or_provision_warp: a WireGuard team identity that was        *)
(* revoked is replaced in the end, if the core is started again and again. *)
RefusedReplaced ==
    (/\ setup.front = "cli" /\ setup.team /\ setup.replace /\ ~setup.masque
     /\ IsIdentity(file) /\ file.dev \in revoked)
        ~> (IsIdentity(file) /\ file.dev \notin revoked)

(* account.rs, config.rs: what a start works with is well formed and serves *)
(* the tunnel it is for.                                                   *)
IdentityServes == ProvTypeOK /\ CertificateServes
=============================================================================
