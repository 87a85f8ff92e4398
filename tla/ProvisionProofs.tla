--------------------------- MODULE ProvisionProofs ---------------------------
(***************************************************************************)
(* What opening an identity guarantees for any number of faults, revoked   *)
(* devices and years: the identity file is that of IdentityStore, what a   *)
(* front end hands out is what it has saved, and its certificate serves.   *)
(***************************************************************************)
EXTENDS Provision, SequenceTheorems, TLAPS

(* Where the process holds an identity.                                    *)
Before == {"refresh", "adopt", "enrol"}
Saving == {"write", "sync", "rename"}
AgeNames == {"new", "expiring", "expired"}
Holding == Before \cup Saving \cup {"ready"}

IdType == [dev: Nat, key: Nat, refused: BOOLEAN]

(* The shape of what is in memory, on disk and with the service.           *)
ProvShape ==
    /\ enrolled \in Seq(Nat) /\ ages \in Seq(AgeNames)
    /\ fresh \in BOOLEAN
    /\ opening \in Holding \cup {"off", "load", "register"}
    /\ id \in IdType
    /\ file \in [is: {"absent", "corrupt", "identity"}, dev: Nat, key: Nat]
    /\ temp \in [is: {"absent", "part", "identity"}, dev: Nat, key: Nat]
    /\ IsIdentity(file) => file.dev \in Devices /\ file.key <= Len(ages)
    /\ ~IsIdentity(file) => file.dev = 0 /\ file.key = 0

(* How the identity at hand follows from the one on disk.                  *)
ProvFollows ==
    /\ opening \in Holding => id.dev \in Devices /\ id.key <= Len(ages)
    /\ opening \in Holding /\ id.refused => id.dev \in revoked
    /\ opening \in Holding /\ ~fresh =>
          IsIdentity(file) /\ id.dev = file.dev /\ id.key >= file.key
    /\ opening \in Before \cup Saving /\ fresh =>
          \/ file.is = "absent"
          \/ IsIdentity(file) /\ file.dev \in revoked /\ file.dev < id.dev
    /\ opening = "register" =>
          \/ file.is = "absent"
          \/ IsIdentity(file) /\ file.dev \in revoked
    /\ opening \in {"load", "register"} => ~fresh
    /\ opening = "rename" => temp = Saved(id)

ProvInv == ProvShape /\ ProvFollows /\ UsedIsSaved

(* What Append does to the two sequences of the service.                   *)
LEMMA AppendGrows ==
    ASSUME NEW S, NEW s \in Seq(S), NEW e \in S
    PROVE  Append(s, e) \in Seq(S) /\ Len(Append(s, e)) = Len(s) + 1
BY AppendProperties

(* A certificate that grows older, or a device that gets a key, leaves the *)
(* number of them as it was.                                               *)
LEMMA ExceptKeeps ==
    ASSUME NEW S, NEW s \in Seq(S), NEW i \in 1..Len(s), NEW e \in S
    PROVE  [s EXCEPT ![i] = e] \in Seq(S) /\ Len([s EXCEPT ![i] = e]) = Len(s)
BY ExceptSeq

(* The identities the steps make.                                          *)
LEMMA IdShapes ==
    /\ NoId \in IdType
    /\ \A d, k \in Nat: [dev |-> d, key |-> k, refused |-> FALSE] \in IdType
    /\ \A i \in IdType, k \in Nat: [i EXCEPT !.key = k] \in IdType
BY DEF NoId, IdType

(* The invariant holds on a first start.                                   *)
LEMMA ProvInitInv == ProvInit => ProvInv
<1> SUFFICES ASSUME NEW s \in Setups, NEW f \in FirstFiles, ProvStart(s, f)
             PROVE  ProvInv
    BY DEF ProvInit
<1>1. f \in [is: {"absent", "corrupt", "identity"}, dev: Nat, key: Nat]
    BY DEF FirstFiles, Blank
<1>2. IsIdentity(f) => f.dev = 1 /\ f.key \in {0, 1}
    BY DEF FirstFiles, Blank, IsIdentity
<1>3. ~IsIdentity(f) => f.dev = 0 /\ f.key = 0
    BY DEF FirstFiles, Blank, IsIdentity
<1>4. enrolled \in Seq(Nat) /\ ages \in Seq(AgeNames)
  <2>1. << >> \in Seq(Nat) /\ << >> \in Seq(AgeNames)  BY EmptySeq
  <2>2. <<f.key>> \in Seq(Nat)  BY <1>1
  <2>3. <<"new">> \in Seq(AgeNames)  BY DEF AgeNames
  <2> QED  BY <2>1, <2>2, <2>3, Zenon DEF ProvStart
<1>5. IsIdentity(f) => Len(enrolled) = 1 /\ f.key <= Len(ages)
    BY <1>1, <1>2 DEF ProvStart
<1>6. ProvShape
  <2>1. id \in IdType /\ fresh \in BOOLEAN  BY IdShapes DEF ProvStart
  <2>2. temp \in [is: {"absent", "part", "identity"}, dev: Nat, key: Nat]
      BY DEF ProvStart, Blank
  <2>3. opening = "off" /\ file = f  BY DEF ProvStart
  <2>4. IsIdentity(f) => f.dev \in Devices /\ f.key <= Len(ages)
    <3> SUFFICES ASSUME IsIdentity(f) PROVE f.dev \in Devices /\ f.key <= Len(ages)
        OBVIOUS
    <3>1. f.dev = 1 /\ Len(enrolled) = 1 /\ f.key <= Len(ages)  BY <1>2, <1>5
    <3> QED  BY <3>1, SMT DEF Devices
  <2> QED  BY <1>1, <1>3, <1>4, <2>1, <2>2, <2>3, <2>4 DEF ProvShape
<1>7. ProvFollows /\ UsedIsSaved
    BY DEF ProvFollows, UsedIsSaved, ProvStart, Holding, Before, Saving
<1> QED  BY <1>6, <1>7 DEF ProvInv

(* What a refresh of the profile may do to the identity at hand.           *)
LEMMA RefreshedKeeps ==
    ASSUME NEW o \in Outcomes(id.dev), id \in IdType,
           id.refused => id.dev \in revoked
    PROVE  LET i == Refreshed(id, o)
           IN  /\ i \in IdType
               /\ i.dev = id.dev /\ i.key = id.key
               /\ i.refused => i.dev \in revoked
BY DEF Refreshed, Outcomes, IdType

(* Each step keeps the shape of the state.                                 *)
LEMMA ProvShapeStep == ProvInv /\ [ProvNext]_provVars => ProvShape'
<1> SUFFICES ASSUME ProvInv, [ProvNext]_provVars PROVE ProvShape'  OBVIOUS
<1> USE DEF ProvInv, ProvShape, ProvFollows, Holding, Before, Saving, IsIdentity, Devices
<1>1. CASE BeginOpen  BY <1>1 DEF BeginOpen
<1>2. CASE LoadFile
  <2>1. opening' \in Holding \cup {"off", "register"}
      BY <1>2 DEF LoadFile, FailOpen, AfterLoad
  <2>2. id' \in IdType
    <3>1. file.dev \in Nat /\ file.key \in Nat  OBVIOUS
    <3> QED  BY <1>2, <3>1, IdShapes DEF LoadFile, FailOpen
  <2>3. CASE file' = file  BY <1>2, <2>1, <2>2, <2>3 DEF LoadFile
  <2>4. CASE file' = Blank("absent")  BY <1>2, <2>1, <2>2, <2>4 DEF LoadFile, Blank
  <2> QED  BY <1>2, <2>3, <2>4 DEF LoadFile
<1>3. CASE RefreshTeam
  <2>1. PICK o \in Outcomes(id.dev): id' = Refreshed(id, o)
      BY <1>3 DEF RefreshTeam
  <2>2. id' \in IdType
      BY <2>1, <1>3, RefreshedKeeps DEF RefreshTeam
  <2> QED  BY <2>2, <1>3 DEF RefreshTeam, AfterRefresh, AdoptNew
<1>4. CASE AdoptProfile
  <2>1. PICK o \in Outcomes(id.dev): id' = Refreshed(id, o)
      BY <1>4 DEF AdoptProfile
  <2>2. id' \in IdType
      BY <2>1, <1>4, RefreshedKeeps DEF AdoptProfile
  <2> QED  BY <2>2, <1>4 DEF AdoptProfile, AfterAdopt
<1>5. CASE RegisterDevice
  <2>1. Append(enrolled, 0) \in Seq(Nat) /\ Len(Append(enrolled, 0)) = Len(enrolled) + 1
      BY AppendGrows
  <2>2. opening' \in Holding \cup {"off", "register"} /\ fresh' \in BOOLEAN
      BY <1>5 DEF RegisterDevice, AfterRegister, FailOpen
  <2>3. id' \in IdType
    <3>1. Len(enrolled) + 1 \in Nat /\ 0 \in Nat  BY LenProperties
    <3>2. NewIdentity \in IdType  BY <3>1, IdShapes DEF NewIdentity
    <3>3. id' \in {NewIdentity, id, NoId}  BY <1>5 DEF RegisterDevice, FailOpen
    <3> QED  BY <3>2, <3>3, IdShapes
  <2>4. enrolled' \in Seq(Nat) /\ Len(enrolled') >= Len(enrolled)
    <3>1. Len(enrolled) \in Nat  BY LenProperties
    <3>2. enrolled' \in {enrolled, Append(enrolled, 0)}
        BY <1>5, Zenon DEF RegisterDevice
    <3>3. CASE enrolled' = enrolled  BY <3>1, <3>3
    <3>4. CASE enrolled' = Append(enrolled, 0)  BY <2>1, <3>1, <3>4
    <3> QED  BY <3>2, <3>3, <3>4
  <2> QED  BY <1>5, <2>2, <2>3, <2>4 DEF RegisterDevice
<1>6. CASE EnrolKey
  <2>1. id.dev \in 1..Len(enrolled) /\ Len(ages) + 1 \in Nat  BY <1>6 DEF EnrolKey
  <2>2. TakesKey(id.dev) =>
          /\ enrolled' \in Seq(Nat) /\ Len(enrolled') = Len(enrolled)
          /\ ages' \in Seq(AgeNames) /\ Len(ages') = Len(ages) + 1
    <3>1. "new" \in AgeNames  BY DEF AgeNames
    <3> QED  BY <2>1, <3>1, AppendGrows, ExceptKeeps DEF TakesKey
  <2>3. opening' \in Holding \cup {"off"}
      BY <1>6 DEF EnrolKey, AfterEnrol, AdoptNew, FailOpen
  <2>4. id' \in IdType
    <3>1. [id EXCEPT !.key = Len(ages) + 1] \in IdType  BY <2>1, IdShapes
    <3>2. id' \in {[id EXCEPT !.key = Len(ages) + 1], id, NoId}
        BY <1>6 DEF EnrolKey, FailOpen
    <3> QED  BY <3>1, <3>2, IdShapes
  <2>5. /\ enrolled' \in Seq(Nat) /\ Len(enrolled') = Len(enrolled)
        /\ ages' \in Seq(AgeNames) /\ Len(ages') >= Len(ages)
      BY <1>6, <2>2 DEF EnrolKey
  <2>6. file' = file /\ temp' = temp /\ fresh' = fresh  BY <1>6 DEF EnrolKey
  <2>7. IsIdentity(file) => file.dev \in 1..Len(enrolled') /\ file.key <= Len(ages')
      BY <2>1, <2>5
  <2> QED  BY <2>3, <2>4, <2>5, <2>6, <2>7
<1>7. CASE SaveFile
  <2>1. Saved(id) \in [is: {"identity"}, dev: Nat, key: Nat]  BY DEF Saved, IdType
  <2>2. Blank("part") \in [is: {"part"}, dev: Nat, key: Nat]  BY DEF Blank
  <2>3. Blank("absent") \in [is: {"absent"}, dev: Nat, key: Nat]  BY DEF Blank
  <2>4. CASE WriteTemp  BY <1>7, <2>2, <2>4 DEF SaveFile, WriteTemp
  <2>5. CASE SyncTemp  BY <1>7, <2>1, <2>5 DEF SaveFile, SyncTemp
  <2>6. CASE RenameTemp
    <3>1. file'.is = "identity" /\ file'.dev = id.dev /\ file'.key = id.key
        BY <2>6 DEF RenameTemp, Saved
    <3> QED  BY <1>7, <2>1, <2>3, <2>6, <3>1 DEF SaveFile, RenameTemp
  <2> QED  BY <1>7, <2>4, <2>5, <2>6 DEF SaveFile
<1>8. CASE QuitCore  BY <1>8, IdShapes DEF QuitCore, FailOpen
<1>9. CASE SaveFails  BY <1>9, IdShapes DEF SaveFails, FailOpen, Blank
<1>10. CASE CrashCore  BY <1>10, IdShapes DEF CrashCore, FailOpen
<1>11. CASE RevokeDevice  BY <1>11 DEF RevokeDevice
<1>12. CASE GrowOlder
  <2>1. PICK k \in Keys:
          ages' = [ages EXCEPT ![k] = IF @ = "new" THEN "expiring" ELSE "expired"]
      BY <1>12 DEF GrowOlder
  <2>2. ages' \in Seq(AgeNames) /\ Len(ages') = Len(ages)
    <3> DEFINE a == IF ages[k] = "new" THEN "expiring" ELSE "expired"
    <3>1. a \in AgeNames  BY DEF AgeNames
    <3>2. ages' = [ages EXCEPT ![k] = a]  BY <2>1
    <3> HIDE DEF a
    <3> QED  BY <3>1, <3>2, ExceptKeeps DEF Keys
  <2> QED  BY <1>12, <2>2 DEF GrowOlder
<1>13. CASE UNCHANGED provVars  BY <1>13 DEF provVars
<1> QED
    BY <1>1, <1>2, <1>3, <1>4, <1>5, <1>6, <1>7, <1>8, <1>9, <1>10, <1>11, <1>12,
       <1>13 DEF ProvNext, ProvProgress

(* Each step keeps what is known of the identity at hand.                  *)
LEMMA ProvFollowsStep == ProvInv /\ [ProvNext]_provVars => ProvFollows'
<1> SUFFICES ASSUME ProvInv, [ProvNext]_provVars PROVE ProvFollows'  OBVIOUS
<1>0. ProvShape'  BY ProvShapeStep
<1> USE <1>0 DEF ProvInv, ProvShape, ProvFollows, Holding, Before, Saving, IsIdentity,
                 Devices
<1>1. CASE BeginOpen  BY <1>1 DEF BeginOpen
<1>2. CASE LoadFile
    BY <1>2 DEF LoadFile, FailOpen, AfterLoad, Blank
<1>3. CASE RefreshTeam
  <2>1. PICK o \in Outcomes(id.dev): id' = Refreshed(id, o)
      BY <1>3 DEF RefreshTeam
  <2>2. id'.dev = id.dev /\ id'.key = id.key /\ (id'.refused => id'.dev \in revoked)
      BY <2>1, <1>3, RefreshedKeeps DEF RefreshTeam
  <2> QED  BY <2>2, <1>3 DEF RefreshTeam, AfterRefresh, AdoptNew
<1>4. CASE AdoptProfile
  <2>1. PICK o \in Outcomes(id.dev): id' = Refreshed(id, o)
      BY <1>4 DEF AdoptProfile
  <2>2. id'.dev = id.dev /\ id'.key = id.key /\ (id'.refused => id'.dev \in revoked)
      BY <2>1, <1>4, RefreshedKeeps DEF AdoptProfile
  <2> QED  BY <2>2, <1>4 DEF AdoptProfile, AfterAdopt
<1>5. CASE RegisterDevice
  <2>1. Append(enrolled, 0) \in Seq(Nat) /\ Len(Append(enrolled, 0)) = Len(enrolled) + 1
      BY AppendGrows
  <2>2. Len(enrolled) \in Nat /\ Len(ages) \in Nat  BY LenProperties
  <2> QED  BY SMTT(60), <1>5, <2>1, <2>2 DEF RegisterDevice, NewIdentity, AfterRegister, FailOpen
<1>6. CASE EnrolKey
  <2>1. id.dev \in 1..Len(enrolled) /\ Len(ages) \in Nat
      BY <1>6, LenProperties DEF EnrolKey
  <2>2. TakesKey(id.dev) => Len(enrolled') = Len(enrolled) /\ Len(ages') = Len(ages) + 1
    <3>1. "new" \in AgeNames /\ Len(ages) + 1 \in Nat  BY <2>1 DEF AgeNames
    <3> QED  BY <2>1, <3>1, AppendGrows, ExceptKeeps DEF TakesKey
  <2>3. CASE opening' = "off"  BY <1>6, <2>3 DEF EnrolKey
  <2>4. CASE id' = id /\ opening' = AfterEnrol
    <3>1. Len(enrolled') = Len(enrolled) /\ Len(ages') >= Len(ages)
        BY <1>6, <2>1, <2>2 DEF EnrolKey
    <3>2. opening' \in {"adopt", "write"} /\ UNCHANGED <<file, fresh, revoked>>
        BY <1>6, <2>4 DEF EnrolKey, AfterEnrol, AdoptNew
    <3>3. id.dev \in 1..Len(enrolled') /\ id.key <= Len(ages')
      <4>1. id.key \in Nat /\ id.key <= Len(ages) /\ Len(ages') \in Nat
          BY <1>6, LenProperties DEF EnrolKey, IdType
      <4> QED  BY <2>1, <3>1, <4>1
    <3> QED  BY SMTT(60), <1>6, <2>4, <3>2, <3>3 DEF EnrolKey
  <2>5. CASE id' = [id EXCEPT !.key = Len(ages) + 1] /\ TakesKey(id.dev)
             /\ opening' = AfterEnrol
    <3>1. id'.dev = id.dev /\ id'.key = Len(ages) + 1 /\ id'.refused = id.refused
        BY <2>5 DEF IdType
    <3> QED  BY SMTT(60), <1>6, <2>1, <2>2, <2>5, <3>1 DEF EnrolKey, AfterEnrol, AdoptNew
  <2> QED  BY <1>6, <2>3, <2>4, <2>5 DEF EnrolKey, FailOpen
<1>7. CASE SaveFile
    BY <1>7 DEF SaveFile, WriteTemp, SyncTemp, RenameTemp, Saved
<1>8. CASE QuitCore  BY <1>8 DEF QuitCore, FailOpen
<1>9. CASE SaveFails  BY <1>9 DEF SaveFails, FailOpen
<1>10. CASE CrashCore  BY <1>10 DEF CrashCore, FailOpen
<1>11. CASE RevokeDevice  BY <1>11 DEF RevokeDevice
<1>12. CASE GrowOlder  BY <1>12 DEF GrowOlder
<1>13. CASE UNCHANGED provVars  BY <1>13 DEF provVars
<1> QED
    BY <1>1, <1>2, <1>3, <1>4, <1>5, <1>6, <1>7, <1>8, <1>9, <1>10, <1>11, <1>12,
       <1>13 DEF ProvNext, ProvProgress

(* Each step keeps the identity handed out and the one on disk together.   *)
LEMMA UsedIsSavedStep == ProvInv /\ [ProvNext]_provVars => UsedIsSaved'
<1> SUFFICES ASSUME ProvInv, [ProvNext]_provVars PROVE UsedIsSaved'  OBVIOUS
<1> USE DEF ProvInv, UsedIsSaved
<1>1. CASE BeginOpen  BY <1>1 DEF BeginOpen
<1>2. CASE LoadFile  BY <1>2 DEF LoadFile, FailOpen, AfterLoad
<1>3. CASE RefreshTeam  BY <1>3 DEF RefreshTeam, AfterRefresh, AdoptNew
<1>4. CASE AdoptProfile  BY <1>4 DEF AdoptProfile, AfterAdopt
<1>5. CASE RegisterDevice  BY <1>5 DEF RegisterDevice, AfterRegister, FailOpen
<1>6. CASE EnrolKey  BY <1>6 DEF EnrolKey, AfterEnrol, AdoptNew, FailOpen
<1>7. CASE SaveFile
  <2>1. CASE RenameTemp  BY <1>7, <2>1 DEF SaveFile, RenameTemp, ProvFollows, Saved
  <2> QED  BY <1>7, <2>1 DEF SaveFile, WriteTemp, SyncTemp
<1>8. CASE QuitCore  BY <1>8 DEF QuitCore, FailOpen
<1>9. CASE SaveFails  BY <1>9 DEF SaveFails, FailOpen
<1>10. CASE CrashCore  BY <1>10 DEF CrashCore, FailOpen
<1>11. CASE RevokeDevice  BY <1>11 DEF RevokeDevice, Saved
<1>12. CASE GrowOlder  BY <1>12 DEF GrowOlder
<1>13. CASE UNCHANGED provVars  BY <1>13 DEF provVars, Saved
<1> QED
    BY <1>1, <1>2, <1>3, <1>4, <1>5, <1>6, <1>7, <1>8, <1>9, <1>10, <1>11, <1>12,
       <1>13 DEF ProvNext, ProvProgress

(* The invariant on which the theorems below rest.                         *)
LEMMA ProvInvAlways == ProvSpec => []ProvInv
<1>1. ProvInv /\ [ProvNext]_provVars => ProvInv'
    BY ProvShapeStep, ProvFollowsStep, UsedIsSavedStep DEF ProvInv
<1> QED  BY ProvInitInv, <1>1, PTL DEF ProvSpec

(* The identity a front end hands to the tunnel is the one on disk, unless *)
(* it was refused and is not to be replaced: lib.rs and api.rs save before *)
(* they return, on every path.                                             *)
THEOREM UsedIsSavedAlways == ProvSpec => []UsedIsSaved
<1>1. ProvInv => UsedIsSaved  BY DEF ProvInv
<1> QED  BY ProvInvAlways, <1>1, PTL

(* A step that touches the file is the rename of a whole identity, or moves *)
(* a damaged file away.                                                    *)
LEMMA FileSteps ==
    ASSUME ProvInv, [ProvNext]_provVars, file' # file
    PROVE  /\ UNCHANGED revoked
           /\ \/ IsIdentity(file') /\ file.is = "absent"
              \/ /\ IsIdentity(file) /\ IsIdentity(file')
                 /\ \/ file'.dev = file.dev /\ file'.key > file.key
                    \/ file.dev \in revoked /\ file'.dev > file.dev
              \/ file.is = "corrupt" /\ file'.is = "absent"
<1>1. CASE LoadFile
    BY <1>1 DEF LoadFile, Blank
<1>2. CASE SaveFile
  <2>1. RenameTemp /\ UNCHANGED revoked
      BY <1>2 DEF SaveFile, WriteTemp, SyncTemp
  <2>2. file' = Saved(id)  BY <2>1 DEF RenameTemp, ProvInv, ProvFollows
  <2>3. IsIdentity(file') /\ file'.dev = id.dev /\ file'.key = id.key
      BY <2>2 DEF Saved, IsIdentity
  <2>4. CASE fresh
      BY <2>1, <2>3, <2>4 DEF RenameTemp, ProvInv, ProvFollows, Before, Saving
  <2>5. CASE ~fresh
    <3>1. IsIdentity(file) /\ id.dev = file.dev /\ id.key >= file.key
        BY <2>1, <2>5 DEF RenameTemp, ProvInv, ProvFollows, Holding, Saving
    <3>2. file'.key # file.key
        BY <2>2, <3>1 DEF Saved, IsIdentity, ProvInv, ProvShape
    <3> QED  BY <2>1, <2>3, <3>1, <3>2 DEF ProvInv, ProvShape, IdType
  <2> QED  BY <2>4, <2>5
<1> QED
    BY <1>1, <1>2 DEF ProvNext, ProvProgress, BeginOpen, RefreshTeam, AdoptProfile,
       RegisterDevice, EnrolKey, QuitCore, SaveFails, CrashCore, RevokeDevice,
       GrowOlder, provVars

(* Wherever a crash or an error falls, a saved identity is never damaged   *)
(* or lost (config.rs write_private).                                      *)
THEOREM SavedNeverLostAlways == ProvSpec => SavedNeverLost
<1>1. ProvInv /\ [ProvNext]_provVars => [IsIdentity(file) => IsIdentity(file')]_provVars
    BY FileSteps DEF IsIdentity
<1> QED  BY ProvInvAlways, <1>1, PTL DEF ProvSpec, SavedNeverLost

(* A saved device gives way to another one only when the account service   *)
(* has refused it (load_or_provision_warp, load_or_provision_masque).      *)
THEOREM DeviceKeptAlways == ProvSpec => DeviceKeptUnlessRefused
<1>1. ProvInv /\ [ProvNext]_provVars =>
        [IsIdentity(file) /\ IsIdentity(file') /\ file'.dev # file.dev
            => file.dev \in revoked]_provVars
    BY FileSteps DEF IsIdentity
<1> QED  BY ProvInvAlways, <1>1, PTL DEF ProvSpec, DeviceKeptUnlessRefused

(* Provisioning implements the abstract identity file: its steps are       *)
(* steps of IdentityStore or leave the file and the bans alone.            *)
THEOREM ProvisionImplementsStore == ProvSpec => ImplementsStore
<1>1. ProvInit => Store!StoreInit
    BY DEF ProvInit, ProvStart, FirstFiles, Blank, Store!StoreInit
<1>2. ProvInv /\ [ProvNext]_provVars => [Store!StoreNext]_(Store!storeVars)
  <2> SUFFICES ASSUME ProvInv, [ProvNext]_provVars
               PROVE  [Store!StoreNext]_(Store!storeVars)
      OBVIOUS
  <2>1. CASE file' # file
      BY <2>1, FileSteps
         DEF Store!StoreNext, Store!StoreFirst, Store!StoreRenew, Store!StoreReplace,
             Store!StoreSetAside, Store!HoldsIdentity, IsIdentity
  <2>2. CASE file' = file
    <3>1. revoked \subseteq revoked'
        BY DEF ProvNext, ProvProgress, BeginOpen, LoadFile, RefreshTeam, AdoptProfile,
           RegisterDevice, EnrolKey, SaveFile, QuitCore, SaveFails, CrashCore,
           RevokeDevice, GrowOlder, provVars
    <3> QED  BY <2>2, <3>1 DEF Store!StoreNext, Store!StoreBan
  <2> QED  BY <2>1, <2>2
<1> QED  BY ProvInvAlways, <1>1, <1>2, PTL DEF ProvSpec, ImplementsStore, Store!StoreSpec

-----------------------------------------------------------------------------
(* Certificates.                                                           *)

(* A key in use was enrolled for the device it is used with.               *)
Owned(i) == i.key # 0 => owner[i.key] = i.dev

(* The types of what ProvShape leaves open.                                *)
CertShape ==
    /\ setup \in Setups /\ faults \in 0..MaxFaults /\ years \in 0..MaxYears
    /\ owner \in Seq(Nat) /\ Len(owner) = Len(ages)
    /\ \A k \in Keys: owner[k] \in Devices
    /\ \A d \in Devices: enrolled[d] <= Len(ages)
    /\ id = NoId \/ (id.dev \in Devices /\ id.key <= Len(ages))
    /\ IsIdentity(temp) => temp.dev \in Devices /\ temp.key <= Len(ages)
    /\ ~IsIdentity(temp) => temp.dev = 0 /\ temp.key = 0
    /\ revoked \subseteq Devices

(* As long as there was no fault, the account service has the keys that    *)
(* are at hand and on disk; the one on disk is behind only while a renewed *)
(* one is being saved.  Past the enrolment, a MASQUE start has a key that  *)
(* has not expired.                                                        *)
CertFollows ==
    /\ Owned(file) /\ Owned(id)
    /\ setup.masque /\ opening \in {"adopt", "ready"} \cup Saving => StillUsable(id)
    /\ faults = 0 /\ opening \in Holding => enrolled[id.dev] = id.key
    /\ faults = 0 /\ opening \notin Saving /\ IsIdentity(file) =>
          enrolled[file.dev] = file.key

CertInv == ProvInv /\ CertShape /\ CertFollows

LEMMA CertInitInv == ProvInit => CertInv
<1> SUFFICES ASSUME NEW s \in Setups, NEW f \in FirstFiles, ProvStart(s, f)
             PROVE  CertInv
    BY ProvInitInv DEF ProvInit, CertInv
<1>1. ProvInv  BY ProvInitInv DEF ProvInit
<1>2. /\ IsIdentity(f) => f.dev = 1 /\ f.key \in {0, 1}
      /\ ~IsIdentity(f) => f.dev = 0 /\ f.key = 0
    BY DEF FirstFiles, Blank, IsIdentity
<1>3. /\ IsIdentity(f) => Len(enrolled) = 1 /\ enrolled[1] = f.key
      /\ IsIdentity(f) /\ f.key = 1 => Len(ages) = 1 /\ Len(owner) = 1 /\ owner[1] = 1
      /\ ~(IsIdentity(f) /\ f.key # 0) => Len(ages) = 0 /\ Len(owner) = 0
      /\ ~IsIdentity(f) => Len(enrolled) = 0
      /\ owner \in Seq(Nat)
  <2>1. << >> \in Seq(Nat) /\ Len(<< >>) = 0 /\ <<1>> \in Seq(Nat)  BY EmptySeq
  <2>2. Len(<<1>>) = 1 /\ Len(<<"new">>) = 1 /\ <<1>>[1] = 1
        /\ Len(<<f.key>>) = 1 /\ <<f.key>>[1] = f.key
      OBVIOUS
  <2> QED  BY <1>2, <2>1, <2>2 DEF ProvStart
<1>4. temp = Blank("absent") /\ id = NoId /\ file = f /\ opening = "off" /\ revoked = {}
      /\ setup \in Setups /\ faults = 0 /\ years = 0
    BY DEF ProvStart
<1>5. CertShape
  <2>1. \A k \in Keys: owner[k] \in Devices  BY <1>2, <1>3 DEF Keys, Devices
  <2>2. \A d \in Devices: enrolled[d] <= Len(ages)  BY <1>2, <1>3 DEF Devices
  <2>3. Len(owner) = Len(ages)  BY <1>2, <1>3
  <2>4. temp.is = "absent" /\ temp.dev = 0 /\ temp.key = 0  BY <1>4 DEF Blank
  <2> QED  BY <1>3, <1>4, <2>1, <2>2, <2>3, <2>4, ProvisionAssumption DEF CertShape, IsIdentity
<1>6. CertFollows
    BY <1>2, <1>3, <1>4 DEF CertFollows, Owned, NoId, Holding, Saving, Before
<1> QED  BY <1>1, <1>5, <1>6 DEF CertInv

(* A registration leaves the devices before it alone.                      *)
LEMMA Registers ==
    ASSUME ProvShape, enrolled' = Append(enrolled, 0)
    PROVE  /\ Len(enrolled') = Len(enrolled) + 1 /\ Len(enrolled) \in Nat
           /\ \A d \in Devices: enrolled'[d] = enrolled[d]
           /\ enrolled'[Len(enrolled) + 1] = 0
BY AppendProperties, LenProperties DEF ProvShape, Devices

(* An enrolment adds a key, which is new, for one device.                  *)
LEMMA Enrols ==
    ASSUME ProvShape, owner \in Seq(Nat), Len(owner) = Len(ages),
           NEW d \in Devices, TakesKey(d)
    PROVE  /\ Len(ages) \in Nat /\ Len(enrolled) \in Nat
           /\ Len(enrolled') = Len(enrolled)
           /\ Len(ages') = Len(ages) + 1 /\ Len(owner') = Len(ages) + 1
           /\ owner' \in Seq(Nat)
           /\ \A k \in Keys: owner'[k] = owner[k] /\ ages'[k] = ages[k]
           /\ owner'[Len(ages) + 1] = d /\ ages'[Len(ages) + 1] = "new"
           /\ \A x \in Devices: enrolled'[x] = IF x = d THEN Len(ages) + 1 ELSE enrolled[x]
<1>1. Len(ages) \in Nat /\ Len(enrolled) \in Nat /\ d \in Nat /\ Len(ages) + 1 \in Nat
    BY LenProperties DEF ProvShape, Devices
<1>2. /\ Len(ages') = Len(ages) + 1 /\ ages'[Len(ages) + 1] = "new"
      /\ \A k \in Keys: ages'[k] = ages[k]
  <2>1. "new" \in AgeNames /\ ages \in Seq(AgeNames)  BY DEF AgeNames, ProvShape
  <2> QED  BY <2>1, AppendProperties DEF TakesKey, Keys
<1>3. /\ owner' \in Seq(Nat) /\ Len(owner') = Len(ages) + 1
      /\ owner'[Len(ages) + 1] = d /\ \A k \in Keys: owner'[k] = owner[k]
    BY <1>1, AppendProperties DEF TakesKey, Keys
<1>4. /\ Len(enrolled') = Len(enrolled)
      /\ \A x \in Devices: enrolled'[x] = IF x = d THEN Len(ages) + 1 ELSE enrolled[x]
    BY SMTT(60), <1>1, ExceptSeq DEF TakesKey, Devices, ProvShape
<1> QED  BY <1>1, <1>2, <1>3, <1>4

(* Time leaves every key with its owner.                                   *)
LEMMA Ages ==
    ASSUME ProvShape, GrowOlder PROVE Len(ages') = Len(ages)
<1>1. PICK k \in Keys:
        ages' = [ages EXCEPT ![k] = IF ages[k] = "new" THEN "expiring" ELSE "expired"]
    BY DEF GrowOlder
<1> DEFINE a == IF ages[k] = "new" THEN "expiring" ELSE "expired"
<1>2. a \in AgeNames /\ ages' = [ages EXCEPT ![k] = a]  BY <1>1 DEF AgeNames
<1> HIDE DEF a
<1> QED  BY <1>2, ExceptKeeps DEF Keys, ProvShape

(* The numbers of the state.                                               *)
LEMMA ProvNumbers ==
    ASSUME ProvShape
    PROVE  /\ Len(ages) \in Nat /\ Len(enrolled) \in Nat
           /\ id.dev \in Nat /\ id.key \in Nat /\ file.dev \in Nat /\ file.key \in Nat
BY LenProperties DEF ProvShape, IdType

(* Each step keeps the certificates at hand and on disk with their devices. *)
LEMMA CertStepPart ==
    ASSUME CertInv, [ProvNext]_provVars PROVE CertShape' /\ CertFollows'
<1>1. ProvInv /\ CertShape /\ CertFollows /\ ProvShape /\ ProvFollows
    BY DEF CertInv, ProvInv
<1>2. /\ Len(ages) \in Nat /\ Len(enrolled) \in Nat
      /\ id.dev \in Nat /\ id.key \in Nat /\ file.dev \in Nat /\ file.key \in Nat
    BY <1>1, ProvNumbers
<1> USE DEF Holding, Before, Saving
<1>3. CASE BeginOpen
    BY <1>1, <1>3 DEF BeginOpen, CertShape, CertFollows, Owned, StillUsable, Keys, Devices
<1>4. CASE LoadFile
  <2>1. UNCHANGED <<setup, fresh, temp, enrolled, owner, ages, revoked, faults, years>>
        /\ opening = "load"
      BY <1>4 DEF LoadFile
  <2>2. CASE file = Blank("absent") /\ opening' = "register" /\ UNCHANGED <<id, file>>
      BY <1>1, <2>1, <2>2 DEF CertShape, CertFollows, Owned, StillUsable, Keys, Devices
  <2>3. CASE FailOpen /\ file' = Blank("absent")
      BY <1>1, <2>1, <2>3 DEF FailOpen, Blank, NoId, IsIdentity, CertShape, CertFollows, Owned,
         StillUsable, Keys, Devices
  <2>4. CASE /\ IsIdentity(file) /\ UNCHANGED file
             /\ id' = [dev |-> file.dev, key |-> file.key, refused |-> FALSE]
             /\ opening' = AfterLoad(id')
    <3>1. id'.dev = file.dev /\ id'.key = file.key  BY <2>4
    <3>2. CertShape'
      <4>1. file.dev \in Devices /\ file.key <= Len(ages)  BY <1>1, <2>4 DEF ProvShape
      <4> QED  BY <1>1, <2>1, <3>1, <4>1 DEF CertShape, Keys, Devices
    <3>3. setup.masque /\ opening' \in {"adopt", "ready"} \cup Saving => StillUsable(id')
      <4>1. AfterLoad(id') \in {"adopt", "ready"} \cup Saving => ~NeedsKey(id')
          BY DEF AfterLoad
      <4> QED  BY <2>4, <4>1 DEF NeedsKey, HasCredentials, StillUsable
    <3>4. opening' # "load" /\ opening' \notin {"off", "register"}  BY <2>4 DEF AfterLoad
    <3> QED  BY <1>1, <2>1, <2>4, <3>1, <3>2, <3>3, <3>4
             DEF CertFollows, Owned, StillUsable
  <2> QED  BY <1>4, <2>2, <2>3, <2>4 DEF LoadFile
<1>5. CASE RefreshTeam \/ AdoptProfile
  <2>1. PICK o \in Outcomes(id.dev): id' = Refreshed(id, o) /\ Charge(o)
      BY <1>5 DEF RefreshTeam, AdoptProfile
  <2>2. UNCHANGED <<setup, fresh, file, temp, enrolled, owner, ages, revoked, years>>
        /\ opening \in {"refresh", "adopt"}
      BY <1>5 DEF RefreshTeam, AdoptProfile
  <2>3. id'.dev = id.dev /\ id'.key = id.key /\ id.dev \in Devices /\ id.key <= Len(ages)
    <3>1. id \in IdType /\ (id.refused => id.dev \in revoked)
        BY <1>1, <2>2 DEF ProvShape, ProvFollows
    <3> QED  BY <1>1, <2>1, <2>2, <3>1, RefreshedKeeps DEF ProvFollows
  <2>4. faults' \in 0..MaxFaults /\ (faults' = 0 => faults = 0)
    <3>1. o = "unreachable" => faults < MaxFaults  BY DEF Outcomes
    <3>2. o # "lost"  BY DEF Outcomes
    <3> QED  BY <1>1, <2>1, <3>1, <3>2, ProvisionAssumption DEF Charge, CertShape
  <2>5. CertShape'
      BY <1>1, <2>2, <2>3, <2>4 DEF CertShape, Keys, Devices
  <2>6. setup.masque /\ opening' \in {"adopt", "ready"} \cup Saving => StillUsable(id')
    <3>1. CASE RefreshTeam
      <4>1. opening' \in {"adopt", "ready"} \cup Saving => ~NeedsKey(id')
          BY <3>1 DEF RefreshTeam, AfterRefresh
      <4> QED  BY <4>1 DEF NeedsKey, HasCredentials, StillUsable
    <3>2. CASE AdoptProfile
      <4>1. setup.masque => StillUsable(id)
          BY <1>1, <3>2 DEF AdoptProfile, CertFollows
      <4> QED  BY <2>3, <4>1 DEF StillUsable
    <3> QED  BY <1>5, <3>1, <3>2
  <2>7. Owned(file)' /\ Owned(id)'  BY <1>1, <2>2, <2>3 DEF CertFollows, Owned
  <2>8. faults' = 0 => enrolled'[id'.dev] = id'.key
      BY <1>1, <2>2, <2>3, <2>4 DEF CertFollows
  <2>9. faults' = 0 /\ IsIdentity(file') => enrolled'[file'.dev] = file'.key
      BY <1>1, <2>2, <2>4 DEF CertFollows
  <2> QED  BY <2>2, <2>5, <2>6, <2>7, <2>8, <2>9 DEF CertFollows, StillUsable
<1>6. CASE RegisterDevice
  <2>1. UNCHANGED <<setup, file, temp, owner, ages, revoked, years>> /\ opening = "register"
      BY <1>6 DEF RegisterDevice
  <2>2. faults' \in 0..MaxFaults /\ (faults' = 0 => faults = 0)
      BY <1>1, <1>6, ProvisionAssumption DEF RegisterDevice, Charge, CertShape
  <2>3. /\ Len(enrolled') \in Nat /\ Len(enrolled) <= Len(enrolled')
        /\ \A d \in Devices: enrolled'[d] = enrolled[d]
        /\ \A d \in 1..Len(enrolled'): d \notin Devices => enrolled'[d] = 0
    <3>1. CASE enrolled' = Append(enrolled, 0)
        BY <1>1, <3>1, Registers DEF Devices
    <3>2. CASE enrolled' = enrolled  BY <1>2, <3>2 DEF Devices
    <3> QED  BY <1>6, <3>1, <3>2, Zenon DEF RegisterDevice
  <2>4. Devices \subseteq Devices'  BY <1>2, <2>3 DEF Devices
  <2>5. id' = NoId \/ id' = id
        \/ (id' = NewIdentity /\ enrolled' = Append(enrolled, 0))
      BY <1>6 DEF RegisterDevice, FailOpen
  <2>6. id' = NewIdentity /\ enrolled' = Append(enrolled, 0) =>
          id'.dev \in Devices' /\ id'.key = 0 /\ enrolled'[id'.dev] = 0
      BY <1>1, <1>2, Registers DEF NewIdentity, Devices
  <2>7. CertShape'
    <3>1. id' = NoId \/ (id'.dev \in Devices' /\ id'.key <= Len(ages'))
        BY <1>1, <1>2, <2>1, <2>4, <2>5, <2>6 DEF CertShape
    <3>2. \A d \in Devices': enrolled'[d] <= Len(ages')
        BY SMTT(60), <1>1, <1>2, <2>1, <2>3 DEF CertShape, Devices
    <3> QED  BY <1>1, <2>1, <2>2, <2>4, <3>1, <3>2 DEF CertShape, Keys
  <2>8. Owned(file)' /\ Owned(id)'
      BY <1>1, <2>1, <2>5, <2>6 DEF CertFollows, Owned, NoId
  <2>9. /\ opening' \in {"refresh", "enrol", "write", "off", "register"}
        /\ opening' \in Holding => id' = NewIdentity /\ enrolled' = Append(enrolled, 0)
        /\ opening' = "write" => ~setup.masque
      BY <1>6 DEF RegisterDevice, AfterRegister, FailOpen, NeedsKey, HasCredentials, NewIdentity
  <2>10. faults' = 0 /\ opening' \notin Saving /\ IsIdentity(file') =>
           enrolled'[file'.dev] = file'.key
      BY <1>1, <2>1, <2>2, <2>3 DEF CertFollows, ProvShape
  <2> QED  BY <2>1, <2>6, <2>7, <2>8, <2>9, <2>10 DEF CertFollows, StillUsable
<1>7. CASE EnrolKey
  <2>1. UNCHANGED <<setup, fresh, file, temp, revoked, years>> /\ opening = "enrol"
      BY <1>7 DEF EnrolKey
  <2>2. id.dev \in Devices /\ id.key <= Len(ages)  BY <1>1, <2>1 DEF ProvFollows
  <2>3. faults' \in 0..MaxFaults /\ (faults' = 0 => faults = 0)
      BY <1>1, <1>7, ProvisionAssumption DEF EnrolKey, Charge, CertShape, Outcomes
  <2>4. TakesKey(id.dev) \/ UNCHANGED <<enrolled, ages, owner>>
      BY <1>7 DEF EnrolKey
  <2>5. /\ Len(enrolled') = Len(enrolled) /\ Len(ages') \in Nat
        /\ Len(ages) <= Len(ages') /\ Len(owner') = Len(ages') /\ owner' \in Seq(Nat)
        /\ \A k \in Keys: owner'[k] = owner[k] /\ ages'[k] = ages[k]
        /\ \A k \in Keys': k \notin Keys => owner'[k] = id.dev
        /\ \A d \in Devices: d # id.dev => enrolled'[d] = enrolled[d]
        /\ \A d \in Devices: enrolled'[d] <= Len(ages')
    <3>1. owner \in Seq(Nat) /\ Len(owner) = Len(ages)
          /\ \A d \in Devices: enrolled[d] \in Nat /\ enrolled[d] <= Len(ages)
        BY <1>1, ElementOfSeq DEF CertShape, ProvShape, Devices
    <3>2. CASE TakesKey(id.dev)
      <4>1. /\ Len(enrolled') = Len(enrolled)
            /\ Len(ages') = Len(ages) + 1 /\ Len(owner') = Len(ages) + 1
            /\ owner' \in Seq(Nat)
            /\ \A k \in Keys: owner'[k] = owner[k] /\ ages'[k] = ages[k]
            /\ owner'[Len(ages) + 1] = id.dev
            /\ \A x \in Devices:
                  enrolled'[x] = IF x = id.dev THEN Len(ages) + 1 ELSE enrolled[x]
          BY <1>1, <2>2, <3>1, <3>2, Enrols
      <4>2. \A k \in Keys': k \notin Keys => owner'[k] = id.dev
          BY <1>2, <4>1 DEF Keys
      <4>3. \A d \in Devices: enrolled'[d] <= Len(ages')
          BY <1>2, <3>1, <4>1
      <4> QED  BY <1>2, <4>1, <4>2, <4>3
    <3>3. CASE UNCHANGED <<enrolled, ages, owner>>
        BY <1>2, <3>1, <3>3 DEF Keys
    <3> QED  BY <2>4, <3>2, <3>3
  <2>6. Devices' = Devices /\ Keys \subseteq Keys'  BY <1>2, <2>5 DEF Devices, Keys
  <2>7. \/ id' = NoId /\ opening' = "off" /\ (faults' = 0 => UNCHANGED enrolled)
        \/ /\ id' = id /\ opening' = AfterEnrol /\ StillUsable(id)
           /\ faults' = 0 => UNCHANGED enrolled
        \/ /\ id' = [id EXCEPT !.key = Len(ages) + 1] /\ opening' = AfterEnrol
           /\ TakesKey(id.dev)
    <3>1. faults + 1 # 0  BY <1>1, ProvisionAssumption DEF CertShape
    <3> QED  BY <1>7, <3>1 DEF EnrolKey, FailOpen, Charge
  <2>8. id' = [id EXCEPT !.key = Len(ages) + 1] /\ TakesKey(id.dev) =>
          /\ id'.dev = id.dev /\ id'.key = Len(ages) + 1 /\ Len(ages') = Len(ages) + 1
          /\ owner'[id'.key] = id.dev /\ ages'[id'.key] = "new"
          /\ enrolled'[id.dev] = id'.key
    <3> SUFFICES ASSUME id' = [id EXCEPT !.key = Len(ages) + 1], TakesKey(id.dev)
                 PROVE  /\ id'.dev = id.dev /\ id'.key = Len(ages) + 1
                        /\ Len(ages') = Len(ages) + 1
                        /\ owner'[id'.key] = id.dev /\ ages'[id'.key] = "new"
                        /\ enrolled'[id.dev] = id'.key
        OBVIOUS
    <3>1. id'.dev = id.dev /\ id'.key = Len(ages) + 1  BY <1>1 DEF ProvShape, IdType
    <3>2. owner \in Seq(Nat) /\ Len(owner) = Len(ages)  BY <1>1 DEF CertShape
    <3> QED  BY <1>1, <2>2, <3>1, <3>2, Enrols
  <2>9. CertShape'
    <3>1. \A k \in Keys': owner'[k] \in Devices'
        BY <1>1, <2>2, <2>5, <2>6 DEF CertShape
    <3>2. id' = NoId \/ (id'.dev \in Devices' /\ id'.key <= Len(ages'))
        BY <1>2, <2>2, <2>5, <2>6, <2>7, <2>8
    <3>3. /\ IsIdentity(temp') => temp'.dev \in Devices' /\ temp'.key <= Len(ages')
          /\ ~IsIdentity(temp') => temp'.dev = 0 /\ temp'.key = 0
      <4>1. temp.key \in Nat  BY <1>1 DEF ProvShape
      <4> QED  BY <1>1, <1>2, <2>1, <2>5, <2>6, <4>1 DEF CertShape
    <3> QED  BY <1>1, <2>1, <2>3, <2>5, <2>6, <3>1, <3>2, <3>3 DEF CertShape
  <2>10. Owned(file)'
    <3>1. file.key # 0 => file.key \in Keys
        BY <1>1, <1>2 DEF ProvShape, Keys
    <3> QED  BY <1>1, <2>1, <2>5, <3>1 DEF CertFollows, Owned
  <2>11. Owned(id)' /\ (opening' # "off" => StillUsable(id)')
    <3>1. id.key # 0 => id.key \in Keys  BY <1>2, <2>2 DEF Keys
    <3>2. CASE id' = NoId /\ opening' = "off"  BY <3>2 DEF Owned, NoId
    <3>3. CASE id' = id /\ StillUsable(id)
        BY <1>1, <2>5, <3>1, <3>3 DEF CertFollows, Owned, StillUsable
    <3>4. CASE id' = [id EXCEPT !.key = Len(ages) + 1] /\ TakesKey(id.dev)
      <4>1. id'.key # 0  BY <1>2, <2>8, <3>4
      <4> QED  BY <2>8, <3>4, <4>1 DEF Owned, StillUsable
    <3> QED  BY <2>7, <3>2, <3>3, <3>4
  <2>12. faults' = 0 /\ opening' # "off" => enrolled'[id'.dev] = id'.key
      BY <1>1, <2>1, <2>3, <2>7, <2>8 DEF CertFollows
  <2>13. faults' = 0 /\ opening' \notin Saving /\ IsIdentity(file') =>
           enrolled'[file'.dev] = file'.key
    <3> SUFFICES ASSUME faults' = 0, opening' \notin Saving, IsIdentity(file)
                 PROVE  enrolled'[file.dev] = file.key
        BY <2>1
    <3>1. file.dev \in Devices /\ enrolled[file.dev] = file.key
        BY <1>1, <2>1, <2>3 DEF CertFollows, ProvShape
    <3>2. CASE UNCHANGED enrolled  BY <3>1, <3>2
    <3>3. CASE opening' = AfterEnrol
      <4>1. fresh  BY <3>3 DEF AfterEnrol
      <4>2. file.dev # id.dev
          BY <1>1, <1>2, <2>1, <4>1 DEF ProvFollows, IsIdentity
      <4> QED  BY <2>5, <3>1, <4>2
    <3> QED  BY <2>7, <3>2, <3>3
  <2>14. opening' \in {"off", "adopt", "write"}
      BY <2>7 DEF AfterEnrol, AdoptNew
  <2> QED  BY <2>9, <2>10, <2>11, <2>12, <2>13, <2>14 DEF CertFollows
<1>8. CASE SaveFile
  <2>1. UNCHANGED <<setup, fresh, id, enrolled, owner, ages, revoked, faults, years>>
      BY <1>8 DEF SaveFile
  <2>2. id.dev \in Devices /\ id.key <= Len(ages) /\ opening \in Saving
      BY <1>1, <1>8 DEF SaveFile, WriteTemp, SyncTemp, RenameTemp, ProvFollows
  <2>3. /\ Saved(id).is = "identity" /\ Saved(id).dev = id.dev /\ Saved(id).key = id.key
        /\ Blank("part").is = "part" /\ Blank("part").dev = 0 /\ Blank("part").key = 0
        /\ Blank("absent").is = "absent" /\ Blank("absent").dev = 0 /\ Blank("absent").key = 0
      BY DEF Saved, Blank
  <2>4. temp' \in {Saved(id), Blank("part"), Blank("absent")}
      BY <1>8 DEF SaveFile, WriteTemp, SyncTemp, RenameTemp
  <2>5. CertShape'
      BY <1>1, <2>1, <2>2, <2>3, <2>4 DEF CertShape, IsIdentity, Keys, Devices
  <2>6. \/ UNCHANGED file /\ opening' \in Saving
        \/ file' = Saved(id) /\ opening' = "ready"
      BY <1>1, <1>8 DEF SaveFile, WriteTemp, SyncTemp, RenameTemp, ProvFollows
  <2> QED  BY <1>1, <2>1, <2>2, <2>3, <2>5, <2>6 DEF CertFollows, Owned, StillUsable
<1>9. CASE QuitCore
    BY <1>1, <1>9 DEF QuitCore, FailOpen, NoId, CertShape, CertFollows, Owned, Keys, Devices
<1>10. CASE SaveFails \/ CrashCore
  <2>1. /\ UNCHANGED <<setup, fresh, file, enrolled, owner, ages, revoked, years>>
        /\ opening' = "off" /\ id' = NoId /\ faults' = faults + 1 /\ faults < MaxFaults
        /\ temp' = temp \/ temp' = Blank("absent")
      BY <1>10 DEF SaveFails, CrashCore, FailOpen
  <2>2. faults' \in 1..MaxFaults
      BY <1>1, <2>1, ProvisionAssumption DEF CertShape
  <2>3. temp' = Blank("absent") => temp'.is = "absent" /\ temp'.dev = 0 /\ temp'.key = 0
      BY DEF Blank
  <2>4. CertShape'
      BY <1>1, <2>1, <2>2, <2>3 DEF CertShape, IsIdentity, Keys, Devices
  <2> QED  BY <1>1, <2>1, <2>2, <2>4 DEF CertFollows, Owned, NoId
<1>11. CASE RevokeDevice
    BY <1>1, <1>11 DEF RevokeDevice, CertShape, CertFollows, Owned, StillUsable, Keys, Devices
<1>12. CASE GrowOlder
  <2>1. Len(ages') = Len(ages)  BY <1>1, <1>12, Ages
  <2>2. /\ UNCHANGED <<setup, opening, fresh, id, file, temp, enrolled, owner, revoked, faults>>
        /\ opening = "off" /\ years < MaxYears /\ years' = years + 1
      BY <1>12 DEF GrowOlder
  <2>3. CertShape'
      BY <1>1, <2>1, <2>2, ProvisionAssumption DEF CertShape, Keys, Devices
  <2> QED  BY <1>1, <2>2, <2>3 DEF CertFollows, Owned
<1>13. CASE UNCHANGED provVars
    BY <1>1, <1>13 DEF provVars, CertShape, CertFollows, Owned, StillUsable, Keys, Devices
<1> QED
    BY <1>3, <1>4, <1>5, <1>6, <1>7, <1>8, <1>9, <1>10, <1>11, <1>12, <1>13
       DEF ProvNext, ProvProgress

LEMMA CertInvAlways == ProvSpec => []CertInv
<1>1. CertInv /\ [ProvNext]_provVars => CertInv'
    BY CertStepPart, ProvShapeStep, ProvFollowsStep, UsedIsSavedStep DEF CertInv, ProvInv
<1> QED  BY CertInitInv, <1>1, PTL DEF ProvSpec

LEMMA CertInvTypes == CertInv => ProvTypeOK
<1> SUFFICES ASSUME CertInv PROVE ProvTypeOK
    OBVIOUS
<1>1. ProvShape /\ CertShape  BY DEF CertInv, ProvInv
<1>2. /\ Len(ages) \in Nat /\ Len(enrolled) \in Nat
      /\ id.dev \in Nat /\ id.key \in Nat /\ file.dev \in Nat /\ file.key \in Nat
    BY <1>1, ProvNumbers
<1>3. \A n \in Nat: n <= Len(ages) => n \in Keys \cup {0}  BY <1>2 DEF Keys
<1>4. id \in [dev: Devices, key: Keys \cup {0}, refused: BOOLEAN] \cup {NoId}
    BY <1>1, <1>2, <1>3 DEF ProvShape, CertShape, IdType
<1>5. file \in [is: {"identity"}, dev: Devices, key: Keys \cup {0}] \cup
              {Blank("absent"), Blank("corrupt")}
  <2>1. CASE IsIdentity(file)
    <3>1. file.dev \in Devices /\ file.key \in Keys \cup {0}
        BY <1>1, <1>2, <1>3, <2>1 DEF ProvShape
    <3> QED  BY <1>1, <2>1, <3>1 DEF ProvShape, IsIdentity
  <2>2. CASE ~IsIdentity(file)
      BY <1>1, <2>2 DEF ProvShape, IsIdentity, Blank
  <2> QED  BY <2>1, <2>2
<1>6. temp \in [is: {"identity"}, dev: Devices, key: Keys \cup {0}] \cup
              {Blank("absent"), Blank("part")}
  <2>1. CASE IsIdentity(temp)
    <3>1. temp.dev \in Devices /\ temp.key \in Keys \cup {0}
        BY <1>1, <1>3, <2>1 DEF ProvShape, CertShape
    <3> QED  BY <1>1, <2>1, <3>1 DEF ProvShape, IsIdentity
  <2>2. CASE ~IsIdentity(temp)
      BY <1>1, <2>2 DEF ProvShape, CertShape, IsIdentity, Blank
  <2> QED  BY <2>1, <2>2
<1>7. enrolled \in Seq(Keys \cup {0})
  <2>1. \A d \in 1..Len(enrolled): enrolled[d] \in Keys \cup {0}
    <3>1. \A d \in 1..Len(enrolled): enrolled[d] \in Nat  BY <1>1, ElementOfSeq DEF ProvShape
    <3> QED  BY <1>1, <1>3, <3>1 DEF CertShape, Devices
  <2> QED  BY SMTT(60), <1>1, <2>1, SeqDef, LenProperties DEF ProvShape
<1>8. owner \in Seq(Devices)
    BY <1>1, SeqDef, LenProperties DEF CertShape, Keys
<1> QED
    BY <1>1, <1>4, <1>5, <1>6, <1>7, <1>8
       DEF ProvTypeOK, ProvShape, CertShape, AgeNames, Holding, Before, Saving

(* A MASQUE start that succeeds has a certificate that has not expired and *)
(* was enrolled for its device, and, if nothing failed so far, the one the *)
(* account service has: whatever was revoked, renewed, lost or replaced on *)
(* the way (account.rs ensure_masque_enrolled, as both front ends use it). *)
THEOREM IdentityServesAlways == ProvSpec => []IdentityServes
<1>1. CertInv => IdentityServes
  <2> SUFFICES ASSUME CertInv PROVE CertificateServes
      BY CertInvTypes DEF IdentityServes
  <2> QED  BY DEF CertInv, CertFollows, CertificateServes, Owned, StillUsable, Holding
<1> QED  BY CertInvAlways, <1>1, PTL
=============================================================================
