---------------------------- MODULE IdentityStore ----------------------------
(***************************************************************************)
(* What opening an identity promises of its file, whatever the account     *)
(* service answers and wherever the process dies: the file holds nothing,  *)
(* a damaged text or a whole identity; an identity changes only to a later *)
(* key of its device, or, once the service has banned the device, to a     *)
(* later device.                                                           *)
(***************************************************************************)
EXTENDS Naturals

VARIABLES
    stored,  \* [is: "absent", "corrupt" or "identity", dev, key]
    banned   \* the devices the account service refuses

storeVars == <<stored, banned>>

HoldsIdentity == stored.is = "identity" /\ stored'.is = "identity"

StoreInit == stored.is \in {"absent", "corrupt", "identity"} /\ banned = {}

(* The first identity.                                                     *)
StoreFirst == /\ stored.is = "absent" /\ stored'.is = "identity"
              /\ UNCHANGED banned

(* The same device gets a later key.                                       *)
StoreRenew == /\ HoldsIdentity
              /\ stored'.dev = stored.dev /\ stored'.key > stored.key
              /\ UNCHANGED banned

(* A banned device gives way to a later one.                               *)
StoreReplace == /\ HoldsIdentity
                /\ stored.dev \in banned /\ stored'.dev > stored.dev
                /\ UNCHANGED banned

(* A damaged file is moved away.                                           *)
StoreSetAside == /\ stored.is = "corrupt" /\ stored'.is = "absent"
                 /\ UNCHANGED banned

(* The service bans devices and takes no ban back.                         *)
StoreBan == banned \subseteq banned' /\ UNCHANGED stored

StoreNext == \/ StoreFirst \/ StoreRenew \/ StoreReplace \/ StoreSetAside
             \/ StoreBan

StoreSpec == StoreInit /\ [][StoreNext]_storeVars
=============================================================================
