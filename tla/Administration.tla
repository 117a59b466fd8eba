--------------------------- MODULE Administration ---------------------------
(***************************************************************************)
(* The officers' register and the officers' signing keys, changed from two *)
(* sides: by administrators through the API (admin.py add_officer,         *)
(* set_officer_state) and by the operator's command line (manage.py),      *)
(* which also writes private key files.  A command's transaction and its   *)
(* key file are separate steps: the file system does not roll back.        *)
(***************************************************************************)
EXTENDS AdminAuth

CONSTANTS
  OfficerIds,
  MaxKeys             \* bound: key pairs generated

ASSUME AdministrationAssumptions == MaxKeys \in Nat

VARIABLES
  officers,           \* officers: public key and active flag, or nothing
  key_files,          \* per officer's key file, the private key in it or NoKey
  keys,               \* how many key pairs were generated
  unsaved             \* register-officer's key, committed but not yet written

officerVars == <<officers, key_files, keys, unsaved>>

NoKey == 0
Keys == 1..MaxKeys
NotRegistered == [key |-> NoKey, active |-> FALSE]
Officer == [key : Keys, active : BOOLEAN]

InitAdministration ==
  /\ Init
  /\ officers = [o \in OfficerIds |-> NotRegistered]
  /\ key_files = [o \in OfficerIds |-> NoKey]
  /\ keys = 0
  /\ unsaved = [o \in OfficerIds |-> NoKey]

FreshKey == keys + 1

(* Mutant: the file is opened without O_EXCL. *)
Truncated(o, k) == [key_files EXCEPT ![o] = k]

(* _write_key: O_CREAT and O_EXCL; an existing file is never overwritten. *)
Written(o, k) == [key_files EXCEPT ![o] = IF @ = NoKey THEN k ELSE @]

(* manage.officer_keygen: on the officer's own device. *)
OfficerKeygen(o) ==
  /\ keys < MaxKeys
  /\ keys' = FreshKey
  /\ key_files' = Written(o, FreshKey)
  /\ UNCHANGED <<officers, unsaved>>

(* INSERT INTO officers: the officer's id is the primary key. *)
Insert(o, k) ==
  /\ officers[o] = NotRegistered
  /\ officers' = [officers EXCEPT ![o] = [key |-> k, active |-> TRUE]]

(* A public key printed earlier, whichever file its private half went to. *)
AddOfficer(o, k) ==
  /\ k \in 1..keys
  /\ Insert(o, k)
  /\ UNCHANGED <<key_files, keys, unsaved>>

SetOfficerState(o, active) ==
  /\ officers[o] # NotRegistered
  /\ officers' = [officers EXCEPT ![o].active = active]
  /\ UNCHANGED <<key_files, keys, unsaved>>

(* manage.register_officer: the row is committed first, the key file is     *)
(* created after it and is missing when the file exists already or the      *)
(* command is killed.                                                       *)
RegisterOfficer(o) ==
  /\ keys < MaxKeys
  /\ keys' = FreshKey
  /\ Insert(o, FreshKey)
  /\ unsaved' = [unsaved EXCEPT ![o] = FreshKey]
  /\ UNCHANGED key_files

SaveKey(o) ==
  /\ unsaved[o] # NoKey
  /\ key_files' = Written(o, unsaved[o])
  /\ unsaved' = [unsaved EXCEPT ![o] = NoKey]
  /\ UNCHANGED <<officers, keys>>

KillCommand(o) ==
  /\ unsaved[o] # NoKey
  /\ unsaved' = [unsaved EXCEPT ![o] = NoKey]
  /\ UNCHANGED <<officers, key_files, keys>>

CommandLine(o) ==
  \/ OfficerKeygen(o)
  \/ \E k \in Keys : AddOfficer(o, k)
  \/ SetOfficerState(o, FALSE)
  \/ RegisterOfficer(o)
  \/ SaveKey(o)
  \/ KillCommand(o)

AdminCall(r) ==
  \/ Serve(r, "register_voter") /\ UNCHANGED officerVars
  \/ Serve(r, "add_officer") /\ \E o \in OfficerIds, k \in Keys : AddOfficer(o, k)
  \/ /\ Serve(r, "set_officer_state")
     /\ \E o \in OfficerIds, active \in BOOLEAN : SetOfficerState(o, active)

NextAdministration ==
  \/ AuthStep /\ UNCHANGED officerVars
  \/ \E r \in Requests : AdminCall(r)
  \/ \E o \in OfficerIds : CommandLine(o) /\ UNCHANGED authVars

administrationVars == <<authVars, officerVars>>

SpecAdministration == InitAdministration /\ [][NextAdministration]_administrationVars

-----------------------------------------------------------------------------
(* Properties. *)

(* Every variable keeps its type. *)
TypeOK ==
  /\ AuthTypeOK
  /\ officers \in [OfficerIds -> Officer \cup {NotRegistered}]
  /\ key_files \in [OfficerIds -> Keys \cup {NoKey}]
  /\ keys \in 0..MaxKeys
  /\ unsaved \in [OfficerIds -> Keys \cup {NoKey}]

CanSign(o) == officers[o] # NotRegistered /\ key_files[o] = officers[o].key

(* Whether a registered officer can sign is settled when her registration   *)
(* ends, for good.  While register-officer has her key in hand, she gets it *)
(* exactly when the command lives to save it and no key file, of any        *)
(* earlier or overlapping command, is in its way.  From then on no command  *)
(* and no administrator replaces the public key her sheets are verified     *)
(* with or overwrites the private one, and one who was left without her key *)
(* never comes by it.                                                       *)
SigningIsSettled ==
  [][\A o \in OfficerIds :
       officers[o] # NotRegistered =>
         /\ unsaved[o] # NoKey =>
              (CanSign(o)' <=> SaveKey(o) /\ key_files[o] = NoKey)
         /\ unsaved[o] = NoKey => (CanSign(o)' <=> CanSign(o))]_administrationVars
=============================================================================
