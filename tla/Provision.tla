----------------------------- MODULE Provision -----------------------------
(***************************************************************************)
(* Provisioning: nrf_softsim_provision of lib/nrf_softsim.c, the key       *)
(* import of lib/ss_crypto.c and port_provision of lib/ss_fs.c.  A profile *)
(* becomes three keys of the PSA key store and four or five records of NVS *)
(* one after the other.  Each of these writes is atomic; the power may go  *)
(* between any two of them, and the key store and NVS may refuse any.      *)
(*                                                                         *)
(* Data abstraction: a key or record is the profile it came from; of the   *)
(* record EF.SMSP, which is overlaid and not replaced, each part is.  BAD  *)
(* is an input the length check, the decoder or the check for missing      *)
(* fields rejects.  The decoder and the key store are external.            *)
(***************************************************************************)
EXTENDS Integers, Sequences, FiniteSets

CONSTANTS
  Profiles,      \* the profiles that decode
  SmspProfiles,  \* those that carry an SMSP, the record of SMS parameters
  SmscProfiles,  \* those that carry an SMSC, the service-centre address
  BAD,           \* an input that is rejected
  TEMPLATE,      \* a record as the flashed template has it
  NULL,          \* no key, no profile
  KeyFaults,     \* the key store may fail a call
  NvsFaults,     \* NVS may fail a mount, a read or a write
  MAX_CALLS      \* bound of the model: calls of nrf_softsim_provision

ASSUME ProvisionAssumption ==
  /\ SmspProfiles \subseteq Profiles /\ SmscProfiles \subseteq Profiles
  /\ BAD \notin Profiles /\ TEMPLATE \notin Profiles /\ NULL \notin Profiles
  /\ NULL \notin {0, -1}
  /\ KeyFaults \in BOOLEAN /\ NvsFaults \in BOOLEAN
  /\ MAX_CALLS \in Nat

VARIABLES
  keys,       \* the PSA key store
  efs,        \* the records in NVS
  smsp,       \* the parts of the record EF.SMSP in NVS
  fs_up,      \* fs_is_initialized
  step,       \* the write nrf_softsim_provision is at, or "idle"
  profile,    \* its argument; history: the last one it accepted
  status,     \* what the last call returned: 0, -1, or NULL while none has
  just_provisioned,
  flawed,     \* history: a key operation of this call failed
  named,      \* history: this call has written the IMSI
  calls       \* history: calls so far

flash_vars == <<keys, efs, smsp>>
call_vars  == <<profile, flawed, named, calls>>
pvars == <<keys, efs, smsp, fs_up, step, profile, status, just_provisioned, flawed, named, calls>>

KeyIds == {"KI", "KIC", "KID"}
Efs    == {"IMSI", "ICCID", "A001", "A004"}

(* EF.SMSP: record 1 with the service-centre address in it, and record 2.  *)
SmspParts == {"params", "sca", "tail", "record_2"}

(* Where a part can come from.                                             *)
SmspSources == {TEMPLATE} \cup ({"SMSP", "SMSC"} \X Profiles)

(* Fault: the records are written before the keys are imported.            *)
StepsRecordsFirst ==
  <<"mount", "IMSI", "ICCID", "A001", "A004", "SMSP", "destroy_KI", "import_KI",
    "destroy_KIC", "import_KIC", "destroy_KID", "import_KID", "done">>

(* The writes in the order of the code; a key is destroyed, then imported. *)
Steps == <<"destroy_KI", "import_KI", "destroy_KIC", "import_KIC", "destroy_KID", "import_KID",
           "mount", "IMSI", "ICCID", "A001", "A004", "SMSP", "done">>

After(s) == Steps[(CHOOSE i \in DOMAIN Steps : Steps[i] = s) + 1]

Destroys == [k \in KeyIds |-> CASE k = "KI" -> "destroy_KI" [] k = "KIC" -> "destroy_KIC"
                                [] OTHER -> "destroy_KID"]

TypeOK ==
  /\ keys \in [KeyIds -> Profiles \cup {NULL}]
  /\ efs \in [Efs -> Profiles \cup {TEMPLATE}]
  /\ smsp \in [SmspParts -> SmspSources]
  /\ fs_up \in BOOLEAN
  /\ step \in {Steps[i] : i \in DOMAIN Steps} \cup {"idle"}
  /\ profile \in Profiles \cup {NULL}
  /\ status \in {0, -1, NULL}
  /\ just_provisioned \in BOOLEAN /\ flawed \in BOOLEAN /\ named \in BOOLEAN
  /\ calls \in 0..MAX_CALLS

PInit ==
  /\ keys = [k \in KeyIds |-> NULL]
  /\ efs = [f \in Efs |-> TEMPLATE]
  /\ smsp = [q \in SmspParts |-> TEMPLATE]
  /\ fs_up = FALSE
  /\ step = "idle"
  /\ profile = NULL /\ status = NULL
  /\ just_provisioned = FALSE /\ flawed = FALSE /\ named = FALSE
  /\ calls = 0

-----------------------------------------------------------------------------
(* nrf_softsim_provision, entered with input p: a rejected input returns   *)
(* before anything is written.                                             *)
nrf_softsim_provision(p) ==
  /\ step = "idle" /\ calls < MAX_CALLS
  /\ calls' = calls + 1
  /\ \/ /\ p = BAD
        /\ status' = -1
        /\ UNCHANGED <<step, profile, flawed, named>>
     \/ /\ p \in Profiles
        /\ profile' = p
        /\ step' = Steps[1]
        /\ status' = NULL
        /\ flawed' = FALSE /\ named' = FALSE
  /\ UNCHANGED <<flash_vars, fs_up, just_provisioned>>

(* ss_utils_setup_key_helper for key k, first half: destroy the old key if *)
(* there is one.  After an error of psa_crypto_init, the query or the      *)
(* destruction the old key stays; the caller goes on with the next key.    *)
destroy_key(k) ==
  /\ step = Destroys[k]
  /\ \/ /\ keys' = [keys EXCEPT ![k] = NULL]
        /\ step' = After(step)
        /\ UNCHANGED flawed
     \/ /\ KeyFaults
        /\ flawed' = TRUE
        /\ step' = After(After(step))
        /\ UNCHANGED keys
  /\ UNCHANGED <<efs, smsp, fs_up, profile, status, just_provisioned, named, calls>>

(* Second half: import the new key.  An error is not reported either.      *)
import_key(k) ==
  /\ step = After(Destroys[k])
  /\ \/ /\ keys' = [keys EXCEPT ![k] = profile]
        /\ UNCHANGED flawed
     \/ /\ KeyFaults
        /\ flawed' = TRUE
        /\ UNCHANGED keys
  /\ step' = After(step)
  /\ UNCHANGED <<efs, smsp, fs_up, profile, status, just_provisioned, named, calls>>

Fail ==
  /\ status' = -1
  /\ step' = "idle"
  /\ UNCHANGED <<flash_vars, just_provisioned, call_vars>>

(* port_provision: bring the filesystem up.                                *)
mount ==
  /\ step = "mount"
  /\ \/ NvsFaults /\ ~fs_up /\ Fail /\ UNCHANGED fs_up
     \/ /\ fs_up' = TRUE
        /\ step' = After(step)
        /\ UNCHANGED <<flash_vars, status, just_provisioned, call_vars>>

(* One record.  The call fails at the first one that is missing from the   *)
(* directory or that NVS refuses.                                          *)
write_ef(f) ==
  /\ step = f
  /\ \/ NvsFaults /\ Fail /\ UNCHANGED fs_up
     \/ /\ efs' = [efs EXCEPT ![f] = profile]
        /\ named' = (named \/ f = "IMSI")
        /\ step' = After(step)
        /\ UNCHANGED <<keys, smsp, fs_up, profile, status, just_provisioned, flawed, calls>>

(* Fault: the SMSP is laid over the SMSC.                                  *)
OverlaidSmspLast(p) ==
  [q \in SmspParts |->
     IF p \in SmspProfiles /\ q # "record_2" THEN <<"SMSP", p>>
     ELSE IF p \in SmscProfiles /\ q = "sca" THEN <<"SMSC", p>>
     ELSE smsp[q]]

(* What was read, record 1 overlaid with the SMSP and then the SMSC, each  *)
(* only when the profile has it.                                           *)
Overlaid(p) ==
  [q \in SmspParts |->
     IF p \in SmscProfiles /\ q = "sca" THEN <<"SMSC", p>>
     ELSE IF p \in SmspProfiles /\ q # "record_2" THEN <<"SMSP", p>>
     ELSE smsp[q]]

(* EF.SMSP is read, overlaid and written as one, and left alone unless the *)
(* profile has something for it.  The call fails when it is missing from   *)
(* the directory, of another length, or cannot be read or written.         *)
write_smsp ==
  /\ step = "SMSP"
  /\ \/ NvsFaults /\ profile \in SmspProfiles \cup SmscProfiles /\ Fail /\ UNCHANGED fs_up
     \/ /\ smsp' = Overlaid(profile)
        /\ step' = After(step)
        /\ UNCHANGED <<keys, efs, fs_up, status, just_provisioned, call_vars>>

(* The call returns 0.                                                     *)
provisioned ==
  /\ step = "done"
  /\ status' = 0
  /\ just_provisioned' = TRUE
  /\ step' = "idle"
  /\ UNCHANGED <<flash_vars, fs_up, call_vars>>

provision_step ==
  \/ \E k \in KeyIds : destroy_key(k) \/ import_key(k)
  \/ mount
  \/ \E f \in Efs : write_ef(f)
  \/ write_smsp
  \/ provisioned

(* Power loss or reboot.                                                   *)
restart ==
  /\ step' = "idle" /\ status' = NULL /\ fs_up' = FALSE
  /\ just_provisioned' = FALSE
  /\ UNCHANGED <<flash_vars, call_vars>>

-----------------------------------------------------------------------------
(* The values ss_utils_check_key_existence(KEY_ID_KI) can return.          *)
check_key_existence ==
  {IF keys["KI"] = NULL THEN 0 ELSE 1} \cup (IF KeyFaults THEN {-1} ELSE {})

(* Fault: the IMSI is read, and not compared with the template's.          *)
port_check_provisioned_any == {IF fs_up THEN 1 ELSE 0}

(* The values port_check_provisioned can return: 0 also when NVS cannot    *)
(* be read.                                                                *)
port_check_provisioned ==
  {IF fs_up /\ efs["IMSI"] # TEMPLATE THEN 1 ELSE 0} \cup (IF NvsFaults THEN {0} ELSE {})

(* The values nrf_softsim_check_provisioned can return.                    *)
check_provisioned ==
  {IF k # 0 /\ f # 0 THEN 1 ELSE 0 : k \in check_key_existence, f \in port_check_provisioned}

(* Keys come before the identity: once a call has written the IMSI, every  *)
(* key of that profile is in the key store, whenever the power goes,       *)
(* unless the key store failed.                                            *)
KeysBeforeIdentity ==
  named /\ ~flawed => \A k \in KeyIds : keys[k] = profile

(* The parts of EF.SMSP the profile provides are in it.                    *)
SmspWritten ==
  /\ profile \in SmscProfiles => smsp["sca"] = <<"SMSC", profile>>
  /\ profile \in SmspProfiles => smsp["params"] = <<"SMSP", profile>>

(* A call that returns 0 has written every record of its profile.  Of      *)
(* EF.SMSP it has overlaid what the profile provides, an explicit SMSC on  *)
(* top, and never touched the second record (docs/provisioning.md: "so the *)
(* rest of the record survives").                                          *)
OkMeansRecords ==
  /\ status = 0 => (\A f \in Efs : efs[f] = profile) /\ SmspWritten
  /\ smsp["record_2"] = TEMPLATE

(* The inductive invariant, for the proofs.  The steps at which the key k  *)
(* is still to be imported, and those at which record f has been written.  *)
KeyPending(k) ==
  CASE k = "KI"  -> {"destroy_KI", "import_KI"}
    [] k = "KIC" -> {"destroy_KI", "import_KI", "destroy_KIC", "import_KIC"}
    [] OTHER     -> {"destroy_KI", "import_KI", "destroy_KIC", "import_KIC",
                     "destroy_KID", "import_KID"}

EfWritten(f) ==
  CASE f = "IMSI"  -> {"ICCID", "A001", "A004", "SMSP", "done"}
    [] f = "ICCID" -> {"A001", "A004", "SMSP", "done"}
    [] f = "A001"  -> {"A004", "SMSP", "done"}
    [] OTHER       -> {"SMSP", "done"}

(* How far a call has come tells what it has written.                      *)
CallInv ==
  /\ step # "idle" => profile \in Profiles /\ status = NULL
  /\ named => step \in {"idle"} \cup EfWritten("IMSI")
  /\ step # "idle" /\ ~flawed => \A k \in KeyIds : step \in KeyPending(k) \/ keys[k] = profile
  /\ \A f \in Efs : step \in EfWritten(f) => efs[f] = profile
  /\ step = "done" => SmspWritten
  /\ KeysBeforeIdentity /\ OkMeansRecords

(* When nrf_softsim_check_provisioned returns 1 the KI key exists          *)
(* (docs/provisioning.md: "the KI key exists").                            *)
ProvisionedHasKey ==
  1 \in check_provisioned => keys["KI"] # NULL
=============================================================================
