-------------------------- MODULE SampleBootProofs --------------------------
(***************************************************************************)
(* Proofs about Provision and SampleBoot, for all profiles, texts, builds  *)
(* and bounds: what the flash holds however far a call of                  *)
(* nrf_softsim_provision came before the power went, and what the boot     *)
(* flow makes of it.                                                       *)
(***************************************************************************)
EXTENDS SampleBoot, SequenceTheorems, TLAPS

USE ProvisionAssumption, BootAssumption

-----------------------------------------------------------------------------
(* The order of the writes.                                                *)

(* The names of the steps.                                                 *)
StepNames == {"destroy_KI", "import_KI", "destroy_KIC", "import_KIC", "destroy_KID", "import_KID",
              "mount", "IMSI", "ICCID", "A001", "A004", "SMSP", "done"}

LEMMA StepValues ==
  /\ DOMAIN Steps = 1..13
  /\ Steps[1] = "destroy_KI" /\ Steps[2] = "import_KI" /\ Steps[3] = "destroy_KIC"
  /\ Steps[4] = "import_KIC" /\ Steps[5] = "destroy_KID" /\ Steps[6] = "import_KID"
  /\ Steps[7] = "mount" /\ Steps[8] = "IMSI" /\ Steps[9] = "ICCID" /\ Steps[10] = "A001"
  /\ Steps[11] = "A004" /\ Steps[12] = "SMSP" /\ Steps[13] = "done"
BY DEF Steps

LEMMA StepsType == {Steps[i] : i \in DOMAIN Steps} = StepNames
<1>1. \A i \in 1..13 : i = 1 \/ i = 2 \/ i = 3 \/ i = 4 \/ i = 5 \/ i = 6 \/ i = 7 \/ i = 8
                        \/ i = 9 \/ i = 10 \/ i = 11 \/ i = 12 \/ i = 13
  OBVIOUS
<1>2. ASSUME NEW i \in DOMAIN Steps PROVE Steps[i] \in StepNames
  BY <1>1, StepValues DEF StepNames
<1>3. ASSUME NEW s \in StepNames PROVE \E i \in DOMAIN Steps : Steps[i] = s
  BY StepValues DEF StepNames
<1> QED
  BY <1>2, <1>3

(* The names differ, so that every step has one that follows it.           *)
LEMMA AfterIndex ==
  ASSUME NEW i \in 1..12, \A j \in 1..13 : Steps[j] = Steps[i] => j = i
  PROVE  After(Steps[i]) = Steps[i + 1]
<1>1. (CHOOSE j \in DOMAIN Steps : Steps[j] = Steps[i]) = i
  BY StepValues
<1> QED
  BY <1>1, Zenon DEF After

LEMMA AfterTable ==
  /\ After("destroy_KI") = "import_KI"   /\ After("import_KI") = "destroy_KIC"
  /\ After("destroy_KIC") = "import_KIC" /\ After("import_KIC") = "destroy_KID"
  /\ After("destroy_KID") = "import_KID" /\ After("import_KID") = "mount"
  /\ After("mount") = "IMSI" /\ After("IMSI") = "ICCID" /\ After("ICCID") = "A001"
  /\ After("A001") = "A004"  /\ After("A004") = "SMSP"  /\ After("SMSP") = "done"
<1>1. \A i \in 1..13 : i = 1 \/ i = 2 \/ i = 3 \/ i = 4 \/ i = 5 \/ i = 6 \/ i = 7 \/ i = 8
                        \/ i = 9 \/ i = 10 \/ i = 11 \/ i = 12 \/ i = 13
  OBVIOUS
<1>2. \A i, j \in 1..13 : Steps[j] = Steps[i] => j = i
  BY <1>1, StepValues, SMTT(30)
<1>3. \A i \in 1..12 : After(Steps[i]) = Steps[i + 1]
  BY <1>2, AfterIndex
<1> QED
  BY <1>3, StepValues


-----------------------------------------------------------------------------
(* What a step of the boot is to the provisioning.                         *)
MountOnly ==
  /\ fs_up' \in BOOLEAN
  /\ UNCHANGED <<flash_vars, step, status, just_provisioned, call_vars>>

ProvisionNext ==
  \/ UNCHANGED pvars
  \/ MountOnly
  \/ \E p \in Profiles \cup {BAD} : nrf_softsim_provision(p)
  \/ provision_step
  \/ restart

LEMMA DecodedType == Decoded \in Profiles \cup {BAD}
BY DEF Decoded

LEMMA MayFailType == ASSUME NEW b, NEW f \in MayFail(b) PROVE f \in BOOLEAN
BY Zenon DEF MayFail

(* Every step of the sample, its interrupts and the kernel changes the     *)
(* state of the provisioning by one of its operations only.                *)
LEMMA ProvisionMoves ==
  ASSUME BootTypeOK, [Next]_vars
  PROVE  ProvisionNext
<1> USE DEF ProvisionNext
<1>1. CASE init_fs
  <2>1. fs_up' \in BOOLEAN
    BY <1>1, MayFailType, Zenon DEF init_fs
  <2> QED
    BY <1>1, <2>1 DEF init_fs, MountOnly
<1>2. CASE static_profile
  <2>1. CASE UNCHANGED pvars
    BY <2>1
  <2>2. CASE build.static # NULL /\ nrf_softsim_provision(build.static)
    <3>1. build.static \in Profiles \cup {BAD}
      BY <2>2 DEF BootTypeOK, AllBuilds
    <3> QED
      BY <2>2, <3>1
  <2> QED
    BY <1>2, <2>1, <2>2 DEF static_profile
<1>3. CASE provision
  BY <1>3, DecodedType DEF provision
<1>4. CASE provisioning
  BY <1>4 DEF provisioning
<1>5. CASE drain_logs_and_reboot \/ PowerLoss
  BY <1>5 DEF drain_logs_and_reboot, PowerLoss, Restarted
<1>6. CASE \/ register \/ check \/ receive \/ wait \/ received \/ provision_returned \/ modem
           \/ modem_factory_reset \/ modem_connect \/ wait_lte \/ server_connect
  BY <1>6 DEF register, check, receive, wait, received, provision_returned, modem,
              modem_factory_reset, modem_connect, wait_lte, server_connect
<1>7. CASE \E c \in Chars \cup {NULL} : serial_cb(c)
  BY <1>7 DEF serial_cb
<1>8. CASE lte_handler \/ server_transmission_work_fn \/ work_due
  BY <1>8 DEF lte_handler, server_transmission_work_fn, work_due
<1>9. CASE UNCHANGED vars
  BY <1>9 DEF vars
<1> QED
  BY <1>1, <1>2, <1>3, <1>4, <1>5, <1>6, <1>7, <1>8, <1>9 DEF Next, main


-----------------------------------------------------------------------------
(* A call of nrf_softsim_provision: its type, and how far it has come.     *)

LEMMA PendingTable ==
  /\ KeyPending("KI") = {"destroy_KI", "import_KI"}
  /\ KeyPending("KIC") = {"destroy_KI", "import_KI", "destroy_KIC", "import_KIC"}
  /\ KeyPending("KID") = {"destroy_KI", "import_KI", "destroy_KIC", "import_KIC",
                          "destroy_KID", "import_KID"}
BY DEF KeyPending

LEMMA WrittenTable ==
  /\ EfWritten("IMSI") = {"ICCID", "A001", "A004", "SMSP", "done"}
  /\ EfWritten("ICCID") = {"A001", "A004", "SMSP", "done"}
  /\ EfWritten("A001") = {"A004", "SMSP", "done"}
  /\ EfWritten("A004") = {"SMSP", "done"}
BY DEF EfWritten

(* A step of a call that changes no record and does not end it.            *)
KeyStep(k) ==
  /\ keys' \in [KeyIds -> Profiles \cup {NULL}]
  /\ \A l \in KeyIds \ {k} : keys'[l] = keys[l]
  /\ flawed' \in BOOLEAN /\ (flawed => flawed')
  /\ UNCHANGED <<efs, smsp, fs_up, profile, status, just_provisioned, named, calls>>

(* The two halves of ss_utils_setup_key_helper: the key is imported when   *)
(* the call goes on to the next one, or the call is flawed.                *)
LEMMA DestroyMoves ==
  ASSUME NEW k \in KeyIds, TypeOK, CallInv, destroy_key(k)
  PROVE  /\ KeyStep(k)
         /\ \/ k = "KI" /\ step = "destroy_KI"
                /\ (step' = "import_KI" \/ (flawed' /\ step' = "destroy_KIC"))
            \/ k = "KIC" /\ step = "destroy_KIC"
                /\ (step' = "import_KIC" \/ (flawed' /\ step' = "destroy_KID"))
            \/ k = "KID" /\ step = "destroy_KID"
                /\ (step' = "import_KID" \/ (flawed' /\ step' = "mount"))
<1>1. KeyStep(k)
  <2>1. flawed' \in BOOLEAN /\ (flawed => flawed')
    BY Zenon DEF destroy_key, TypeOK
  <2>2. keys' \in [KeyIds -> Profiles \cup {NULL}] /\ \A l \in KeyIds \ {k} : keys'[l] = keys[l]
    BY SMTT(30) DEF destroy_key, TypeOK
  <2> QED
    BY <2>1, <2>2 DEF destroy_key, KeyStep
<1>2. (k = "KI" /\ step = "destroy_KI") \/ (k = "KIC" /\ step = "destroy_KIC")
        \/ (k = "KID" /\ step = "destroy_KID")
  BY DEF destroy_key, Destroys, KeyIds
<1>3. step' = After(step) \/ (flawed' /\ step' = After(After(step)))
  BY DEF destroy_key
<1> QED
  BY <1>1, <1>2, <1>3, AfterTable

LEMMA ImportMoves ==
  ASSUME NEW k \in KeyIds, TypeOK, CallInv, import_key(k)
  PROVE  /\ KeyStep(k)
         /\ flawed' \/ keys'[k] = profile
         /\ \/ k = "KI" /\ step = "import_KI" /\ step' = "destroy_KIC"
            \/ k = "KIC" /\ step = "import_KIC" /\ step' = "destroy_KID"
            \/ k = "KID" /\ step = "import_KID" /\ step' = "mount"
<1>1. (k = "KI" /\ step = "import_KI") \/ (k = "KIC" /\ step = "import_KIC")
        \/ (k = "KID" /\ step = "import_KID")
  BY AfterTable DEF import_key, Destroys, KeyIds
<1>2. profile \in Profiles
  BY <1>1 DEF CallInv
<1>3. KeyStep(k)
  <2>1. flawed' \in BOOLEAN /\ (flawed => flawed')
    BY Zenon DEF import_key, TypeOK
  <2>2. keys' \in [KeyIds -> Profiles \cup {NULL}] /\ \A l \in KeyIds \ {k} : keys'[l] = keys[l]
    BY <1>2 DEF import_key, TypeOK
  <2> QED
    BY <2>1, <2>2 DEF import_key, KeyStep
<1>4. flawed' \/ keys'[k] = profile
  BY <1>2 DEF import_key, TypeOK
<1> QED
  BY <1>1, <1>3, <1>4, AfterTable DEF import_key

LEMMA KeyStepInv ==
  ASSUME TypeOK, CallInv, NEW k \in KeyIds, destroy_key(k) \/ import_key(k)
  PROVE  TypeOK' /\ CallInv'
<1>1. KeyStep(k) /\ step \in StepNames /\ step' \in StepNames
  BY DestroyMoves, ImportMoves DEF StepNames
<1>2. TypeOK'
  BY <1>1, StepsType DEF TypeOK, KeyStep
<1>3. ~named
  BY DestroyMoves, ImportMoves, WrittenTable DEF CallInv
<1>4. step # "idle" /\ profile \in Profiles /\ status = NULL
  BY <1>1 DEF CallInv, StepNames
<1>5. \A f \in Efs : step' \notin EfWritten(f)
  BY DestroyMoves, ImportMoves, WrittenTable DEF Efs
<1>6. ~flawed' => \A l \in KeyIds : step' \in KeyPending(l) \/ keys'[l] = profile
  <2> SUFFICES ASSUME ~flawed', NEW l \in KeyIds, step' \notin KeyPending(l)
               PROVE  keys'[l] = profile
    OBVIOUS
  <2>1. ~flawed
    BY <1>1 DEF KeyStep
  <2>2. CASE l = k
    BY <2>2, DestroyMoves, ImportMoves, PendingTable
  <2>3. CASE l # k
    <3>1. step \notin KeyPending(l)
      BY <2>3, DestroyMoves, ImportMoves, PendingTable DEF KeyIds
    <3> QED
      BY <1>1, <1>4, <2>1, <2>3, <3>1 DEF CallInv, KeyStep
  <2> QED
    BY <2>2, <2>3
<1>7. step' # "done" /\ step' # "idle"
  BY DestroyMoves, ImportMoves
<1>8. KeysBeforeIdentity' /\ OkMeansRecords'
  BY <1>1, <1>3, <1>4 DEF KeysBeforeIdentity, OkMeansRecords, KeyStep, CallInv, SmspWritten
<1>9. ~named' /\ profile' = profile /\ status' = status
  BY <1>1, <1>3 DEF KeyStep
<1> QED
  BY <1>2, <1>4, <1>5, <1>6, <1>7, <1>8, <1>9 DEF CallInv


(* Entering a call, ending it and losing the power.                        *)
LEMMA EnterInv ==
  ASSUME TypeOK, CallInv, NEW p \in Profiles \cup {BAD}, nrf_softsim_provision(p)
  PROVE  TypeOK' /\ CallInv'
<1>1. calls' \in 0..MAX_CALLS
  BY DEF TypeOK, nrf_softsim_provision
<1>2. UNCHANGED <<keys, efs, smsp, fs_up, just_provisioned>> /\ step = "idle"
  BY DEF nrf_softsim_provision, flash_vars
<1>3. CASE status' = -1 /\ UNCHANGED <<step, profile, flawed, named>>
  <2>1. TypeOK'
    BY <1>1, <1>2, <1>3 DEF TypeOK
  <2>2. KeysBeforeIdentity' /\ OkMeansRecords'
    BY <1>2, <1>3 DEF CallInv, KeysBeforeIdentity, OkMeansRecords
  <2>3. \A f \in Efs : step' \notin EfWritten(f)
    BY <1>2, <1>3, WrittenTable, SMTT(30) DEF Efs
  <2> QED
    BY <1>2, <1>3, <2>1, <2>2, <2>3 DEF CallInv
<1>4. CASE /\ p \in Profiles /\ profile' = p /\ step' = "destroy_KI" /\ status' = NULL
           /\ flawed' = FALSE /\ named' = FALSE
  <2>1. TypeOK'
    BY <1>1, <1>2, <1>4, StepsType, Zenon DEF TypeOK, StepNames
  <2>2. KeysBeforeIdentity' /\ OkMeansRecords'
    BY <1>2, <1>4 DEF CallInv, KeysBeforeIdentity, OkMeansRecords
  <2>3. \A f \in Efs : step' \notin EfWritten(f)
    BY <1>4, WrittenTable DEF Efs
  <2>4. \A k \in KeyIds : step' \in KeyPending(k)
    BY <1>4, PendingTable DEF KeyIds
  <2> QED
    BY <1>4, <2>1, <2>2, <2>3, <2>4 DEF CallInv
<1> QED
  BY <1>3, <1>4, StepValues, Zenon DEF nrf_softsim_provision

(* A call that is over has its key order and its result to answer for.     *)
LEMMA IdleInv ==
  ASSUME step' = "idle", KeysBeforeIdentity', OkMeansRecords'
  PROVE  CallInv'
<1>1. \A f \in Efs : step' \notin EfWritten(f)
  BY WrittenTable DEF Efs
<1> QED
  BY <1>1 DEF CallInv

LEMMA FailInv ==
  ASSUME TypeOK, CallInv, Fail, UNCHANGED fs_up
  PROVE  TypeOK' /\ CallInv'
<1>1. TypeOK'
  BY DEF TypeOK, Fail, flash_vars, call_vars
<1>2. KeysBeforeIdentity' /\ OkMeansRecords'
  BY DEF CallInv, KeysBeforeIdentity, OkMeansRecords, Fail, flash_vars, call_vars
<1> QED
  BY <1>1, <1>2, IdleInv DEF Fail

LEMMA RestartInv ==
  ASSUME TypeOK, CallInv, restart
  PROVE  TypeOK' /\ CallInv'
<1>1. TypeOK'
  BY Zenon DEF TypeOK, restart, flash_vars, call_vars
<1>2. KeysBeforeIdentity' /\ OkMeansRecords'
  BY DEF CallInv, KeysBeforeIdentity, OkMeansRecords, restart, flash_vars, call_vars
<1> QED
  BY <1>1, <1>2, IdleInv DEF restart

LEMMA DoneInv ==
  ASSUME TypeOK, CallInv, provisioned
  PROVE  TypeOK' /\ CallInv'
<1>1. TypeOK'
  BY DEF TypeOK, provisioned, flash_vars, call_vars
<1>2. KeysBeforeIdentity'
  BY DEF CallInv, KeysBeforeIdentity, provisioned, flash_vars, call_vars
<1>3. (\A f \in Efs : efs[f] = profile) /\ SmspWritten /\ smsp["record_2"] = TEMPLATE
  <2>1. \A f \in Efs : step \in EfWritten(f)
    BY WrittenTable DEF provisioned, Efs
  <2> QED
    BY <2>1 DEF CallInv, provisioned, OkMeansRecords
<1>4. OkMeansRecords'
  BY <1>3 DEF OkMeansRecords, provisioned, SmspWritten, flash_vars, call_vars
<1> QED
  BY <1>1, <1>2, <1>4, IdleInv DEF provisioned

(* The records of port_provision.                                          *)
LEMMA MountInv ==
  ASSUME TypeOK, CallInv, mount
  PROVE  TypeOK' /\ CallInv'
<1>1. CASE Fail /\ UNCHANGED fs_up
  BY <1>1, FailInv
<1>2. CASE fs_up' = TRUE /\ step' = After(step) /\ UNCHANGED <<flash_vars, status, just_provisioned, call_vars>>
  <2>1. step = "mount" /\ step' = "IMSI"
    BY <1>2, AfterTable DEF mount
  <2>2. TypeOK'
    BY <1>2, <2>1, StepsType, Zenon DEF TypeOK, StepNames, flash_vars, call_vars
  <2>3. \A k \in KeyIds : step \notin KeyPending(k)
    BY <2>1, PendingTable DEF KeyIds
  <2>4. \A f \in Efs : step' \notin EfWritten(f)
    BY <2>1, WrittenTable DEF Efs
  <2>5. ~named
    BY <2>1, WrittenTable DEF CallInv
  <2>6. KeysBeforeIdentity' /\ OkMeansRecords'
    BY <1>2 DEF CallInv, KeysBeforeIdentity, OkMeansRecords, SmspWritten, flash_vars, call_vars
  <2> QED
    BY <1>2, <2>1, <2>2, <2>3, <2>4, <2>5, <2>6 DEF CallInv, flash_vars, call_vars
<1> QED
  BY <1>1, <1>2, Zenon DEF mount


LEMMA WriteEfInv ==
  ASSUME TypeOK, CallInv, NEW f \in Efs, write_ef(f)
  PROVE  TypeOK' /\ CallInv'
<1>1. CASE Fail /\ UNCHANGED fs_up
  BY <1>1, FailInv
<1>2. CASE /\ efs' = [efs EXCEPT ![f] = profile]
           /\ named' = (named \/ f = "IMSI")
           /\ step' = After(step)
           /\ UNCHANGED <<keys, smsp, fs_up, profile, status, just_provisioned, flawed, calls>>
  <2>1. step = f /\ step # "idle" /\ profile \in Profiles /\ status = NULL
    BY DEF write_ef, CallInv, Efs
  <2>2. \/ f = "IMSI" /\ step' = "ICCID"
        \/ f = "ICCID" /\ step' = "A001"
        \/ f = "A001" /\ step' = "A004"
        \/ f = "A004" /\ step' = "SMSP"
    BY <1>2, <2>1, AfterTable DEF Efs
  <2>3. TypeOK'
    <3>1. named' \in BOOLEAN
      BY <1>2
    <3>2. step' \in {Steps[i] : i \in DOMAIN Steps} \cup {"idle"}
      BY <2>2, StepsType, Zenon DEF StepNames
    <3> QED
      BY <1>2, <2>1, <3>1, <3>2 DEF TypeOK
  <2>4. efs'[f] = profile /\ \A g \in Efs \ {f} : efs'[g] = efs[g]
    BY <1>2 DEF TypeOK
  <2>5. \A g \in Efs : step' \in EfWritten(g) => efs'[g] = profile
    <3> SUFFICES ASSUME NEW g \in Efs, step' \in EfWritten(g)
                 PROVE  efs'[g] = profile
      OBVIOUS
    <3>1. g = f \/ step \in EfWritten(g)
      BY <2>1, <2>2, WrittenTable DEF Efs
    <3> QED
      BY <2>4, <3>1 DEF CallInv
  <2>6. step' \in EfWritten("IMSI") /\ step' # "done" /\ step' # "idle"
    BY <2>2, WrittenTable
  <2>7. ~flawed => \A k \in KeyIds : keys[k] = profile
    <3>1. \A k \in KeyIds : step \notin KeyPending(k)
      BY <2>1, PendingTable, SMTT(30) DEF KeyIds, Efs
    <3> QED
      BY <2>1, <3>1 DEF CallInv
  <2>8. KeysBeforeIdentity'
    BY <1>2, <2>7 DEF KeysBeforeIdentity
  <2>9. OkMeansRecords'
    BY <1>2, <2>1 DEF OkMeansRecords, CallInv
  <2> QED
    BY <1>2, <2>1, <2>3, <2>5, <2>6, <2>7, <2>8, <2>9 DEF CallInv
<1> QED
  BY <1>1, <1>2 DEF write_ef

LEMMA OverlaidType ==
  ASSUME TypeOK, profile \in Profiles
  PROVE  Overlaid(profile) \in [SmspParts -> SmspSources]
<1>1. \A q \in SmspParts : smsp[q] \in SmspSources
  BY DEF TypeOK
<1>2. <<"SMSC", profile>> \in SmspSources /\ <<"SMSP", profile>> \in SmspSources
  BY DEF SmspSources
<1> QED
  BY <1>1, <1>2 DEF Overlaid

LEMMA OverlaidParts ==
  /\ Overlaid(profile)["record_2"] = smsp["record_2"]
  /\ profile \in SmscProfiles => Overlaid(profile)["sca"] = <<"SMSC", profile>>
  /\ profile \in SmspProfiles => Overlaid(profile)["params"] = <<"SMSP", profile>>
BY DEF Overlaid, SmspParts

LEMMA WriteSmspInv ==
  ASSUME TypeOK, CallInv, write_smsp
  PROVE  TypeOK' /\ CallInv'
<1>1. CASE Fail /\ UNCHANGED fs_up
  BY <1>1, FailInv
<1>2. CASE /\ smsp' = Overlaid(profile)
           /\ step' = After(step)
           /\ UNCHANGED <<keys, efs, fs_up, status, just_provisioned, call_vars>>
  <2>1. step = "SMSP" /\ step' = "done" /\ profile \in Profiles /\ status = NULL
    BY <1>2, AfterTable, SMTT(30) DEF write_smsp, CallInv
  <2>2. TypeOK'
    <3>1. smsp' \in [SmspParts -> SmspSources]
      BY <1>2, <2>1, OverlaidType
    <3> QED
      BY <1>2, <2>1, <3>1, StepsType, Zenon DEF TypeOK, StepNames, call_vars
  <2>3. \A f \in Efs : efs'[f] = profile
    <3>1. \A f \in Efs : step \in EfWritten(f)
      BY <2>1, WrittenTable, SMTT(30) DEF Efs
    <3> QED
      BY <1>2, <3>1 DEF CallInv
  <2>4. SmspWritten' /\ smsp'["record_2"] = TEMPLATE
    BY <1>2, OverlaidParts DEF SmspWritten, CallInv, OkMeansRecords, call_vars
  <2>5. ~flawed => \A k \in KeyIds : keys[k] = profile
    <3>1. \A k \in KeyIds : step \notin KeyPending(k)
      BY <2>1, PendingTable, SMTT(30) DEF KeyIds
    <3> QED
      BY <2>1, <3>1 DEF CallInv
  <2>6. KeysBeforeIdentity' /\ OkMeansRecords'
    BY <1>2, <2>1, <2>4, <2>5 DEF KeysBeforeIdentity, OkMeansRecords, call_vars
  <2>7. step' \in EfWritten("IMSI")
    BY <2>1, WrittenTable
  <2> QED
    BY <1>2, <2>1, <2>2, <2>3, <2>4, <2>5, <2>6, <2>7 DEF CallInv, call_vars
<1> QED
  BY <1>1, <1>2 DEF write_smsp

LEMMA CallStep ==
  ASSUME TypeOK, CallInv, ProvisionNext
  PROVE  TypeOK' /\ CallInv'
<1>1. CASE UNCHANGED pvars
  BY <1>1 DEF pvars, TypeOK, CallInv, KeysBeforeIdentity, OkMeansRecords, SmspWritten
<1>2. CASE MountOnly
  <2>1. TypeOK'
    BY <1>2, SMTT(30) DEF MountOnly, TypeOK, flash_vars, call_vars
  <2>2. CallInv'
    BY <1>2 DEF MountOnly, CallInv, KeysBeforeIdentity, OkMeansRecords, SmspWritten, flash_vars, call_vars
  <2> QED
    BY <2>1, <2>2
<1>3. CASE \E p \in Profiles \cup {BAD} : nrf_softsim_provision(p)
  BY <1>3, EnterInv
<1>4. CASE provision_step
  BY <1>4, KeyStepInv, MountInv, WriteEfInv, WriteSmspInv, DoneInv DEF provision_step
<1>5. CASE restart
  BY <1>5, RestartInv
<1> QED
  BY <1>1, <1>2, <1>3, <1>4, <1>5, SMTT(30) DEF ProvisionNext


-----------------------------------------------------------------------------
(* The boot flow.                                                          *)

(* The type of what the boot flow adds to the provisioning.                *)
OuterType ==
  /\ build \in Builds
  /\ main_pc \in MainPcs
  /\ rc \in BOOLEAN /\ registered \in BOOLEAN
  /\ rx \in Seq(Chars) /\ Len(rx) < PROFILE_MAX_SIZE
  /\ rx_enabled \in BOOLEAN
  /\ profile_received \in {0, 1} /\ lte_connected \in {0, 1}
  /\ sim \in BOOLEAN /\ connecting \in BOOLEAN
  /\ work \in {"none", "due", "timer"}
  /\ modem_nvm \in {"other", "clean"} /\ lost \in BOOLEAN
  /\ crashes \in 0..MAX_CRASHES

LEMMA OuterTypeFact == BootTypeOK <=> TypeOK /\ OuterType
BY DEF BootTypeOK, OuterType

LEMMA RestartedType ==
  ASSUME OuterType, Restarted, lost' \in BOOLEAN, crashes' \in 0..MAX_CRASHES
  PROVE  OuterType'
<1>1. <<>> \in Seq(Chars) /\ Len(<<>>) < PROFILE_MAX_SIZE
  OBVIOUS
<1> QED
  BY <1>1, Zenon DEF Restarted, OuterType, MainPcs, InitPcs

LEMMA InitStepsType ==
  ASSUME OuterType, init_fs \/ static_profile \/ register
  PROVE  OuterType'
<1> USE DEF OuterType, GoTo, outer_vars, serial_vars, lte_vars, init_vars, MainPcs, InitPcs
<1>1. CASE init_fs
  <2>1. rc' \in BOOLEAN
    BY <1>1, MayFailType DEF init_fs
  <2> QED
    BY <1>1, <2>1 DEF init_fs
<1>2. CASE static_profile
  BY <1>2 DEF static_profile
<1>3. CASE register
  <2>1. registered' \in BOOLEAN
    BY <1>3 DEF register
  <2>2. main_pc' \in {"check", "stopped"}
    BY <1>3 DEF register
  <2> QED
    BY <1>3, <2>1, <2>2, ZenonT(30) DEF register
<1> QED
  BY <1>1, <1>2, <1>3

(* The receive buffer always has room for the terminating NUL.             *)
LEMMA SerialType ==
  ASSUME OuterType, NEW c \in Chars \cup {NULL}, serial_cb(c)
  PROVE  OuterType'
<1> USE DEF OuterType, outer_vars, lte_vars, init_vars
<1>1. CASE c \in Chars /\ ~RxFull /\ rx' = Append(rx, c) /\ UNCHANGED <<rx_enabled, profile_received>>
  <2>1. rx' \in Seq(Chars) /\ Len(rx') = Len(rx) + 1 /\ Len(rx) \in Nat
    BY <1>1, AppendProperties
  <2>2. Len(rx') < PROFILE_MAX_SIZE
    BY <1>1, <2>1 DEF RxFull
  <2> QED
    BY <1>1, <2>1, <2>2 DEF serial_cb
<1>2. CASE rx_enabled' = RxSignalled /\ profile_received' = 1 /\ UNCHANGED rx
  BY <1>2, ZenonT(30) DEF serial_cb, RxSignalled
<1> QED
  BY <1>1, <1>2, Zenon DEF serial_cb

LEMMA SerialStepsType ==
  ASSUME OuterType, \/ check \/ receive \/ wait \/ received \/ provision \/ provisioning
                    \/ provision_returned
  PROVE  OuterType'
<1> USE DEF OuterType, GoTo, outer_vars, serial_vars, lte_vars, init_vars, MainPcs, SerialPcs,
            InitPcs, ModemPcs
<1>1. CASE check
  BY <1>1 DEF check
<1>2. CASE receive
  <2>1. <<>> \in Seq(Chars) /\ Len(<<>>) < PROFILE_MAX_SIZE
    OBVIOUS
  <2>2. UNCHANGED <<outer_vars, init_vars, lte_vars>> /\ main_pc' \in {"stopped", "wait"}
    BY <1>2 DEF receive
  <2>3. UNCHANGED serial_vars \/ (rx' = <<>> /\ rx_enabled' = TRUE /\ UNCHANGED profile_received)
    BY <1>2 DEF receive
  <2>4. CASE UNCHANGED serial_vars
    BY <2>2, <2>4
  <2>5. CASE rx' = <<>> /\ rx_enabled' = TRUE /\ UNCHANGED profile_received
    <3>1. rx' \in Seq(Chars) /\ Len(rx') < PROFILE_MAX_SIZE
      BY <2>1, <2>5
    <3> QED
      BY <2>2, <2>5, <3>1
  <2> QED
    BY <2>3, <2>4, <2>5, Zenon
<1>3. CASE wait
  BY <1>3 DEF wait
<1>4. CASE received
  BY <1>4, ZenonT(30) DEF received
<1>5. CASE provision
  BY <1>5 DEF provision
<1>6. CASE provisioning
  BY <1>6 DEF provisioning
<1>7. CASE provision_returned
  BY <1>7, SMTT(30) DEF provision_returned
<1> QED
  BY <1>1, <1>2, <1>3, <1>4, <1>5, <1>6, <1>7, SMTT(30)

LEMMA ModemStepsType ==
  ASSUME OuterType, modem \/ modem_factory_reset \/ modem_connect \/ wait_lte \/ server_connect
  PROVE  OuterType'
<1> USE DEF OuterType, GoTo, outer_vars, serial_vars, lte_vars, init_vars, MainPcs, ModemPcs
<1>1. CASE modem
  <2>1. sim' \in BOOLEAN
    BY <1>1 DEF modem, ss_on_modem_lib_init
  <2>2. main_pc' \in {"reset", "connect"}
    BY <1>1 DEF modem
  <2>3. UNCHANGED <<outer_vars, init_vars, serial_vars, connecting, lte_connected, work>>
    BY <1>1 DEF modem
  <2> QED
    BY <2>1, <2>2, <2>3
<1>2. CASE modem_factory_reset
  <2>1. modem_nvm' \in {"other", "clean"}
    BY <1>2 DEF modem_factory_reset
  <2> QED
    BY <1>2, <2>1 DEF modem_factory_reset
<1>3. CASE modem_connect
  <2>1. connecting' \in BOOLEAN
    BY <1>3 DEF modem_connect
  <2> QED
    BY <1>3, <2>1 DEF modem_connect
<1>4. CASE wait_lte
  BY <1>4 DEF wait_lte
<1>5. CASE server_connect
  BY <1>5 DEF server_connect
<1> QED
  BY <1>1, <1>2, <1>3, <1>4, <1>5

LEMMA OuterStep ==
  ASSUME OuterType, [Next]_vars
  PROVE  OuterType'
<1>1. CASE drain_logs_and_reboot
  <2>1. Restarted /\ lost' \in BOOLEAN /\ crashes' \in 0..MAX_CRASHES
    BY <1>1 DEF drain_logs_and_reboot, OuterType
  <2> QED
    BY <2>1, RestartedType
<1>2. CASE PowerLoss
  <2>1. Restarted /\ crashes' \in 0..MAX_CRASHES
    BY <1>2 DEF PowerLoss, OuterType
  <2>2. lost' \in BOOLEAN
    BY <1>2 DEF PowerLoss
  <2> QED
    BY <2>1, <2>2, RestartedType
<1>3. CASE lte_handler \/ server_transmission_work_fn \/ work_due
  BY <1>3 DEF lte_handler, server_transmission_work_fn, work_due, OuterType, outer_vars,
              serial_vars, init_vars
<1>4. CASE UNCHANGED vars
  BY <1>4, SMTT(30) DEF vars, OuterType, outer_vars, serial_vars, lte_vars, init_vars
<1> QED
  BY <1>1, <1>2, <1>3, <1>4, InitStepsType, SerialType, SerialStepsType, ModemStepsType
  DEF Next, main


-----------------------------------------------------------------------------
(* The identity in flash.                                                  *)

(* Nothing brings the template's IMSI back, and a call that replaces it    *)
(* goes on with the next record.                                           *)
LEMMA IdentityKept ==
  ASSUME TypeOK, CallInv, ProvisionNext
  PROVE  /\ efs["IMSI"] # TEMPLATE => efs'["IMSI"] # TEMPLATE
         /\ efs["IMSI"] = TEMPLATE /\ efs'["IMSI"] # TEMPLATE => provision_step /\ step' # "idle"
<1>1. CASE efs' = efs
  BY <1>1, SMTT(30)
<1>2. CASE \E f \in Efs : write_ef(f)
  <2>1. PICK f \in Efs : write_ef(f)
    BY <1>2
  <2>2. CASE Fail
    BY <1>1, <2>2 DEF Fail, flash_vars
  <2>3. CASE efs' = [efs EXCEPT ![f] = profile] /\ step' = After(step)
    <3>1. step = f /\ profile \in Profiles
      BY <2>1 DEF write_ef, CallInv, Efs
    <3>2. step' # "idle"
      BY <2>3, <3>1, AfterTable DEF Efs
    <3>3. efs["IMSI"] # TEMPLATE => efs'["IMSI"] # TEMPLATE
      BY <2>3, <3>1, SMTT(30) DEF TypeOK, Efs
    <3> QED
      BY <1>2, <3>2, <3>3 DEF provision_step
  <2> QED
    BY <2>1, <2>2, <2>3 DEF write_ef
<1>3. provision_step => efs' = efs \/ \E f \in Efs : write_ef(f)
  BY DEF provision_step, destroy_key, import_key, mount, write_smsp, provisioned, Fail, flash_vars
<1> QED
  BY <1>1, <1>2, <1>3
  DEF ProvisionNext, pvars, MountOnly, nrf_softsim_provision, restart, flash_vars

(* nrf_softsim_check_provisioned answers 1 for an identity only.           *)
LEMMA CheckMeansIdentity == 1 \in check_provisioned => efs["IMSI"] # TEMPLATE
<1> SUFFICES ASSUME 1 \in check_provisioned PROVE efs["IMSI"] # TEMPLATE
  OBVIOUS
<1>1. PICK k \in check_key_existence, f \in port_check_provisioned :
        1 = IF k # 0 /\ f # 0 THEN 1 ELSE 0
  BY DEF check_provisioned
<1>2. f # 0
  BY <1>1
<1> QED
  BY <1>1, <1>2 DEF port_check_provisioned

LEMMA IdentityStep ==
  ASSUME BootTypeOK, CallInv, BootInv, [Next]_vars
  PROVE  UpOnlyWithIdentity'
<1>1. ProvisionNext /\ TypeOK
  BY ProvisionMoves DEF BootTypeOK
<1>2. efs["IMSI"] # TEMPLATE => efs'["IMSI"] # TEMPLATE
  BY <1>1, IdentityKept, SMTT(30)
<1>3. build' = build
  BY Zenon DEF Next, main, vars, init_fs, static_profile, register, check, receive, wait, received,
         provision, provisioning, provision_returned, drain_logs_and_reboot, modem,
         modem_factory_reset, modem_connect, wait_lte, server_connect, serial_cb, lte_handler,
         server_transmission_work_fn, work_due, PowerLoss, Restarted, GoTo, outer_vars
<1>4. main_pc' \in ModemPcs /\ main_pc \notin ModemPcs => check \/ (build.reset /\ provision_returned)
  <2>1. CASE init_fs \/ static_profile \/ register
    BY <2>1 DEF init_fs, static_profile, register, GoTo, ModemPcs
  <2>2. CASE receive \/ wait \/ received \/ provision \/ provisioning
    BY <2>2 DEF receive, wait, received, provision, provisioning, GoTo, ModemPcs
  <2>3. CASE provision_returned
    BY <2>3, SMTT(30) DEF provision_returned, GoTo, ModemPcs
  <2>4. CASE modem \/ modem_factory_reset \/ modem_connect \/ wait_lte \/ server_connect
    BY <2>4 DEF modem, modem_factory_reset, modem_connect, wait_lte, server_connect, ModemPcs
  <2>5. CASE drain_logs_and_reboot \/ PowerLoss
    BY <2>5 DEF drain_logs_and_reboot, PowerLoss, Restarted, ModemPcs
  <2>6. CASE \/ (\E c \in Chars \cup {NULL} : serial_cb(c)) \/ lte_handler
             \/ server_transmission_work_fn \/ work_due \/ UNCHANGED vars
    BY <2>6 DEF serial_cb, lte_handler, server_transmission_work_fn, work_due, vars
  <2> QED
    BY <2>1, <2>2, <2>3, <2>4, <2>5, <2>6 DEF Next, main
<1>5. check /\ main_pc' \in ModemPcs => efs["IMSI"] # TEMPLATE
  <2>1. check /\ main_pc' \in ModemPcs => 1 \in check_provisioned
    BY SMTT(30) DEF check, GoTo, ModemPcs
  <2> QED
    BY <2>1, CheckMeansIdentity
<1> QED
  BY <1>2, <1>3, <1>4, <1>5 DEF UpOnlyWithIdentity, BootInv


(* The call and the receiver, against main()'s program counter.            *)
LEMMA BootStep ==
  ASSUME BootTypeOK, CallInv, BootInv, [Next]_vars
  PROVE  BootInv'
<1> DEFINE Rest == /\ (step # "idle" => main_pc \in {"static_provisioning", "provisioning"})
                   /\ (rx_enabled => main_pc = "wait" /\ profile_received = 0)
                   /\ (profile_received = 1 => main_pc = "wait")
<1>0. Rest
  BY DEF BootInv
<1> SUFFICES Rest'
  BY IdentityStep DEF BootInv
<1>1. CASE init_fs
  BY <1>0, <1>1 DEF init_fs, GoTo, serial_vars
<1>2. CASE static_profile
  BY <1>0, <1>2 DEF static_profile, GoTo, serial_vars, pvars
<1>3. CASE register \/ check
  BY <1>0, <1>3 DEF register, check, GoTo, serial_vars, pvars
<1>4. CASE receive
  <2>1. step' = "idle" /\ profile_received = 0 /\ profile_received' = profile_received
    BY <1>0, <1>4 DEF receive, serial_vars, pvars, BootTypeOK
  <2>2. rx_enabled' => main_pc' = "wait"
    BY <1>0, <1>4, Zenon DEF receive, serial_vars, GoTo
  <2> QED
    BY <2>1, <2>2
<1>5. CASE wait \/ received
  BY <1>0, <1>5 DEF wait, received, GoTo, pvars
<1>6. CASE provision
  BY <1>0, <1>6 DEF provision, GoTo, serial_vars
<1>7. CASE provisioning
  BY <1>0, <1>7 DEF provisioning, serial_vars
<1>8. CASE provision_returned
  BY <1>0, <1>8, SMTT(30) DEF provision_returned, GoTo, serial_vars, pvars
<1>9. CASE drain_logs_and_reboot \/ PowerLoss
  BY <1>9 DEF drain_logs_and_reboot, PowerLoss, Restarted, restart
<1>10. CASE modem
  BY <1>0, <1>10, SMTT(30) DEF modem, serial_vars, pvars
<1>11. CASE modem_factory_reset \/ modem_connect \/ wait_lte \/ server_connect
  BY <1>0, <1>11 DEF modem_factory_reset, modem_connect, wait_lte, server_connect, serial_vars, pvars
<1>12. CASE \E c \in Chars \cup {NULL} : serial_cb(c)
  BY <1>0, <1>12, ZenonT(30) DEF serial_cb, pvars, RxSignalled
<1>13. CASE lte_handler \/ server_transmission_work_fn \/ work_due \/ UNCHANGED vars
  BY <1>0, <1>13 DEF lte_handler, server_transmission_work_fn, work_due, vars, serial_vars, pvars
<1> QED
  BY <1>1, <1>2, <1>3, <1>4, <1>5, <1>6, <1>7, <1>8, <1>9, <1>10, <1>11, <1>12, <1>13 DEF Next, main

-----------------------------------------------------------------------------
(* The theorems.                                                           *)

(* In every reachable state of the sample, in every build and whatever     *)
(* fails, the state has its type, a call of nrf_softsim_provision has      *)
(* written what its progress says, and main() is where the call, the       *)
(* receiver and the identity in flash require.                             *)
THEOREM BootInvariance == Spec => []SampleInv
<1>1. Init => BootTypeOK /\ CallInv /\ BootInv
  <2> SUFFICES ASSUME Init PROVE BootTypeOK /\ CallInv /\ BootInv
    OBVIOUS
  <2>1. TypeOK
    <3>1. /\ fs_up \in BOOLEAN /\ just_provisioned \in BOOLEAN
          /\ flawed \in BOOLEAN /\ named \in BOOLEAN
      BY ZenonT(30) DEF Init, PInit
    <3>2. keys \in [KeyIds -> Profiles \cup {NULL}] /\ efs \in [Efs -> Profiles \cup {TEMPLATE}]
      BY DEF Init, PInit
    <3>3. smsp \in [SmspParts -> SmspSources]
      BY SMTT(30) DEF Init, PInit, SmspSources
    <3>4. /\ step \in {Steps[i] : i \in DOMAIN Steps} \cup {"idle"}
          /\ profile \in Profiles \cup {NULL} /\ status \in {0, -1, NULL}
          /\ calls \in 0..MAX_CALLS
      BY DEF Init, PInit
    <3> QED
      BY <3>1, <3>2, <3>3, <3>4, Zenon DEF TypeOK
  <2>2. OuterType
    <3>1. /\ rc \in BOOLEAN /\ registered \in BOOLEAN /\ rx_enabled \in BOOLEAN
          /\ sim \in BOOLEAN /\ connecting \in BOOLEAN /\ lost \in BOOLEAN
      BY Zenon DEF Init
    <3>2. rx \in Seq(Chars) /\ Len(rx) < PROFILE_MAX_SIZE
      <4>1. rx = <<>>
        BY DEF Init
      <4> QED
        BY <4>1
    <3>3. /\ build \in Builds /\ main_pc \in MainPcs
          /\ profile_received \in {0, 1} /\ lte_connected \in {0, 1}
          /\ work \in {"none", "due", "timer"} /\ modem_nvm \in {"other", "clean"}
          /\ crashes \in 0..MAX_CRASHES
      BY DEF Init, MainPcs, InitPcs
    <3> QED
      BY <3>1, <3>2, <3>3 DEF OuterType
  <2>3. \A f \in Efs : step \notin EfWritten(f)
    BY WrittenTable DEF Init, PInit, Efs
  <2>4. KeysBeforeIdentity /\ OkMeansRecords
    BY DEF Init, PInit, KeysBeforeIdentity, OkMeansRecords, SmspParts
  <2>5. CallInv
    BY <2>3, <2>4 DEF Init, PInit, CallInv
  <2>6. BootInv
    BY DEF Init, PInit, BootInv, UpOnlyWithIdentity, ModemPcs
  <2> QED
    BY <2>1, <2>2, <2>5, <2>6, OuterTypeFact
<1>2. BootTypeOK /\ CallInv /\ BootInv /\ [Next]_vars => (BootTypeOK /\ CallInv /\ BootInv)'
  <2> SUFFICES ASSUME BootTypeOK, CallInv, BootInv, [Next]_vars
               PROVE  (BootTypeOK /\ CallInv /\ BootInv)'
    OBVIOUS
  <2>1. TypeOK /\ OuterType /\ ProvisionNext
    BY OuterTypeFact, ProvisionMoves
  <2>2. TypeOK' /\ CallInv'
    BY <2>1, CallStep
  <2>3. OuterType'
    BY <2>1, OuterStep
  <2>4. BootTypeOK'
    BY <2>2, <2>3 DEF BootTypeOK, OuterType
  <2> QED
    BY <2>2, <2>4, BootStep
<1> QED
  BY <1>1, <1>2, PTL DEF Spec, SampleInv

(* The receive buffer never overruns: rx.pos leaves room for the NUL that  *)
(* terminates the text, and every other variable has its type.             *)
THEOREM BootTypeCorrect == Spec => []BootTypeOK
BY BootInvariance, PTL DEF SampleInv

(* nrf_softsim_provision imports the keys before it writes the IMSI: when  *)
(* the power goes at any point, an IMSI written by the last call has the   *)
(* keys of its profile, unless the key store failed that call.             *)
THEOREM KeysComeFirst == Spec => []KeysBeforeIdentity
<1>1. CallInv => KeysBeforeIdentity
  BY DEF CallInv
<1> QED
  BY <1>1, BootInvariance, PTL DEF SampleInv

(* A call that returned 0 has written every record of its profile and what *)
(* the profile has for EF.SMSP, and left the second record of EF.SMSP.     *)
THEOREM OkIsComplete == Spec => []OkMeansRecords
<1>1. CallInv => OkMeansRecords
  BY DEF CallInv
<1> QED
  BY <1>1, BootInvariance, PTL DEF SampleInv

(* Without the factory reset main() brings the modem up with an identity   *)
(* in flash only.                                                          *)
THEOREM ModemNeedsIdentity == Spec => []UpOnlyWithIdentity
<1>1. BootInv => UpOnlyWithIdentity
  BY DEF BootInv
<1> QED
  BY <1>1, BootInvariance, PTL DEF SampleInv

(* serial_cb masks RX before it signals, so that nothing writes the buffer *)
(* main() decodes until main() is done with it.                            *)
THEOREM BufferKept == Spec => BufferIsStable
<1> DEFINE Kept == profile_received = 1 \/ main_pc \in {"received", "provision", "provisioning"}
                     => rx' = rx \/ main_pc' = "init"
<1>1. BootInv /\ [Next]_vars => [Kept]_vars
  <2> SUFFICES ASSUME BootInv, Next PROVE Kept
    OBVIOUS
  <2>1. CASE receive \/ \E c \in Chars \cup {NULL} : serial_cb(c)
    BY <2>1 DEF receive, serial_cb, BootInv
  <2>2. CASE drain_logs_and_reboot \/ PowerLoss
    BY <2>2 DEF drain_logs_and_reboot, PowerLoss, Restarted
  <2>3. CASE ~(receive \/ \E c \in Chars \cup {NULL} : serial_cb(c)) /\ ~(drain_logs_and_reboot \/ PowerLoss)
    <3>1. rx' = rx
      BY <2>3, Zenon DEF Next, main, init_fs, static_profile, register, check, wait, received, provision,
                  provisioning, provision_returned, modem, modem_factory_reset, modem_connect,
                  wait_lte, server_connect, lte_handler, server_transmission_work_fn, work_due,
                  serial_vars
    <3> QED
      BY <3>1, SMTT(30)
  <2> QED
    BY <2>1, <2>2, <2>3
<1> QED
  BY <1>1, BootInvariance, PTL DEF Spec, SampleInv, BufferIsStable


-----------------------------------------------------------------------------
(* The factory reset.                                                      *)

(* Where neither NVS nor the modem fails a call, a call that is under way  *)
(* ends by returning 0, which main() remembers until it reboots.           *)
LEMMA CallEnds ==
  ASSUME ~NvsFaults, provision_step, just_provisioned \/ step # "idle"
  PROVE  just_provisioned' \/ step' # "idle"
<1>1. CASE \E k \in KeyIds : destroy_key(k) \/ import_key(k)
  <2>1. PICK k \in KeyIds : destroy_key(k) \/ import_key(k)
    BY <1>1
  <2>2. k = "KI" \/ k = "KIC" \/ k = "KID"
    BY DEF KeyIds
  <2>3. Destroys[k] \in {"destroy_KI", "destroy_KIC", "destroy_KID"}
    BY <2>2 DEF Destroys
  <2> QED
    BY <2>1, <2>3, AfterTable, ZenonT(30) DEF destroy_key, import_key
<1>2. CASE mount
  BY <1>2, AfterTable DEF mount
<1>3. CASE \E f \in Efs : write_ef(f)
  BY <1>3, AfterTable DEF write_ef, Efs
<1>4. CASE write_smsp
  BY <1>4, AfterTable DEF write_smsp
<1>5. CASE provisioned
  BY <1>5, SMTT(30) DEF provisioned
<1> QED
  BY <1>1, <1>2, <1>3, <1>4, <1>5, SMTT(30) DEF provision_step

LEMMA ResetStep ==
  ASSUME ~NvsFaults, ~ModemFaults, BootTypeOK, CallInv, BootInv, ResetOwed, [Next]_vars
  PROVE  ResetOwed'
<1> DEFINE Early == {"init", "static", "connect", "lte", "server", "returned", "reboot"}
           Owed  == build.reset /\ efs["IMSI"] # TEMPLATE /\ modem_nvm = "other" /\ ~lost
<1>0. /\ Owed => main_pc \notin Early /\ (just_provisioned \/ step # "idle")
      /\ step # "idle" => main_pc \in {"static_provisioning", "provisioning"}
      /\ TypeOK
  BY DEF ResetOwed, BootInv, BootTypeOK
<1> SUFFICES ASSUME Owed' PROVE main_pc' \notin Early /\ (just_provisioned' \/ step' # "idle")
  BY DEF ResetOwed
<1>1. CASE provisioning
  <2>1. provision_step /\ Owed' = (build.reset /\ efs'["IMSI"] # TEMPLATE /\ modem_nvm = "other" /\ ~lost)
    BY <1>1 DEF provisioning, outer_vars
  <2>2. main_pc' \notin Early
    BY <1>1, SMTT(30) DEF provisioning
  <2>3. CASE efs["IMSI"] = TEMPLATE
    BY <1>0, <2>1, <2>2, <2>3, IdentityKept, SMTT(30) DEF ProvisionNext
  <2>4. CASE efs["IMSI"] # TEMPLATE
    BY <1>0, <2>1, <2>2, <2>4, CallEnds
  <2> QED
    BY <2>3, <2>4
<1>2. CASE static_profile \/ provision
  <2>1. Owed /\ just_provisioned' = just_provisioned
    BY <1>2 DEF static_profile, provision, nrf_softsim_provision, flash_vars, pvars, GoTo, outer_vars
  <2>2. main_pc' \notin Early /\ step = "idle"
    BY <1>0, <1>2 DEF static_profile, provision, GoTo
  <2> QED
    BY <1>0, <2>1, <2>2, SMTT(30)
<1>3. CASE PowerLoss
  BY <1>3, Zenon DEF PowerLoss, Restarted, restart, flash_vars
<1>4. CASE drain_logs_and_reboot
  BY <1>0, <1>4 DEF drain_logs_and_reboot, Restarted, restart, flash_vars
<1>5. CASE modem_factory_reset
  BY <1>5 DEF modem_factory_reset, MayFail
<1>6. CASE modem
  <2>1. Owed /\ main_pc = "modem" /\ UNCHANGED <<just_provisioned, step>>
    BY <1>6 DEF modem, pvars, GoTo, outer_vars
  <2>2. just_provisioned
    BY <1>0, <2>1
  <2>3. main_pc' = "reset"
    BY <1>6, <2>1, <2>2 DEF modem, MayFail, GoTo
  <2> QED
    BY <2>1, <2>2, <2>3, SMTT(30)
<1>7. CASE init_fs \/ register \/ check
  <2>1. Owed /\ UNCHANGED <<just_provisioned, step>>
    BY <1>7 DEF init_fs, register, check, GoTo, outer_vars, pvars, flash_vars
  <2>2. main_pc # "init" => main_pc' \notin Early
    BY <1>7 DEF init_fs, register, check, GoTo
  <2> QED
    BY <1>0, <2>1, <2>2, SMTT(30)
<1>8. CASE receive \/ wait \/ received \/ provision_returned
  <2>1. Owed /\ UNCHANGED <<just_provisioned, step>>
    BY <1>8, SMTT(30) DEF receive, wait, received, provision_returned, GoTo, outer_vars, pvars
  <2>2. main_pc' \notin Early
    BY <1>8, <2>1 DEF receive, wait, received, provision_returned, GoTo
  <2> QED
    BY <1>0, <2>1, <2>2, SMTT(30)
<1>9. CASE modem_connect \/ wait_lte \/ server_connect
  <2>1. Owed /\ main_pc \in Early
    BY <1>9 DEF modem_connect, wait_lte, server_connect, GoTo, outer_vars, pvars
  <2> QED
    BY <1>0, <2>1, SMTT(30)
<1>10. CASE \/ (\E c \in Chars \cup {NULL} : serial_cb(c)) \/ lte_handler
            \/ server_transmission_work_fn \/ work_due \/ UNCHANGED vars
  <2>0. UNCHANGED <<pvars, main_pc, outer_vars>>
    <3>1. ASSUME NEW c \in Chars \cup {NULL}, serial_cb(c)
          PROVE  UNCHANGED <<pvars, main_pc, outer_vars>>
      BY <3>1 DEF serial_cb
    <3>2. CASE lte_handler \/ server_transmission_work_fn \/ work_due
      BY <3>2 DEF lte_handler, server_transmission_work_fn, work_due
    <3>3. CASE UNCHANGED vars
      BY <3>3 DEF vars
    <3> QED
      BY <1>10, <3>1, <3>2, <3>3
  <2>1. Owed /\ UNCHANGED <<just_provisioned, step, main_pc>>
    BY <2>0 DEF pvars, outer_vars
  <2> QED
    BY <1>0, <2>1
<1> QED
  BY <1>1, <1>2, <1>3, <1>4, <1>5, <1>6, <1>7, <1>8, <1>9, <1>10, SMTT(30) DEF Next, main

(* Where NVS and the modem do not fail a call, a device with the factory   *)
(* reset configured never goes to the network with a provisioned identity  *)
(* and a modem that remembers another SIM, unless the power went between   *)
(* the provisioning and the reset.  The key store may fail.                *)
THEOREM ResetBeforeNetwork ==
  ASSUME ~NvsFaults, ~ModemFaults
  PROVE  Spec => []ResetUnlessLost
<1>1. Init => ResetOwed
  BY DEF Init, PInit, ResetOwed, Efs
<1>2. BootTypeOK /\ CallInv /\ BootInv /\ ResetOwed /\ [Next]_vars => ResetOwed'
  BY ResetStep
<1>3. BootTypeOK /\ ResetOwed => ResetUnlessLost
  BY DEF BootTypeOK, ResetOwed, ResetUnlessLost
<1> QED
  BY <1>1, <1>2, <1>3, BootInvariance, PTL DEF Spec, SampleInv
=============================================================================
