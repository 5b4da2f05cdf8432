----------------------------- MODULE SampleBoot -----------------------------
(***************************************************************************)
(* The sample application, samples/softsim_external_profile, from boot to  *)
(* the messages it sends: nrf_softsim_init, by itself or from main(), which *)
(* provisions a static profile; main() checks for a profile, else receives *)
(* one over the serial port and provisions it, brings the modem up, resets *)
(* it after a fresh provisioning when so configured, waits for the network *)
(* and starts the periodic transmission.  The serial interrupt, the LTE    *)
(* event handler and the delayed work run beside main().  The power may go *)
(* at any time.                                                            *)
(*                                                                         *)
(* Composition: provisioning is Provision, extended here by main()'s       *)
(* program counter, the receive buffer and the modem.  The host that sends *)
(* the profile, the UART driver, the modem and the network are external.   *)
(***************************************************************************)
EXTENDS Provision

CONSTANTS
  Chars,              \* the characters of a profile
  Text,               \* Text[p]: the text of profile p
  PROFILE_MAX_SIZE,   \* the size of the receive buffer (512)
  Builds,             \* the configurations: of AllBuilds
  ModemFaults,        \* a call of the modem library may fail
  MAX_CRASHES         \* bound of the model: power losses

(* CONFIG_SOFTSIM_STATIC_PROFILE (or none), CONFIG_SOFTSIM_AUTO_INIT and   *)
(* CONFIG_SOFTSIM_FACTORY_RESET_ON_PROVISION.                              *)
AllBuilds == [static : Profiles \cup {BAD, NULL}, auto : BOOLEAN, reset : BOOLEAN]

ASSUME BootAssumption ==
  /\ Text \in [Profiles -> Seq(Chars)]
  /\ PROFILE_MAX_SIZE \in Nat \ {0}
  /\ Builds \subseteq AllBuilds
  /\ ModemFaults \in BOOLEAN
  /\ MAX_CRASHES \in Nat

VARIABLES
  build,             \* the configuration, chosen once
  main_pc,           \* where the boot and main() are
  rc,                \* nrf_softsim_init: ss_init_fs failed
  registered,        \* the request handler is registered and the queue runs
  rx,                \* the receive buffer: the characters up to rx.pos
  rx_enabled,        \* the RX interrupt is enabled
  profile_received,  \* the semaphore, of limit 1
  sim,               \* the modem uses the software SIM
  connecting,        \* lte_lc_connect_async has succeeded
  lte_connected,     \* the semaphore, of limit 1
  work,              \* server_transmission_work: "none", "due" or "timer"
  modem_nvm,         \* what the modem remembers: of an "other" SIM, or "clean"
  lost,              \* history: the power went with an identity and no reset
  crashes            \* history: power losses so far

init_vars   == <<rc, registered>>
serial_vars == <<rx, rx_enabled, profile_received>>
lte_vars    == <<sim, connecting, lte_connected, work>>
outer_vars  == <<modem_nvm, lost, crashes, build>>
vars == <<pvars, main_pc, init_vars, serial_vars, lte_vars, outer_vars>>

InitPcs == {"init", "static", "static_provisioning", "register"}
SerialPcs == {"receive", "wait", "received", "provision", "provisioning"}
ModemPcs == {"modem", "reset", "connect", "lte", "server", "returned"}
MainPcs == InitPcs \cup SerialPcs \cup ModemPcs \cup {"check", "reboot", "stopped"}

BootTypeOK ==
  /\ TypeOK
  /\ build \in Builds
  /\ main_pc \in MainPcs
  /\ rc \in BOOLEAN /\ registered \in BOOLEAN
  /\ rx \in Seq(Chars) /\ Len(rx) < PROFILE_MAX_SIZE
  /\ rx_enabled \in BOOLEAN
  /\ profile_received \in {0, 1} /\ lte_connected \in {0, 1}
  /\ sim \in BOOLEAN /\ connecting \in BOOLEAN
  /\ work \in {"none", "due", "timer"}
  /\ modem_nvm \in {"other", "clean"} /\ lost \in BOOLEAN
  /\ crashes \in 0..MAX_CRASHES

Init ==
  /\ PInit
  /\ build \in Builds
  /\ main_pc = "init"
  /\ rc = FALSE /\ registered = FALSE
  /\ rx = <<>> /\ rx_enabled = FALSE /\ profile_received = 0
  /\ sim = FALSE /\ connecting = FALSE /\ lte_connected = 0
  /\ work = "none"
  /\ modem_nvm = "other" /\ lost = FALSE
  /\ crashes = 0

(* The outcomes of a call that may fail when faulty; TRUE is a failure.    *)
MayFail(faulty) == IF faulty THEN BOOLEAN ELSE {FALSE}

GoTo(pc) == main_pc' = pc /\ UNCHANGED outer_vars

-----------------------------------------------------------------------------
(* nrf_softsim_init.                                                       *)

init_fs ==
  /\ main_pc = "init"
  /\ rc' \in MayFail(NvsFaults)
  /\ fs_up' = ~rc'
  /\ GoTo("static")
  /\ UNCHANGED <<flash_vars, step, status, just_provisioned, call_vars,
                 registered, serial_vars, lte_vars>>

(* A static profile is provisioned unless a profile is there already, also *)
(* when the filesystem is down.                                            *)
static_profile ==
  /\ main_pc = "static"
  /\ \/ /\ build.static = NULL \/ 1 \in check_provisioned
        /\ GoTo("register")
        /\ UNCHANGED pvars
     \/ /\ build.static # NULL /\ 0 \in check_provisioned
        /\ nrf_softsim_provision(build.static)
        /\ GoTo("static_provisioning")
  /\ UNCHANGED <<init_vars, serial_vars, lte_vars>>

(* The result of the provisioning is ignored; rc is still the one from     *)
(* before it.  A SYS_INIT function's result is ignored, main() stops.      *)
register ==
  /\ main_pc = "register"
  /\ \E failed \in MayFail(ModemFaults) : registered' = (~rc /\ ~failed)
  /\ GoTo(IF registered' \/ build.auto THEN "check" ELSE "stopped")
  /\ rc' = FALSE
  /\ UNCHANGED <<pvars, serial_vars, lte_vars>>

-----------------------------------------------------------------------------
(* The serial interrupt.                                                   *)

(* Fault: the terminating NUL is forgotten.                                *)
RxFullAtSize == Len(rx) = PROFILE_MAX_SIZE

(* The buffer is full when there is only room left for the NUL.            *)
RxFull == Len(rx) = PROFILE_MAX_SIZE - 1

(* Fault: the interrupt signals and goes on receiving.                     *)
RxSignalledOpen == rx_enabled

(* RX is masked before the semaphore is given.                             *)
RxSignalled == FALSE

(* serial_cb reads characters until a terminator or a full buffer; it then *)
(* masks RX and signals.  One step per character: the driver may deliver   *)
(* them in one interrupt or in several.                                    *)
serial_cb(c) ==
  /\ rx_enabled
  /\ \/ /\ c \in Chars /\ ~RxFull
        /\ rx' = Append(rx, c)
        /\ UNCHANGED <<rx_enabled, profile_received>>
     \/ /\ c \notin Chars \/ RxFull
        /\ rx_enabled' = RxSignalled
        /\ profile_received' = 1
        /\ UNCHANGED rx
  /\ UNCHANGED <<pvars, main_pc, init_vars, lte_vars, outer_vars>>

-----------------------------------------------------------------------------
(* main()                                                                  *)

check ==
  /\ main_pc = "check"
  /\ \E r \in check_provisioned : GoTo(IF r = 1 THEN "modem" ELSE "receive")
  /\ UNCHANGED <<pvars, init_vars, serial_vars, lte_vars>>

(* provision_softsim_from_serial arms the receiver.  main() returns when   *)
(* there is no UART or no memory for the buffer.                           *)
receive ==
  /\ main_pc = "receive"
  /\ \/ GoTo("stopped") /\ UNCHANGED serial_vars
     \/ /\ rx' = <<>> /\ rx_enabled' = TRUE
        /\ GoTo("wait")
        /\ UNCHANGED profile_received
  /\ UNCHANGED <<pvars, init_vars, lte_vars>>

(* k_sem_take; a timeout prompts again and changes nothing.                *)
wait ==
  /\ main_pc = "wait" /\ profile_received = 1
  /\ profile_received' = 0
  /\ GoTo("received")
  /\ UNCHANGED <<pvars, init_vars, rx, rx_enabled, lte_vars>>

received ==
  /\ main_pc = "received"
  /\ rx_enabled' = FALSE
  /\ GoTo("provision")
  /\ UNCHANGED <<pvars, init_vars, rx, profile_received, lte_vars>>

(* The decoder accepts the whole text of a profile only.                   *)
Decoded == IF \E p \in Profiles : rx = Text[p] THEN CHOOSE p \in Profiles : rx = Text[p] ELSE BAD

provision ==
  /\ main_pc = "provision"
  /\ nrf_softsim_provision(Decoded)
  /\ GoTo("provisioning")
  /\ UNCHANGED <<init_vars, serial_vars, lte_vars>>

provisioning ==
  /\ main_pc \in {"static_provisioning", "provisioning"}
  /\ provision_step
  /\ UNCHANGED <<main_pc, init_vars, serial_vars, lte_vars, outer_vars>>

(* The call has returned.  In main() its result is logged only; with the   *)
(* factory reset main() goes on to the modem, else it reboots.             *)
provision_returned ==
  /\ step = "idle"
  /\ \/ main_pc = "static_provisioning" /\ GoTo("register")
     \/ main_pc = "provisioning" /\ GoTo(IF build.reset THEN "modem" ELSE "reboot")
  /\ UNCHANGED <<pvars, init_vars, serial_vars, lte_vars>>

Restarted ==
  /\ restart
  /\ main_pc' = "init"
  /\ rc' = FALSE /\ registered' = FALSE
  /\ rx' = <<>> /\ rx_enabled' = FALSE /\ profile_received' = 0
  /\ sim' = FALSE /\ connecting' = FALSE /\ lte_connected' = 0
  /\ work' = "none"
  /\ UNCHANGED <<modem_nvm, build>>

drain_logs_and_reboot ==
  /\ main_pc = "reboot"
  /\ Restarted
  /\ UNCHANGED <<lost, crashes>>

(* AT%CSUS=2, from the hook of the modem library or from main(), selects   *)
(* the software SIM; an error is only logged.                              *)
ss_on_modem_lib_init(err) ==
  \E failed \in MayFail(ModemFaults) : sim' = (~err /\ ~failed)

(* nrf_modem_lib_init, whose error is logged too.  The factory reset is    *)
(* for the boot that has provisioned.                                      *)
modem ==
  /\ main_pc = "modem"
  /\ \E err \in MayFail(ModemFaults) :
       /\ ss_on_modem_lib_init(err)
       /\ GoTo(IF build.reset /\ ~err /\ just_provisioned THEN "reset" ELSE "connect")
  /\ UNCHANGED <<pvars, init_vars, serial_vars, connecting, lte_connected, work>>

(* Fault: the modem is reset while it is online, which it refuses.         *)
modem_factory_reset_online ==
  /\ main_pc = "reset"
  /\ main_pc' = "reboot"
  /\ UNCHANGED <<pvars, init_vars, serial_vars, lte_vars, outer_vars>>

(* AT+CFUN=4, then AT%XFACTORYRESET=0, which needs the modem offline; an   *)
(* error of either is only logged.                                         *)
modem_factory_reset ==
  /\ main_pc = "reset"
  /\ \E failed \in MayFail(ModemFaults) :
       modem_nvm' = IF failed THEN modem_nvm ELSE "clean"
  /\ main_pc' = "reboot"
  /\ UNCHANGED <<pvars, init_vars, serial_vars, lte_vars, lost, crashes, build>>

(* An error is only logged: main() then waits for ever.                    *)
modem_connect ==
  /\ main_pc = "connect"
  /\ \E failed \in MayFail(ModemFaults) : connecting' = ~failed
  /\ GoTo("lte")
  /\ UNCHANGED <<pvars, init_vars, serial_vars, sim, lte_connected, work>>

(* The modem has registered with a network, or has again.  Other events    *)
(* change nothing.                                                         *)
lte_handler ==
  /\ connecting
  /\ lte_connected' = 1
  /\ UNCHANGED <<pvars, main_pc, init_vars, serial_vars, sim, connecting, work, outer_vars>>

wait_lte ==
  /\ main_pc = "lte" /\ lte_connected = 1
  /\ lte_connected' = 0
  /\ GoTo("server")
  /\ UNCHANGED <<pvars, init_vars, serial_vars, sim, connecting, work>>

(* The socket, and the first transmission.  main() returns either way.     *)
server_connect ==
  /\ main_pc = "server"
  /\ \E failed \in MayFail(ModemFaults) :
       /\ GoTo(IF failed THEN "stopped" ELSE "returned")
       /\ work' = IF failed THEN "none" ELSE "due"
  /\ UNCHANGED <<pvars, init_vars, serial_vars, sim, connecting, lte_connected>>

(* Fault: after an error the work is not scheduled again.                  *)
server_transmission_work_fn_once ==
  /\ work = "due"
  /\ work' \in {"timer", "none"}
  /\ UNCHANGED <<pvars, main_pc, init_vars, serial_vars, sim, connecting, lte_connected, outer_vars>>

(* The work sends a message, and is scheduled again whether or not that    *)
(* succeeds; only the delay differs.                                       *)
server_transmission_work_fn ==
  /\ work = "due"
  /\ work' = "timer"
  /\ UNCHANGED <<pvars, main_pc, init_vars, serial_vars, sim, connecting, lte_connected, outer_vars>>

(* The kernel's timer.                                                     *)
work_due ==
  /\ work = "timer"
  /\ work' = "due"
  /\ UNCHANGED <<pvars, main_pc, init_vars, serial_vars, sim, connecting, lte_connected, outer_vars>>

PowerLoss ==
  /\ crashes < MAX_CRASHES
  /\ crashes' = crashes + 1
  /\ lost' = (lost \/ (efs["IMSI"] # TEMPLATE /\ modem_nvm = "other"))
  /\ Restarted

main == \/ init_fs \/ static_profile \/ register
        \/ check \/ receive \/ wait \/ received \/ provision \/ provisioning
        \/ provision_returned \/ drain_logs_and_reboot \/ modem \/ modem_factory_reset
        \/ modem_connect \/ wait_lte \/ server_connect

Next == \/ main
        \/ \E c \in Chars \cup {NULL} : serial_cb(c)
        \/ lte_handler
        \/ server_transmission_work_fn
        \/ work_due
        \/ PowerLoss

Spec == Init /\ [][Next]_vars

(* The network admits a device whose software SIM is selected and served,  *)
(* and answers with the keys of its identity.                              *)
Admitted == sim /\ registered /\ keys["KI"] = efs["IMSI"]

(* main(), the timer and the work queue run whenever they can, and the     *)
(* modem registers in the end where it is admitted.  Nothing is assumed of *)
(* the host that sends the profile.                                        *)
FairSpec == /\ Spec
            /\ WF_vars(main)
            /\ WF_vars(Admitted /\ lte_handler)
            /\ WF_vars(server_transmission_work_fn)
            /\ WF_vars(work_due)

-----------------------------------------------------------------------------
(* Properties.                                                             *)

(* From the signal on the buffer does not change until main() is done with *)
(* it, whatever else the host sends (profile_serial.c: "Mask RX before     *)
(* signalling so the buffer cannot be mutated while main() reads it").     *)
BufferIsStable ==
  [][profile_received = 1 \/ main_pc \in {"received", "provision", "provisioning"}
       => rx' = rx \/ main_pc' = "init"]_vars

(* Without the factory reset the modem is brought up only with an identity *)
(* in flash: a rejected, torn or refused provisioning, serial or static,   *)
(* leads back to the check at boot.                                        *)
UpOnlyWithIdentity ==
  ~build.reset /\ main_pc \in ModemPcs => efs["IMSI"] # TEMPLATE

(* With the factory reset configured, a device that goes to the network    *)
(* with a provisioned identity has reset its modem before (main.c: "wipe   *)
(* modem NVM and reboot so it comes up clean with the new SIM"), unless    *)
(* the power went in between: then it never does.                          *)
ResetUnlessLost ==
  build.reset /\ main_pc \in {"connect", "lte", "server", "returned"} /\ efs["IMSI"] # TEMPLATE
    => modem_nvm = "clean" \/ lost

(* The inductive invariants, for the proofs.  A call is under way only     *)
(* while the boot waits for it, and RX is enabled only while main() waits  *)
(* for a profile it has not been signalled.                                *)
BootInv ==
  /\ step # "idle" => main_pc \in {"static_provisioning", "provisioning"}
  /\ rx_enabled => main_pc = "wait" /\ profile_received = 0
  /\ profile_received = 1 => main_pc = "wait"
  /\ UpOnlyWithIdentity

(* The whole inductive invariant of provisioning and boot: the types       *)
(* (main.c's buffer index within BUF_SIZE among them), the progress of     *)
(* nrf_softsim_provision and port_provision (CallInv), and that of main()  *)
(* against the serial interrupt (BootInv).                                 *)
SampleInv == BootTypeOK /\ CallInv /\ BootInv

(* The modem is still to be reset for the identity in flash: the boot that *)
(* provisioned it is under way and remembers that.                         *)
ResetOwed ==
  build.reset /\ efs["IMSI"] # TEMPLATE /\ modem_nvm = "other" /\ ~lost =>
    /\ main_pc \notin {"init", "static", "connect", "lte", "server", "returned", "reboot"}
    /\ just_provisioned \/ step # "idle"

(* A device that has provisioned a profile, whether static or received,    *)
(* goes on sending messages for ever: it resets the modem at most once,    *)
(* does not reboot for ever, registers, and survives power losses and      *)
(* failed transmissions.                                                   *)
ProvisionedKeepsSending == [](status = 0 => []<>(work = "due"))
=============================================================================
