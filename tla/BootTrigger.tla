---------------------------- MODULE BootTrigger ----------------------------
(***************************************************************************)
(* How board_late_init() (board/airoha/an7581/an7581_rfb.c) decides        *)
(* between web recovery and autoboot: the one-shot flag recovery_trigger   *)
(* in the uenv partition, which the board code strips from the flash while *)
(* the environment loaded earlier (env/mtd.c) still has it in RAM, and the *)
(* reset button, which has to be held.                                     *)
(*                                                                         *)
(* The uenv block is "armed" (a valid environment with recovery_trigger=1),*)
(* "plain" (valid, without it) or "blank" (fails its CRC).  Any MTD call   *)
(* may fail, up to MaxFaults of them in a boot, and power may go between   *)
(* any two.  What recovery does is RecoveryHttp, RawFlash and UbiRebuild.  *)
(*                                                                         *)
(* A definition whose comment starts with "Mutant" is a plausible slip in  *)
(* the code; PROJECT.json says which definition it stands in for and which *)
(* property must then fail.                                                *)
(***************************************************************************)
EXTENDS Naturals

CONSTANTS
  Timeouts,  \* values recovery_button_timeout may have
  MaxHold,   \* 30: the longest the button has to be held
  MaxFaults, \* MTD operations that fail in one boot
  SaveEnv    \* the operator uses saveenv at the console

ASSUME TriggerAssumption ==
  /\ Timeouts \subseteq Nat
  /\ MaxHold \in Nat
  /\ MaxFaults \in Nat
  /\ SaveEnv \in BOOLEAN

VARIABLES
  uenv,           \* the environment block on the flash
  env_trigger,    \* recovery_trigger is 1 in the loaded environment
  uenv_triggered, \* board_late_init(): uenv_triggered
  pc,             \* where the program is: see Places
  timeout,        \* how long the button has to be held, in samples
  elapsed,        \* samples since the countdown began
  why,            \* what recovery was entered for
  faults,         \* failed operations of this boot
  bootEnv,        \* history: uenv when the power came on
  asked,          \* history: the flag was set and not answered yet
  relapse,        \* history: since the flag was set last, an operation failed
                  \* or the environment was saved
  held            \* history: samples the button was held without a break

button == <<timeout, elapsed, held>>
trouble == <<faults, relapse>>
vars == <<uenv, env_trigger, uenv_triggered, pc, button, why, trouble, bootEnv,
          asked>>

Places == {"off", "env", "consume", "erase", "write", "verify", "decide",
           "button", "recovery", "shell", "autoboot", "linux"}

Init ==
  /\ uenv \in {"plain", "blank"}
  /\ env_trigger = FALSE /\ uenv_triggered = FALSE
  /\ pc = "off" /\ why = "none"
  /\ timeout = 0 /\ elapsed = 0 /\ held = 0
  /\ faults = 0
  /\ bootEnv = uenv
  /\ asked = FALSE /\ relapse = FALSE

\* One more operation of this boot fails.
Fault ==
  /\ faults < MaxFaults
  /\ faults' = faults + 1
  /\ relapse' = TRUE

-----------------------------------------------------------------------------
(* Loading the environment and consuming the flag.                         *)

PowerOn ==
  /\ pc = "off"
  /\ pc' = "env"
  /\ faults' = 0
  /\ bootEnv' = uenv
  /\ UNCHANGED <<uenv, env_trigger, uenv_triggered, button, why, asked, relapse>>

\* env_mtd_load(): a block that cannot be read or fails its CRC gives the
\* default environment, which has recovery_trigger=0.
EnvLoad ==
  /\ pc = "env"
  /\ pc' = "consume"
  /\ \/ env_trigger' = (uenv = "armed") /\ UNCHANGED trouble
     \/ env_trigger' = FALSE /\ Fault
  /\ UNCHANGED <<uenv, uenv_triggered, button, why, bootEnv, asked>>

\* A step of xg2010g_uenv_consume_recovery_trigger().  An error goes straight
\* to the decision with *triggered false.
Consuming(next) ==
  /\ pc' = next
  /\ UNCHANGED <<env_trigger, button, why, bootEnv, asked>>

\* Read the block, check its CRC, look for the flag.
ConsumeRead ==
  /\ pc = "consume"
  /\ \/ uenv = "armed" /\ Consuming("erase") /\ UNCHANGED trouble
     \/ uenv # "armed" /\ Consuming("decide") /\ UNCHANGED trouble
     \/ Consuming("decide") /\ Fault
  /\ UNCHANGED <<uenv, uenv_triggered>>

\* xg2010g_uenv_write_block(), its erase.
ConsumeErase ==
  /\ pc = "erase"
  /\ \/ uenv' = "blank" /\ Consuming("write") /\ UNCHANGED trouble
     \/ uenv' \in {uenv, "blank"} /\ Consuming("decide") /\ Fault
  /\ UNCHANGED uenv_triggered

\* Mutant: the block is written back before the flag is taken out of it.
ConsumeWriteUnstripped ==
  /\ pc = "write"
  /\ uenv' = "armed" /\ Consuming("verify") /\ UNCHANGED <<trouble, uenv_triggered>>

\* xg2010g_uenv_write_block(), its page writes: the block without the flag,
\* silently something else, or an error in one of the pages.
ConsumeWrite ==
  /\ pc = "write"
  /\ \/ uenv' = "plain" /\ Consuming("verify") /\ UNCHANGED trouble
     \/ uenv' = "blank" /\ Consuming("verify") /\ Fault
     \/ uenv' \in {"plain", "blank"} /\ Consuming("decide") /\ Fault
  /\ UNCHANGED uenv_triggered

\* Read back and compare.
ConsumeVerify ==
  /\ pc = "verify"
  /\ \/ uenv_triggered' = (uenv = "plain") /\ UNCHANGED trouble
     \/ uenv_triggered' = FALSE /\ Fault
  /\ Consuming("decide")
  /\ UNCHANGED uenv

-----------------------------------------------------------------------------
(* The decision.                                                           *)

\* run_http_recovery(), entered for the given reason.
EnterRecovery(reason) ==
  /\ pc' = "recovery"
  /\ why' = reason
  /\ asked' = (asked /\ reason # "trigger")

\* Mutant: only the flag found in uenv counts.
TriggerSeenUenv == uenv_triggered

\* Mutant: the variable counts whatever its value; the default environment has
\* recovery_trigger=0.
TriggerSeenPresent == uenv_triggered \/ env_trigger \/ bootEnv = "blank"

\* board_late_init(): the consumed flag, or else the one in the loaded
\* environment.
TriggerSeen == uenv_triggered \/ env_trigger

\* The flag in the loaded environment is cleared if it was the one that
\* counted, and only there.
ByTrigger ==
  /\ pc = "decide" /\ TriggerSeen
  /\ env_trigger' = (env_trigger /\ uenv_triggered)
  /\ EnterRecovery("trigger")
  /\ UNCHANGED <<uenv, uenv_triggered, button, trouble, bootEnv>>

\* Mutant: the value of the environment is taken as it is.
HoldForUnclamped(t) == t

\* How long the button has to be held if the environment says t.
HoldFor(t) == IF t > MaxHold THEN MaxHold ELSE t

\* xg2010g_recovery_button_confirmed() up to its loop.
ByButton ==
  /\ pc = "decide" /\ ~TriggerSeen
  /\ \/ pc' = "autoboot" /\ UNCHANGED <<button, why, asked>>
     \/ \E t \in Timeouts :
          /\ timeout' = HoldFor(t)
          /\ elapsed' = 0 /\ held' = 0
          /\ IF t = 0 THEN EnterRecovery("button")
             ELSE pc' = "button" /\ UNCHANGED <<why, asked>>
  /\ UNCHANGED <<uenv, env_trigger, uenv_triggered, trouble, bootEnv>>

\* Mutant: the button is looked at when the countdown starts and never again.
ButtonSampleOnce ==
  /\ pc = "button"
  /\ held' \in {0, held + 1}
  /\ IF elapsed >= timeout
     THEN EnterRecovery("button") /\ UNCHANGED elapsed
     ELSE elapsed' = elapsed + 1 /\ UNCHANGED <<pc, why, asked>>
  /\ UNCHANGED <<uenv, env_trigger, uenv_triggered, timeout, trouble, bootEnv>>

\* Mutant: the countdown starts again with every number it shows.
ButtonSampleRestarts ==
  /\ pc = "button"
  /\ \/ pc' = "autoboot" /\ UNCHANGED <<elapsed, held>>
     \/ /\ elapsed' = IF elapsed + 1 < timeout THEN elapsed + 1 ELSE 0
        /\ held' = elapsed' /\ UNCHANGED pc
  /\ UNCHANGED <<uenv, env_trigger, uenv_triggered, timeout, trouble, bootEnv, why,
                 asked>>

\* One iteration of its loop: the button was let go, was held long enough, or
\* is still held.
ButtonSample ==
  /\ pc = "button"
  /\ \/ pc' = "autoboot" /\ held' = 0 /\ UNCHANGED <<elapsed, why, asked>>
     \/ /\ elapsed >= timeout
        /\ EnterRecovery("button")
        /\ held' = held + 1 /\ UNCHANGED elapsed
     \/ /\ elapsed < timeout
        /\ elapsed' = elapsed + 1 /\ held' = held + 1
        /\ UNCHANGED <<pc, why, asked>>
  /\ UNCHANGED <<uenv, env_trigger, uenv_triggered, timeout, trouble, bootEnv>>

-----------------------------------------------------------------------------
(* After the decision.                                                     *)

\* bootcmd: Linux, recovery as the fallback, or the prompt.
Autoboot ==
  /\ pc = "autoboot"
  /\ \/ pc' \in {"linux", "shell"} /\ UNCHANGED <<why, asked>>
     \/ EnterRecovery("fallback")
  /\ UNCHANGED <<uenv, env_trigger, uenv_triggered, button, trouble, bootEnv>>

\* Ctrl-C in recovery; http_recovery at the prompt.
CtrlC ==
  /\ pc = "recovery"
  /\ pc' = "shell"
  /\ UNCHANGED <<uenv, env_trigger, uenv_triggered, button, why, trouble, bootEnv,
                 asked>>
Command ==
  /\ pc = "shell"
  /\ EnterRecovery("command")
  /\ UNCHANGED <<uenv, env_trigger, uenv_triggered, button, trouble, bootEnv>>

\* saveenv: env_mtd_save() writes the environment as it is in RAM.
Save ==
  /\ SaveEnv /\ pc = "shell"
  /\ LET saved == IF env_trigger THEN "armed" ELSE "plain"
     IN  \/ uenv' = saved /\ relapse' = TRUE /\ UNCHANGED faults
         \/ uenv' \in {uenv, "blank", saved} /\ Fault
  /\ UNCHANGED <<env_trigger, uenv_triggered, pc, button, why, bootEnv, asked>>

\* fw_setenv recovery_trigger 1 in the running system.
Arm ==
  /\ pc = "linux"
  /\ uenv' = "armed" /\ asked' = TRUE /\ relapse' = FALSE
  /\ UNCHANGED <<env_trigger, uenv_triggered, pc, button, why, faults, bootEnv>>

\* A reset or a power cut, anywhere.
PowerCut ==
  /\ pc # "off"
  /\ pc' = "off"
  /\ env_trigger' = FALSE /\ uenv_triggered' = FALSE
  /\ why' = "none"
  /\ timeout' = 0 /\ elapsed' = 0 /\ held' = 0
  /\ UNCHANGED <<uenv, trouble, bootEnv, asked>>

\* What the program does by itself on its way to the decision.
Program ==
  \/ EnvLoad \/ ConsumeRead \/ ConsumeErase \/ ConsumeWrite \/ ConsumeVerify
  \/ ByTrigger \/ ByButton \/ ButtonSample

Next ==
  \/ PowerOn \/ Program \/ Autoboot \/ CtrlC \/ Command \/ Save \/ Arm \/ PowerCut

Spec == Init /\ [][Next]_vars /\ WF_vars(Program)

-----------------------------------------------------------------------------
(* Properties.                                                             *)

TypeOK ==
  /\ uenv \in {"armed", "plain", "blank"} /\ bootEnv \in {"armed", "plain", "blank"}
  /\ env_trigger \in BOOLEAN /\ uenv_triggered \in BOOLEAN
  /\ asked \in BOOLEAN /\ relapse \in BOOLEAN
  /\ pc \in Places
  /\ timeout \in 0 .. MaxHold /\ elapsed \in 0 .. timeout
  /\ held \in 0 .. MaxHold + 1
  /\ why \in {"none", "trigger", "button", "fallback", "command"}
  /\ faults \in 0 .. MaxFaults

\* A boot that finds the flag set does not go on to autoboot, although reading
\* the environment or any step of consuming the flag may fail: the two copies
\* of the flag, in uenv and in the loaded environment, back each other up.
ArmedEnters == bootEnv = "armed" => pc \notin {"button", "autoboot", "linux"}

\* One-shot: recovery is entered for the flag only if the flag was set since
\* it was entered for it last.
OneShot ==
  [][pc # "recovery" /\ pc' = "recovery" /\ why' = "trigger" => asked]_vars

\* The same, with what the code does not promise left out: the flag comes
\* back if consuming it failed, since it is then cleared in RAM only, and if
\* the operator saves the environment that was loaded with it.
AnsweredOnce ==
  [][pc # "recovery" /\ pc' = "recovery" /\ why' = "trigger" => asked \/ relapse]_vars

\* Consuming the flag keeps the rest of the environment, unless an operation
\* fails: once the boot has decided, the block is valid and plain; and a boot
\* can lose a valid environment only if it found the flag set and power goes
\* between the erase and the end of the write.  A boot without the flag never
\* puts the environment at risk.
EnvPreserved ==
  faults = 0 =>
    /\ pc \in {"decide", "button", "autoboot"} =>
         uenv = (IF bootEnv = "blank" THEN "blank" ELSE "plain")
    /\ bootEnv # "blank" /\ uenv = "blank" =>
         bootEnv = "armed" /\ pc \in {"write", "off"}

\* The button leads to recovery only if it was held without a break for the
\* time asked for.
ButtonConfirmed ==
  [][pc # "recovery" /\ pc' = "recovery" /\ why' = "button" => held' >= timeout']_vars

\* Every boot decides, also with a stuck button and a senseless timeout.
BootDecides == pc = "env" ~> pc \in {"recovery", "autoboot", "off"}
=============================================================================
