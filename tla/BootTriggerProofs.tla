------------------------- MODULE BootTriggerProofs -------------------------
(***************************************************************************)
(* TLAPS proofs about BootTrigger, for every button timeout.               *)
(*                                                                         *)
(* ArmedEnters needs at most one fault in a boot.  It rests on an account  *)
(* of where the flag still is: as long as nothing failed it is in both     *)
(* places, and one fault loses at most one of them.  AnsweredOnce rests on *)
(* where an answered flag can still be: unless something failed or the     *)
(* environment was saved, neither in the flash nor in the RAM of a boot    *)
(* that has yet to decide.                                                 *)
(***************************************************************************)
EXTENDS BootTrigger, TLAPS

\* While the flag is being consumed.
Consume == {"consume", "erase", "write", "verify"}
\* Places a boot reaches when it has decided against recovery.
Declined == {"button", "autoboot", "linux"}

-----------------------------------------------------------------------------
(* Types.                                                                  *)

\* The button: held keeps up with the samples of the countdown.
InvButton ==
  /\ timeout \in 0 .. MaxHold /\ elapsed \in 0 .. timeout
  /\ held \in 0 .. MaxHold + 1
  /\ pc = "button" => held = elapsed

InvType ==
  /\ uenv \in {"armed", "plain", "blank"} /\ bootEnv \in {"armed", "plain", "blank"}
  /\ env_trigger \in BOOLEAN /\ uenv_triggered \in BOOLEAN
  /\ asked \in BOOLEAN /\ relapse \in BOOLEAN
  /\ pc \in Places
  /\ why \in {"none", "trigger", "button", "fallback", "command"}
  /\ faults \in 0 .. MaxFaults

\* The initial states are well typed.
LEMMA InitType == Init => InvType /\ InvButton
  <1> SUFFICES ASSUME Init PROVE InvType /\ InvButton
    OBVIOUS
  <1>1. /\ env_trigger \in BOOLEAN /\ uenv_triggered \in BOOLEAN
        /\ asked \in BOOLEAN /\ relapse \in BOOLEAN
    BY Zenon DEF Init
  <1> QED
    BY <1>1, TriggerAssumption DEF Init, InvType, InvButton, Places

\* Every step keeps the types that are not about the button.
LEMMA TypeStep == InvType /\ [Next]_vars => InvType'
  <1> SUFFICES ASSUME InvType, [Next]_vars PROVE InvType'
    OBVIOUS
  <1> USE TriggerAssumption DEF InvType, Places, trouble
  <1>0. Fault => relapse' \in BOOLEAN
    BY Zenon DEF Fault
  <1>1. CASE PowerOn
    BY <1>1 DEF PowerOn
  <1>2. CASE EnvLoad
    <2>1. env_trigger' \in BOOLEAN
      BY <1>2, Zenon DEF EnvLoad
    <2> QED
      BY <1>2, <1>0, <2>1 DEF EnvLoad, Fault
  <1>3. CASE ConsumeRead \/ ConsumeErase \/ ConsumeWrite
    BY <1>3, <1>0 DEF ConsumeRead, ConsumeErase, ConsumeWrite, Consuming, Fault
  <1>4. CASE ConsumeVerify
    <2>1. uenv_triggered' \in BOOLEAN
      BY <1>4, Zenon DEF ConsumeVerify
    <2> QED
      BY <1>4, <1>0, <2>1 DEF ConsumeVerify, Consuming, Fault
  <1>5. ASSUME NEW reason, EnterRecovery(reason)
        PROVE  asked' \in BOOLEAN
    BY <1>5, Zenon DEF EnterRecovery
  <1>6. CASE ByTrigger
    <2>1. env_trigger' \in BOOLEAN
      BY <1>6, Zenon DEF ByTrigger
    <2>2. asked' \in BOOLEAN
      BY <1>5, <1>6 DEF ByTrigger
    <2> QED
      BY <1>6, <2>1, <2>2 DEF ByTrigger, EnterRecovery
  <1>7. CASE ByButton
    BY <1>5, <1>7 DEF ByButton, EnterRecovery
  <1>8. CASE ButtonSample
    BY <1>5, <1>8 DEF ButtonSample, EnterRecovery
  <1>9. CASE Autoboot \/ Command
    BY <1>5, <1>9 DEF Autoboot, Command, EnterRecovery
  <1>10. CASE CtrlC \/ Save
    <2>1. relapse' \in BOOLEAN
      BY <1>10, Zenon DEF CtrlC, Save, Fault, trouble
    <2> QED
      BY <1>10, <2>1 DEF CtrlC, Save, Fault
  <1>11. CASE Arm
    <2>1. asked' \in BOOLEAN /\ relapse' \in BOOLEAN
      BY <1>11, Zenon DEF Arm
    <2> QED
      BY <1>11, <2>1 DEF Arm
  <1>12. CASE PowerCut
    BY <1>12 DEF PowerCut
  <1>13. CASE UNCHANGED vars
    BY <1>13 DEF vars
  <1> QED
    BY <1>1, <1>2, <1>3, <1>4, <1>6, <1>7, <1>8, <1>9, <1>10, <1>11, <1>12, <1>13
       DEF Next, Program

\* Every step keeps what is known about the button.
LEMMA ButtonStep == InvButton /\ [Next]_vars => InvButton'
  <1> SUFFICES ASSUME InvButton, [Next]_vars PROVE InvButton'
    OBVIOUS
  <1> USE TriggerAssumption DEF InvButton
  <1>1. CASE ByButton
    <2>1. ASSUME NEW t \in Timeouts PROVE HoldFor(t) \in 0 .. MaxHold
      BY DEF HoldFor
    <2> QED
      BY <1>1, <2>1 DEF ByButton, EnterRecovery, button
  <1>2. CASE ButtonSample
    BY <1>2 DEF ButtonSample, EnterRecovery
  <1>3. CASE PowerCut
    BY <1>3 DEF PowerCut
  <1>4. CASE UNCHANGED button /\ pc' # "button"
    BY <1>4 DEF button
  <1>5. CASE UNCHANGED <<button, pc>>
    BY <1>5 DEF button
  <1> QED
    BY <1>1, <1>2, <1>3, <1>4, <1>5
       DEF Next, Program, PowerOn, EnvLoad, ConsumeRead, ConsumeErase,
           ConsumeWrite, ConsumeVerify, Consuming, ByTrigger, EnterRecovery,
           Autoboot, CtrlC, Command, Save, Arm, vars

\* Types hold in every reachable state.
LEMMA Typed == Spec => [](InvType /\ InvButton)
  BY InitType, TypeStep, ButtonStep, PTL DEF Spec

\* Types and ranges, the clamped hold time of the button included.
THEOREM TypeCorrect == Spec => []TypeOK
  <1>1. InvType /\ InvButton => TypeOK
    BY DEF InvType, InvButton, TypeOK
  <1> QED
    BY <1>1, Typed, PTL

\* The button leads to recovery only if it was held without a break for the
\* time asked for.
THEOREM ButtonHeld == Spec => ButtonConfirmed
  <1>1. InvType /\ InvButton /\ [Next]_vars =>
          [pc # "recovery" /\ pc' = "recovery" /\ why' = "button" => held' >= timeout']_vars
    <2> SUFFICES ASSUME InvType, InvButton, Next, pc # "recovery", pc' = "recovery",
                        why' = "button"
                 PROVE  held' >= timeout'
      OBVIOUS
    <2>1. ByButton \/ ButtonSample
      BY DEF Next, Program, PowerOn, EnvLoad, ConsumeRead, ConsumeErase,
         ConsumeWrite, ConsumeVerify, Consuming, ByTrigger, EnterRecovery,
         Autoboot, CtrlC, Command, Save, Arm, PowerCut
    <2>2. CASE ByButton
      BY <2>2, TriggerAssumption DEF ByButton, HoldFor
    <2>3. CASE ButtonSample
      BY <2>3, TriggerAssumption DEF ButtonSample, InvButton
    <2> QED
      BY <2>1, <2>2, <2>3
  <1> QED
    BY <1>1, Typed, PTL DEF Spec, ButtonConfirmed

-----------------------------------------------------------------------------
(* An armed boot enters recovery.                                          *)

\* Where the flag still is in a boot that found it: one fault is allowed, so
\* while it is consumed either the loaded environment has it or nothing can
\* fail any more.
InvArmed ==
  bootEnv = "armed" =>
    /\ pc = "env" => faults = 0
    /\ pc \in {"env", "consume", "erase"} => uenv = "armed"
    /\ pc \in Consume => env_trigger \/ faults >= 1
    /\ pc = "verify" => env_trigger \/ uenv = "plain"
    /\ pc = "decide" => TriggerSeen
    /\ pc \notin Declined

\* With at most one fault in a boot, every step keeps that account.
LEMMA ArmedStep ==
  ASSUME MaxFaults <= 1
  PROVE  InvType /\ InvArmed /\ [Next]_vars => InvArmed'
  <1> SUFFICES ASSUME InvType, InvArmed, [Next]_vars PROVE InvArmed'
    OBVIOUS
  <1> USE TriggerAssumption DEF InvArmed, InvType, Consume, Declined, TriggerSeen, trouble
  <1>1. CASE PowerOn
    BY <1>1 DEF PowerOn
  <1>2. CASE EnvLoad
    <2>1. (uenv = "armed" => env_trigger') \/ Fault
      BY <1>2, Zenon DEF EnvLoad
    <2> QED
      BY <1>2, <2>1 DEF EnvLoad, Fault
  <1>3. CASE ConsumeRead
    BY <1>3 DEF ConsumeRead, Consuming, Fault
  <1>4. CASE ConsumeErase
    BY <1>4 DEF ConsumeErase, Consuming, Fault
  <1>5. CASE ConsumeWrite
    BY <1>5 DEF ConsumeWrite, Consuming, Fault
  <1>6. CASE ConsumeVerify
    <2>1. (uenv = "plain" => uenv_triggered') \/ Fault
      BY <1>6, Zenon DEF ConsumeVerify
    <2> QED
      BY <1>6, <2>1 DEF ConsumeVerify, Consuming, Fault
  <1>7. CASE ByTrigger \/ ByButton
    BY <1>7 DEF ByTrigger, ByButton, EnterRecovery
  <1>8. CASE ButtonSample \/ Autoboot \/ Arm
    BY <1>8 DEF ButtonSample, Autoboot, Arm, EnterRecovery
  <1>9. CASE CtrlC \/ Command \/ Save \/ PowerCut
    BY <1>9 DEF CtrlC, Command, Save, PowerCut, EnterRecovery
  <1>10. CASE UNCHANGED vars
    BY <1>10 DEF vars
  <1> QED
    BY <1>1, <1>2, <1>3, <1>4, <1>5, <1>6, <1>7, <1>8, <1>9, <1>10
       DEF Next, Program

\* A boot that finds the flag set does not go on to autoboot if at most one
\* operation fails on the way.
THEOREM ArmedBootEnters ==
  ASSUME MaxFaults <= 1
  PROVE  Spec => []ArmedEnters
  <1>1. Init => InvArmed
    BY DEF Init, InvArmed, Consume, Declined
  <1>2. InvType /\ InvArmed /\ [Next]_vars => InvArmed'
    BY ArmedStep
  <1>3. InvArmed => ArmedEnters
    BY DEF InvArmed, ArmedEnters, Declined
  <1> QED
    BY <1>1, <1>2, <1>3, Typed, PTL DEF Spec

-----------------------------------------------------------------------------
(* The flag is answered once, and the rest of the environment kept.        *)

\* Wherever the flag is, it was asked for; the boot decides when the flash no
\* longer has it.  None of it after a relapse.
InvOnce ==
  ~relapse =>
    /\ uenv = "armed" => asked
    /\ pc \in {"off", "env"} \cup Consume => ~uenv_triggered
    /\ pc \in Consume \cup {"decide"} /\ env_trigger => asked
    /\ pc \in {"erase", "write", "verify"} => asked
    /\ pc = "verify" => uenv = "plain"
    /\ pc = "decide" => uenv # "armed" /\ (uenv_triggered => asked)

\* Every step keeps that.
LEMMA OnceStep == InvType /\ InvOnce /\ [Next]_vars => InvOnce'
  <1> SUFFICES ASSUME InvType, InvOnce, [Next]_vars PROVE InvOnce'
    OBVIOUS
  <1> USE TriggerAssumption DEF InvOnce, InvType, Consume, Fault, trouble
  <1>1. CASE PowerOn
    BY <1>1 DEF PowerOn
  <1>2. CASE EnvLoad
    BY <1>2 DEF EnvLoad
  <1>3. CASE ConsumeRead
    BY <1>3 DEF ConsumeRead, Consuming
  <1>4. CASE ConsumeErase
    BY <1>4 DEF ConsumeErase, Consuming
  <1>5. CASE ConsumeWrite
    BY <1>5 DEF ConsumeWrite, Consuming
  <1>6. CASE ConsumeVerify
    BY <1>6 DEF ConsumeVerify, Consuming
  <1>7. CASE ByTrigger
    BY <1>7 DEF ByTrigger, EnterRecovery
  <1>8. CASE ByButton
    BY <1>8 DEF ByButton, EnterRecovery
  <1>9. CASE ButtonSample \/ Autoboot \/ Command
    BY <1>9 DEF ButtonSample, Autoboot, Command, EnterRecovery
  <1>10. CASE CtrlC \/ Save \/ Arm \/ PowerCut
    BY <1>10 DEF CtrlC, Save, Arm, PowerCut
  <1>11. CASE UNCHANGED vars
    BY <1>11 DEF vars
  <1> QED
    BY <1>1, <1>2, <1>3, <1>4, <1>5, <1>6, <1>7, <1>8, <1>9, <1>10, <1>11
       DEF Next, Program

\* Whatever power cuts interrupt the boot, the flag is answered once, unless an
\* operation failed or the environment was saved.
THEOREM FlagAnsweredOnce == Spec => AnsweredOnce
  <1>1. Init => InvOnce
    BY DEF Init, InvOnce, Consume
  <1>2. InvType /\ InvOnce /\ [Next]_vars => InvOnce'
    BY OnceStep
  <1>3. InvOnce /\ [Next]_vars =>
          [pc # "recovery" /\ pc' = "recovery" /\ why' = "trigger" => asked \/ relapse]_vars
    <2> SUFFICES ASSUME InvOnce, Next, pc # "recovery", pc' = "recovery",
                        why' = "trigger"
                 PROVE  asked \/ relapse
      OBVIOUS
    <2>1. ByTrigger
      BY DEF Next, Program, PowerOn, EnvLoad, ConsumeRead, ConsumeErase,
         ConsumeWrite, ConsumeVerify, Consuming, ByButton, ButtonSample,
         EnterRecovery, Autoboot, CtrlC, Command, Save, Arm, PowerCut
    <2> QED
      BY <2>1 DEF ByTrigger, TriggerSeen, InvOnce, Consume
  <1> QED
    BY <1>1, <1>2, <1>3, Typed, PTL DEF Spec, AnsweredOnce

\* The block on its way through the consumption, as long as nothing failed.
InvKept ==
  faults = 0 =>
    /\ pc \in {"env", "consume"} => uenv = bootEnv
    /\ pc = "erase" => uenv = "armed"
    /\ pc \in {"erase", "write", "verify"} => bootEnv = "armed"
    /\ pc = "verify" => uenv = "plain"
    /\ pc \in {"decide", "button", "autoboot"} =>
         uenv = (IF bootEnv = "blank" THEN "blank" ELSE "plain")
    /\ bootEnv # "blank" /\ uenv = "blank" =>
         bootEnv = "armed" /\ pc \in {"write", "off"}

\* Every step keeps that.
LEMMA KeptStep == InvType /\ InvKept /\ [Next]_vars => InvKept'
  <1> SUFFICES ASSUME InvType, InvKept, [Next]_vars PROVE InvKept'
    OBVIOUS
  <1> USE TriggerAssumption DEF InvKept, InvType, trouble
  <1>1. CASE PowerOn \/ EnvLoad
    BY <1>1 DEF PowerOn, EnvLoad, Fault
  <1>2. CASE ConsumeRead
    BY <1>2 DEF ConsumeRead, Consuming, Fault
  <1>3. CASE ConsumeErase \/ ConsumeWrite
    BY <1>3 DEF ConsumeErase, ConsumeWrite, Consuming, Fault
  <1>4. CASE ConsumeVerify
    BY <1>4 DEF ConsumeVerify, Consuming, Fault
  <1>5. CASE ByTrigger \/ ByButton \/ ButtonSample \/ Autoboot \/ Command
    BY <1>5 DEF ByTrigger, ByButton, ButtonSample, Autoboot, Command, EnterRecovery
  <1>6. CASE CtrlC \/ Save \/ Arm \/ PowerCut
    BY <1>6 DEF CtrlC, Save, Fault, Arm, PowerCut
  <1>7. CASE UNCHANGED vars
    BY <1>7 DEF vars
  <1> QED
    BY <1>1, <1>2, <1>3, <1>4, <1>5, <1>6, <1>7 DEF Next, Program

\* Unless an operation of that boot fails, consuming the flag keeps the rest of
\* the environment, and only a power cut inside the rewrite of a boot that found
\* the flag set loses it.
THEOREM EnvironmentPreserved == Spec => []EnvPreserved
  <1>1. Init => InvKept
    BY DEF Init, InvKept
  <1>2. InvType /\ InvKept /\ [Next]_vars => InvKept'
    BY KeptStep
  <1>3. InvKept => EnvPreserved
    BY DEF InvKept, EnvPreserved
  <1> QED
    BY <1>1, <1>2, <1>3, Typed, PTL DEF Spec
=============================================================================
