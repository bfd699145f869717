------------------------------ MODULE Calibration ------------------------------
(***************************************************************************)
(* The Leanbot calibration wizard: a page in a browser sends lines over    *)
(* the serial port; the sketch measures the gripper, shows the result by   *)
(* moving until the next line comes, and saves it when two touch buttons   *)
(* are pressed.  Left and right gripper are always set together: a degree  *)
(* of the model stands for the pair.                                       *)
(***************************************************************************)
EXTENDS Integers, Sequences

CONSTANTS
  Degrees,    \* gripper positions the page sends
  LedModes,   \* LED chain types the page sends
  StepperDirs,\* stepper directions the page sends
  FORWARD,    \* MOTION_DIRECTION_FORWARD
  MaxQueued   \* bound: lines the page sends ahead; as many fit in the UART's buffer

GripperData == [deg00 : Degrees \cup {0}, deg90 : Degrees \cup {0, 90}]
Config == [gripper : GripperData, ledMode : LedModes \cup {2}, stepperDir : StepperDirs]

ASSUME CalibrationAssumption ==
  /\ FORWARD \in StepperDirs
  /\ MaxQueued \in Nat \ {0}

\* An L line has a space between its two numbers: without one the sketch would look
\* for it for ever.
Commands ==
  [op : {"Step1", "Step2", "Step3", "Step4", "Grippers", "RGB+Step"}]
    \cup [op : {"L"}, deg : Degrees]
    \cup [op : {"R"}, ledMode : LedModes, stepperDir : StepperDirs]

VARIABLES
  rx,               \* whole lines in the UART
  part,             \* the beginning of the next one: "none", "waiting" in the UART, "buffered"
  pc,               \* where the sketch is
  deg, newData, ledMode, stepperDir,
  checkNextStep, checkSaveToEEPROM,
  calibration,      \* what LbGripper scales its movements with
  motors,           \* the speed given to LbMotion, as a sign
  eeprom,           \* what LbHwConfig has stored
  shown             \* history: {} until a result is shown after power-on, then the set
                    \* of newData as it was shown last

line == <<rx, part>>
choice == <<ledMode, stepperDir>>
steps == <<checkNextStep, checkSaveToEEPROM>>
vars == <<line, pc, deg, newData, choice, steps, calibration, motors, eeprom, shown>>

\* setCalibration(0, 90, 0, 90): a degree sent is a degree moved.
Unscaled == [deg00 |-> 0, deg90 |-> 90]
NoData == [deg00 |-> 0, deg90 |-> 0]

Init ==
  /\ eeprom \in Config
  /\ rx = <<>> /\ part = "none" /\ pc = "serial"
  /\ deg = 0 /\ newData = NoData /\ shown = {}
  /\ ledMode = 2 /\ stepperDir = FORWARD
  /\ checkNextStep = TRUE /\ checkSaveToEEPROM = FALSE
  /\ motors = 0 /\ calibration = eeprom.gripper

-----------------------------------------------------------------------------
(* The page and the power switch.                                          *)

BeginLine ==
  /\ part = "none" /\ Len(rx) < MaxQueued
  /\ part' = "waiting"
  /\ UNCHANGED <<rx, pc, deg, newData, choice, steps, calibration, motors, eeprom, shown>>

EndLine ==
  /\ part # "none"
  /\ \E c \in Commands : rx' = Append(rx, c)
  /\ part' = "none"
  /\ UNCHANGED <<pc, deg, newData, choice, steps, calibration, motors, eeprom, shown>>

\* Power goes and comes back: only the EEPROM keeps its content.
PowerCycle ==
  /\ rx' = <<>> /\ part' = "none" /\ pc' = "serial"
  /\ deg' = 0 /\ newData' = NoData /\ shown' = {}
  /\ ledMode' = 2 /\ stepperDir' = FORWARD
  /\ checkNextStep' = TRUE /\ checkSaveToEEPROM' = FALSE
  /\ motors' = 0 /\ calibration' = eeprom.gripper
  /\ eeprom' = eeprom

-----------------------------------------------------------------------------
(* serial_checkCommand and handleCommand                                   *)

Available == rx # <<>> \/ part = "waiting"

Take(op) ==
  /\ pc = "serial" /\ rx # <<>> /\ Head(rx).op = op
  /\ rx' = Tail(rx) /\ part' = part

Step1 ==
  /\ Take("Step1")
  /\ checkNextStep' = TRUE
  /\ calibration' = Unscaled
  /\ UNCHANGED <<pc, deg, newData, choice, checkSaveToEEPROM, motors, eeprom, shown>>

\* Mutant of Step2: it measures each time.
Step2Always ==
  /\ Take("Step2")
  /\ newData' = [newData EXCEPT !.deg00 = deg]
  /\ calibration' = Unscaled
  /\ UNCHANGED <<pc, deg, choice, steps, motors, eeprom, shown>>

\* Coming back from the result, the open position measured before it is kept.
Step2 ==
  /\ Take("Step2")
  /\ newData' = IF checkNextStep THEN [newData EXCEPT !.deg00 = deg] ELSE newData
  /\ calibration' = Unscaled
  /\ UNCHANGED <<pc, deg, choice, steps, motors, eeprom, shown>>

\* PrintCalibrationResult prints the result and loads it; how long it is demonstrated
\* depends on the next line.
Step3 ==
  /\ Take("Step3")
  /\ checkNextStep' = FALSE
  /\ newData' = [newData EXCEPT !.deg90 = deg]
  /\ calibration' = newData' /\ shown' = {newData'}
  /\ pc' = "demo"
  /\ UNCHANGED <<deg, choice, checkSaveToEEPROM, motors, eeprom>>

Step4 ==
  /\ Take("Step4")
  /\ checkSaveToEEPROM' = TRUE
  /\ UNCHANGED <<pc, deg, newData, choice, checkNextStep, calibration, motors, eeprom, shown>>

Grippers ==
  /\ Take("Grippers")
  /\ motors' = 0
  /\ UNCHANGED <<pc, deg, newData, choice, steps, calibration, eeprom, shown>>

\* Prints the choice stored before.
PrintOldRGBStep ==
  /\ Take("RGB+Step")
  /\ UNCHANGED <<pc, deg, newData, choice, steps, calibration, motors, eeprom, shown>>

WriteLR ==
  /\ Take("L")
  /\ deg' = Head(rx).deg
  /\ UNCHANGED <<pc, newData, choice, steps, calibration, motors, eeprom, shown>>

SetRGBStep ==
  /\ Take("R")
  /\ ledMode' = Head(rx).ledMode /\ stepperDir' = Head(rx).stepperDir
  /\ motors' = 1
  /\ pc' = "led"
  /\ UNCHANGED <<deg, newData, steps, calibration, eeprom, shown>>

\* Part of a line is kept in commandBuffer; with nothing left the buttons are read.
Drained ==
  /\ pc = "serial" /\ rx = <<>>
  /\ part' = IF part = "waiting" THEN "buffered" ELSE part
  /\ pc' = "touch"
  /\ UNCHANGED <<rx, deg, newData, choice, steps, calibration, motors, eeprom, shown>>

Handle ==
  \/ Step1 \/ Step2 \/ Step3 \/ Step4 \/ Grippers \/ PrintOldRGBStep
  \/ WriteLR \/ SetRGBStep

-----------------------------------------------------------------------------
(* The loops inside the handlers                                           *)

\* Mutant of DemoLoop: the demonstration does not look at the UART.
DemoForever ==
  /\ pc = "demo"
  /\ pc' = "out" /\ motors' = 1
  /\ UNCHANGED <<line, deg, newData, choice, steps, calibration, eeprom, shown>>

\* PrintCalibrationResult looks at the UART between two rounds only.
DemoLoop ==
  /\ pc = "demo"
  /\ IF Available THEN pc' = "serial" /\ motors' = motors
                  ELSE pc' = "out" /\ motors' = 1
  /\ UNCHANGED <<line, deg, newData, choice, steps, calibration, eeprom, shown>>

\* Out, a stop, back, a stop.
Stop ==
  /\ pc \in {"out", "back"} /\ motors # 0
  /\ motors' = 0
  /\ UNCHANGED <<line, pc, deg, newData, choice, steps, calibration, eeprom, shown>>

Turn ==
  /\ pc \in {"out", "back"} /\ motors = 0
  /\ IF pc = "out" THEN pc' = "back" /\ motors' = -1
                   ELSE pc' = "demo" /\ motors' = 0
  /\ UNCHANGED <<line, deg, newData, choice, steps, calibration, eeprom, shown>>

\* setLedMode: the motors stop after timeStopLeanbot, unless a line comes first;
\* then they run on.
LedTimeout ==
  /\ pc = "led" /\ motors # 0
  /\ motors' = 0
  /\ UNCHANGED <<line, pc, deg, newData, choice, steps, calibration, eeprom, shown>>

LedDone ==
  /\ pc = "led" /\ Available
  /\ pc' = "serial"
  /\ UNCHANGED <<line, deg, newData, choice, steps, calibration, motors, eeprom, shown>>

-----------------------------------------------------------------------------
(* The end of loop()                                                       *)

\* Both buttons are touched and the save is armed: write_220822.
Save ==
  /\ pc = "touch" /\ checkSaveToEEPROM
  /\ eeprom' = [gripper |-> newData, ledMode |-> ledMode, stepperDir |-> stepperDir]
  /\ pc' = "serial"
  /\ UNCHANGED <<line, deg, newData, choice, steps, calibration, motors, shown>>

NoTouch ==
  /\ pc = "touch"
  /\ pc' = "serial"
  /\ UNCHANGED <<line, deg, newData, choice, steps, calibration, motors, eeprom, shown>>

Sketch == Handle \/ Drained \/ DemoLoop \/ Stop \/ Turn \/ LedDone \/ Save \/ NoTouch
Next == Sketch \/ LedTimeout \/ BeginLine \/ EndLine \/ PowerCycle

\* The sketch runs; whether the LED loop lasts until its timeout is the page's choice.
Spec == Init /\ [][Next]_vars /\ WF_vars(Sketch)

-----------------------------------------------------------------------------
TypeOK ==
  /\ rx \in Seq(Commands)
  /\ part \in {"none", "waiting", "buffered"}
  /\ pc \in {"serial", "touch", "demo", "out", "back", "led"}
  /\ deg \in Degrees \cup {0}
  /\ newData \in GripperData /\ shown \in SUBSET GripperData /\ calibration \in GripperData
  /\ ledMode \in LedModes \cup {2} /\ stepperDir \in StepperDirs
  /\ checkNextStep \in BOOLEAN /\ checkSaveToEEPROM \in BOOLEAN
  /\ motors \in {-1, 0, 1}
  /\ eeprom \in Config

\* Once a result has been shown, the gripper calibration that is saved is the one
\* shown last, however the pages were visited, left and visited again; only the open
\* position may be one measured since, after Step1 has begun again.  Before a result
\* has been shown the sketch saves all the same, with 0 for what was not measured.
ShownIsSaved ==
  [][eeprom' # eeprom =>
       /\ \A result \in shown : eeprom'.gripper.deg90 = result.deg90
       /\ ~checkNextStep => eeprom'.gripper \in shown]_vars

\* The sketch comes back to reading lines when there is one, also from the
\* demonstration and from the LED chain, which have no end of their own.
Heard == rx # <<>> ~> pc = "serial"
=============================================================================
