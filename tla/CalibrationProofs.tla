--------------------------- MODULE CalibrationProofs ---------------------------
(***************************************************************************)
(* The types of the calibration wizard, and that what it saves once it has *)
(* shown a result is that result.                                          *)
(***************************************************************************)
EXTENDS Calibration, SequenceTheorems, TLAPS

LEMMA DataTypes ==
  /\ NoData \in GripperData /\ Unscaled \in GripperData
  /\ \A d \in GripperData, g \in Degrees \cup {0} :
       /\ [d EXCEPT !.deg00 = g] \in GripperData
       /\ [d EXCEPT !.deg90 = g] \in GripperData
BY DEF NoData, Unscaled, GripperData

LEMMA HeadTypes ==
  ASSUME NEW s \in Seq(Commands), s # <<>>
  PROVE  /\ Head(s) \in Commands
         /\ Tail(s) \in Seq(Commands)
BY HeadTailProperties

LEMMA CommandTypes ==
  ASSUME NEW k \in Commands
  PROVE  /\ k.op = "L" => k.deg \in Degrees
         /\ k.op = "R" => k.ledMode \in LedModes /\ k.stepperDir \in StepperDirs
BY DEF Commands

LEMMA TypeInit == Init => TypeOK
<1> SUFFICES ASSUME Init
             PROVE  TypeOK
  OBVIOUS
<1>1. eeprom \in Config /\ eeprom.gripper \in GripperData
  BY DEF Init, Config
<1>2. rx \in Seq(Commands)
  BY DEF Init
<1>3. newData \in GripperData /\ shown \in SUBSET GripperData /\ calibration \in GripperData
  BY <1>1, DataTypes DEF Init
<1> QED
  BY <1>1, <1>2, <1>3, CalibrationAssumption DEF Init, TypeOK

LEMMA TypeStep == TypeOK /\ [Next]_vars => TypeOK'
<1> SUFFICES ASSUME TypeOK, [Next]_vars
             PROVE  TypeOK'
  OBVIOUS
<1> USE DEF TypeOK, line, choice, steps
<1>t. ASSUME NEW op, Take(op)
      PROVE  /\ rx' \in Seq(Commands) /\ part' = part
             /\ Head(rx) \in Commands /\ Head(rx).op = op
  BY <1>t, HeadTypes DEF Take
<1>1. CASE Step1
  BY <1>1, <1>t, DataTypes DEF Step1
<1>2. CASE Step2
  <2>1. newData' \in GripperData /\ calibration' \in GripperData
    BY <1>2, DataTypes DEF Step2
  <2> QED
    BY <1>2, <1>t, <2>1 DEF Step2
<1>3. CASE Step3
  <2>1. newData' \in GripperData /\ calibration' = newData' /\ shown' = {newData'}
    BY <1>3, DataTypes DEF Step3
  <2> QED
    BY <1>3, <1>t, <2>1 DEF Step3
<1>4. CASE Step4
  BY <1>4, <1>t DEF Step4
<1>5. CASE Grippers \/ PrintOldRGBStep
  BY <1>5, <1>t DEF Grippers, PrintOldRGBStep
<1>6. CASE WriteLR
  BY <1>6, <1>t, CommandTypes DEF WriteLR
<1>7. CASE SetRGBStep
  BY <1>7, <1>t, CommandTypes DEF SetRGBStep
<1>8. CASE Drained \/ DemoLoop \/ Stop \/ Turn \/ LedDone \/ LedTimeout \/ NoTouch
  BY <1>8 DEF Drained, DemoLoop, Stop, Turn, LedDone, LedTimeout, NoTouch
<1>9. CASE Save
  BY <1>9 DEF Save, Config
<1>10. CASE BeginLine
  BY <1>10 DEF BeginLine
<1>11. CASE EndLine
  <2>1. PICK k \in Commands : rx' = Append(rx, k)
    BY <1>11 DEF EndLine
  <2>2. rx' \in Seq(Commands)
    BY <2>1, AppendProperties
  <2> QED
    BY <1>11, <2>2 DEF EndLine
<1>12. CASE PowerCycle
  <2>1. eeprom.gripper \in GripperData
    BY DEF Config
  <2> QED
    <3>1. newData' \in GripperData /\ shown' = {} /\ calibration' \in GripperData
      BY <1>12, <2>1, DataTypes DEF PowerCycle
    <3>2. rx' \in Seq(Commands)
      BY <1>12 DEF PowerCycle
    <3> QED
      BY <1>12, <3>1, <3>2, CalibrationAssumption DEF PowerCycle
<1>13. CASE UNCHANGED vars
  BY <1>13 DEF vars
<1> QED
  BY <1>1, <1>2, <1>3, <1>4, <1>5, <1>6, <1>7, <1>8, <1>9, <1>10, <1>11, <1>12, <1>13
     DEF Next, Sketch, Handle

\* Every variable keeps its type for every set of positions and choices.
THEOREM CalibrationTypeCorrect == Spec => []TypeOK
<1> QED
  BY TypeInit, TypeStep, PTL DEF Spec

-----------------------------------------------------------------------------
(* What is measured and what was shown differ at most in the open position, *)
(* and not at all between Step3 and the next Step1.                         *)

Shown ==
  /\ \A result \in shown : newData.deg90 = result.deg90
  /\ ~checkNextStep => newData \in shown

LEMMA ShownInit == Init => Shown
BY DEF Init, Shown

LEMMA ShownStep == TypeOK /\ Shown /\ [Next]_vars => Shown'
<1> SUFFICES ASSUME TypeOK, Shown, [Next]_vars
             PROVE  Shown'
  OBVIOUS
<1> USE DEF Shown, steps
<1>1. CASE Step2
  BY <1>1 DEF Step2, TypeOK, GripperData
<1>2. CASE Step1 \/ Step3 \/ PowerCycle
  BY <1>2 DEF Step1, Step3, PowerCycle
<1>3. CASE Step4 \/ Grippers \/ PrintOldRGBStep \/ WriteLR \/ SetRGBStep
  BY <1>3 DEF Step4, Grippers, PrintOldRGBStep, WriteLR, SetRGBStep
<1>4. CASE \/ Drained \/ DemoLoop \/ Stop \/ Turn \/ LedDone \/ LedTimeout \/ NoTouch \/ Save
           \/ BeginLine \/ EndLine
  BY <1>4 DEF Drained, DemoLoop, Stop, Turn, LedDone, LedTimeout, NoTouch, Save, BeginLine, EndLine
<1>5. CASE UNCHANGED vars
  BY <1>5 DEF vars
<1> QED
  BY <1>1, <1>2, <1>3, <1>4, <1>5 DEF Next, Sketch, Handle

LEMMA SaveStep ==
  Shown /\ [Next]_vars =>
    (eeprom' # eeprom =>
       /\ \A result \in shown : eeprom'.gripper.deg90 = result.deg90
       /\ ~checkNextStep => eeprom'.gripper \in shown)
<1> SUFFICES ASSUME Shown, [Next]_vars, eeprom' # eeprom
             PROVE  /\ \A result \in shown : eeprom'.gripper.deg90 = result.deg90
                    /\ ~checkNextStep => eeprom'.gripper \in shown
  OBVIOUS
<1>1. Save
  BY DEF Next, Sketch, Handle, Step1, Step2, Step3, Step4, Grippers, PrintOldRGBStep, WriteLR,
         SetRGBStep, Drained, DemoLoop, Stop, Turn, LedDone, LedTimeout, NoTouch,
         BeginLine, EndLine, PowerCycle, vars
<1>2. eeprom'.gripper = newData
  BY <1>1 DEF Save
<1> QED
  BY <1>2 DEF Shown

\* Whatever lines the page sends, in whatever order, and whenever the power goes:
\* once a result has been shown since power-on, the calibration saved is the one shown
\* last, but for an open position measured since.
THEOREM ShownIsSavedCorrect == Spec => ShownIsSaved
<1> DEFINE SavesShown == eeprom' # eeprom =>
                           /\ \A result \in shown : eeprom'.gripper.deg90 = result.deg90
                           /\ ~checkNextStep => eeprom'.gripper \in shown
<1>1. Shown /\ [Next]_vars => [SavesShown]_vars
  BY SaveStep
<1> HIDE DEF SavesShown
<1>2. Spec => [][SavesShown]_vars
  BY <1>1, TypeInit, TypeStep, ShownInit, ShownStep, PTL DEF Spec
<1> QED
  BY <1>2, PTL DEF ShownIsSaved, SavesShown
=============================================================================
