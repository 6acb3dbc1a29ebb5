------------------------- MODULE Interrupts_proofs --------------------------
(***************************************************************************)
(* Theorems about Interrupts: for any number of keys, the console gets     *)
(* every byte once and in order, none is stuck in the keyboard controller, *)
(* and the machine stops in the known cases only.                          *)
(***************************************************************************)
EXTENDS Interrupts, TLAPS, SequenceTheorems

\* What kernel_main has constructed so far.
Constructed ==
  /\ boot > 6 => interruptHandlers[Keyboard] = "device"
  /\ boot > 10 => listeners = "console"

\* The controller holds the last byte loaded, or none; the keyboard interrupts
\* once for each, and its handler has not read it before it has begun.
Signalled ==
  /\ buffer \in {0, loaded}
  /\ Keyboard \in pending => buffer # 0
  /\ running = Keyboard /\ ~entered => buffer # 0 /\ Keyboard \notin pending

\* Keys that are not early ones come when everything stands.
NotEarly == ~early /\ sent > 0 => Booted

LastIsPast == Last \in pending \/ running = Last => past

IrqInv ==
  /\ IrqTypeOK /\ Constructed /\ Signalled /\ NotEarly /\ LastIsPast
  /\ KeysInOrder /\ NeverStuck /\ StopsAreKnown

-----------------------------------------------------------------------------
\* The order of the construction.
LEMMA Steps ==
  /\ Len(BootSteps) = 10
  /\ \A b \in 1 .. 10 :
       /\ BootSteps[b] = "remap" <=> b = 1
       /\ BootSteps[b] = "irq1" <=> b = 5
       /\ BootSteps[b] = "keyboard" <=> b = 6
       /\ BootSteps[b] = "listener" <=> b = 9
       /\ BootSteps[b] = "console" <=> b = 10
BY DEF BootSteps

LEMMA StepIs ==
  ASSUME IrqTypeOK, NEW name, Step(name)
  PROVE  /\ running = -1 /\ ~halted /\ ~Booted
         /\ boot \in 1 .. 10 /\ boot' = boot + 1
         /\ BootSteps[boot] = name
BY Steps DEF Step, Booted, IrqTypeOK

\* The bytes 1 to n, and one more.
LEMMA OneMore ==
  ASSUME NEW n \in Nat
  PROVE  Append([i \in 1 .. n |-> i], n + 1) = [i \in 1 .. n + 1 |-> i]
OBVIOUS

LEMMA IrqInvInit == IrqInit => IrqInv
<1> SUFFICES ASSUME IrqInit PROVE IrqInv
  OBVIOUS
<1>1. <<>> = [i \in 1 .. 0 |-> i]
  OBVIOUS
<1>2. received = [i \in 1 .. 0 |-> i] /\ received \in Seq(1 .. MaxKeys)
  BY <1>1 DEF IrqInit
<1>3. IrqTypeOK
  <2>1. interruptHandlers \in [Handled -> {"null", "base", "device"}]
    BY DEF IrqInit
  <2>2. boot \in 1 .. Len(BootSteps) + 1
    BY Steps DEF IrqInit
  <2>3. {enabled, entered, clockOn, registerC, early, past, halted} \subseteq BOOLEAN
    BY DEF IrqInit
  <2>4. buffer \in 0 .. MaxKeys /\ sent \in 0 .. MaxKeys /\ loaded \in 0 .. sent
    BY InterruptsAssumption DEF IrqInit
  <2> QED  BY <1>2, <2>1, <2>2, <2>3, <2>4 DEF IrqInit, IrqTypeOK
<1>4. Constructed /\ Signalled /\ NotEarly /\ LastIsPast
  BY DEF IrqInit, Constructed, Signalled, NotEarly, LastIsPast, Keyboard, Last
<1>5. KeysInOrder /\ NeverStuck /\ StopsAreKnown
  BY <1>2 DEF IrqInit, KeysInOrder, NeverStuck, StopsAreKnown
<1> QED  BY <1>3, <1>4, <1>5 DEF IrqInv

LEMMA TypeStep ==
  ASSUME IrqInv, IrqNext
  PROVE  IrqTypeOK'
<1> USE InterruptsAssumption DEF IrqInv, Lines, Timer, Keyboard, Clock, Last, Handled
<1>1. CASE Boot
  <2>1. boot' \in 1 .. Len(BootSteps) + 1
    BY <1>1, Steps, SMTT(20) DEF Boot, isrInstall, EnableInterrupts, ConstructHandler, ConstructDevice,
                ConstructConsole, Step, Booted, IrqTypeOK
  <2> QED
    BY <1>1, <2>1 DEF Boot, isrInstall, EnableInterrupts, ConstructHandler, ConstructDevice,
                ConstructConsole, kbdVars, rtcVars, tables, IrqTypeOK
<1>2. CASE Hardware
  <2>1. CASE TimerPulses \/ ClockFires \/ LastLineRises
    BY <2>1 DEF TimerPulses, ClockFires, LastLineRises, Raise, cpuVars, kbdVars, rtcVars, tables, IrqTypeOK
  <2>2. CASE KeyTyped
    <3>1. sent' \in 0 .. MaxKeys /\ loaded \in 0 .. sent' /\ early' \in BOOLEAN
      BY <2>2, SMTT(20) DEF KeyTyped, IrqTypeOK
    <3> QED  BY <2>2, <3>1, SMTT(20) DEF KeyTyped, cpuVars, rtcVars, tables, IrqTypeOK
  <2>3. CASE LoadByte
    <3>1. buffer' \in 0 .. MaxKeys /\ loaded' \in 0 .. sent /\ pending' \subseteq Lines
      BY <2>3 DEF LoadByte, Raise, IrqTypeOK
    <3> QED  BY <2>3, <3>1 DEF LoadByte, cpuVars, rtcVars, tables, IrqTypeOK
  <2> QED  BY <1>2, <2>1, <2>2, <2>3 DEF Hardware
<1>3. ASSUME NEW line \in Lines, TakeInterrupt(line)
      PROVE  IrqTypeOK'
  BY <1>3 DEF TakeInterrupt, kbdVars, rtcVars, tables, IrqTypeOK
<1>4. CASE irqHandler
  <2>1. buffer' \in 0 .. MaxKeys /\ received' \in Seq(1 .. MaxKeys) /\ halted' \in BOOLEAN
    <3>1. CASE KeyboardHandler
      <4>1. buffer \in 1 .. MaxKeys
        BY <1>4, <3>1 DEF irqHandler, KeyboardHandler, Signalled, IrqTypeOK
      <4>2. Append(received, buffer) \in Seq(1 .. MaxKeys)
        BY <4>1 DEF IrqTypeOK
      <4>3. halted' \in BOOLEAN
        BY <3>1 DEF KeyboardHandler
      <4>4. received' = Append(received, buffer) \/ received' = received
        BY <3>1 DEF KeyboardHandler
      <4>5. received' \in Seq(1 .. MaxKeys)
        BY <4>2, <4>4 DEF IrqTypeOK
      <4>6. buffer' = 0 /\ 0 \in 0 .. MaxKeys
        BY <3>1 DEF KeyboardHandler
      <4> QED  BY <4>3, <4>5, <4>6
    <3> QED
      BY <1>4, <3>1 DEF irqHandler, NothingDone, TimerHandler, ClockHandler, BehindTheTable, kbdVars, IrqTypeOK
  <2>2. pending' \subseteq Lines /\ sent' = sent /\ loaded' = loaded /\ early' = early
        /\ clockOn' = clockOn /\ registerC' \in BOOLEAN
    BY <1>4 DEF irqHandler, NothingDone, TimerHandler, KeyboardHandler, ClockHandler, BehindTheTable,
                kbdVars, rtcVars, IrqTypeOK
  <2> QED  BY <1>4, <2>1, <2>2 DEF irqHandler, tables, IrqTypeOK
<1>5. CASE Iret
  BY <1>5 DEF Iret, kbdVars, rtcVars, tables, IrqTypeOK
<1> QED  BY <1>1, <1>2, <1>3, <1>4, <1>5 DEF IrqNext

\* What the steps leave alone.
LEMMA BootLeaves ==
  ASSUME Boot
  PROVE  /\ UNCHANGED <<running, entered, halted, kbdVars, past>>
         /\ pending' \subseteq pending
         /\ pending' # pending => Step("remap")
<1>1. CASE isrInstall
  BY <1>1 DEF isrInstall, Step, kbdVars
<1>2. CASE EnableInterrupts \/ ConstructConsole
  BY <1>2 DEF EnableInterrupts, ConstructConsole, Step, kbdVars, tables
<1>3. ASSUME NEW line, NEW name, ConstructHandler(line, name) \/ ConstructDevice(line, name)
      PROVE  UNCHANGED <<running, entered, halted, kbdVars, past, pending>>
  BY <1>3 DEF ConstructHandler, ConstructDevice, Step, kbdVars
<1> QED  BY <1>1, <1>2, <1>3 DEF Boot

\* The handlers and the listener stay once they stand.
LEMMA ConstructedStep ==
  ASSUME IrqInv, IrqNext
  PROVE  Constructed'
<1> USE DEF IrqInv
<1>1. CASE Boot
  <2>1. boot' = boot + 1 /\ boot \in 1 .. 10
    BY <1>1, StepIs DEF Boot, isrInstall, EnableInterrupts, ConstructHandler, ConstructDevice, ConstructConsole
  <2>2. ASSUME boot' > 6 PROVE interruptHandlers'[Keyboard] = "device"
    <3>1. CASE boot = 6
      <4>1. ConstructDevice(Keyboard, "keyboard")
        BY <1>1, <3>1, StepIs, Steps
        DEF Boot, isrInstall, EnableInterrupts, ConstructHandler, ConstructDevice, ConstructConsole, Step, BootSteps
      <4> QED  BY <4>1 DEF ConstructDevice, IrqTypeOK, Handled, Keyboard
    <3>2. CASE boot # 6
      <4>1. interruptHandlers[Keyboard] = "device" /\ boot # 5
        BY <2>1, <2>2, <3>2 DEF Constructed
      <4>2. ~ConstructHandler(Keyboard, "irq1")
        BY <2>1, <4>1, Steps DEF ConstructHandler, Step
      <4>3. \/ UNCHANGED interruptHandlers
            \/ \E line \in {Timer, Clock} : \E h \in {"base", "device"} :
                 interruptHandlers' = [interruptHandlers EXCEPT ![line] = h]
            \/ interruptHandlers' = [interruptHandlers EXCEPT ![Keyboard] = "device"]
        BY <1>1, <4>2 DEF Boot, isrInstall, EnableInterrupts, ConstructHandler, ConstructDevice,
                          ConstructConsole, tables
      <4> QED  BY <4>1, <4>3 DEF IrqTypeOK, Handled, Keyboard, Timer, Clock
    <3> QED  BY <3>1, <3>2
  <2>3. ASSUME boot' > 10 PROVE listeners' = "console"
    <3>1. boot = 10
      BY <2>1, <2>3
    <3>2. ConstructConsole /\ Step("console")
      BY <1>1, <3>1, Steps
      DEF Boot, isrInstall, EnableInterrupts, ConstructHandler, ConstructDevice, ConstructConsole, Step, BootSteps
    <3> QED  BY <3>1, <3>2, Steps DEF ConstructConsole, Step
  <2> QED  BY <2>2, <2>3 DEF Constructed
<1>2. CASE ~Boot
  BY <1>2 DEF IrqNext, Hardware, TimerPulses, KeyTyped, LoadByte, ClockFires, LastLineRises, TakeInterrupt,
              irqHandler, Iret, cpuVars, tables, Constructed
<1> QED  BY <1>1, <1>2

LEMMA FlagsStep ==
  ASSUME IrqInv, IrqNext
  PROVE  Signalled' /\ NotEarly' /\ LastIsPast'
<1> USE InterruptsAssumption DEF IrqInv, Signalled, NotEarly, LastIsPast
<1>1. CASE Boot
  <2>1. boot \in 1 .. 10 /\ boot' = boot + 1 /\ ~Booted
    BY <1>1, StepIs DEF Boot, isrInstall, EnableInterrupts, ConstructHandler, ConstructDevice, ConstructConsole
  <2> QED  BY <1>1, <2>1, BootLeaves DEF kbdVars, Booted
<1>2. CASE TimerPulses \/ ClockFires \/ LastLineRises
  BY <1>2 DEF TimerPulses, ClockFires, LastLineRises, Raise, cpuVars, kbdVars, Booted,
              Timer, Clock, Keyboard, Last
<1>3. CASE KeyTyped
  BY <1>3 DEF KeyTyped, cpuVars, Booted, Keyboard, Last, IrqTypeOK
<1>4. CASE LoadByte
  BY <1>4 DEF LoadByte, Raise, cpuVars, Booted, Keyboard, Last, IrqTypeOK
<1>5. ASSUME NEW line \in Lines, TakeInterrupt(line)
      PROVE  Signalled' /\ NotEarly' /\ LastIsPast'
  BY <1>5 DEF TakeInterrupt, kbdVars, Booted
<1>6. CASE irqHandler
  <2>1. CASE KeyboardHandler
    BY <1>6, <2>1 DEF irqHandler, KeyboardHandler, Booted, Keyboard, Last
  <2>2. CASE ~KeyboardHandler
    BY <1>6, <2>2 DEF irqHandler, NothingDone, TimerHandler, ClockHandler, BehindTheTable, kbdVars, Booted
  <2> QED  BY <2>1, <2>2
<1>7. CASE Iret
  BY <1>7 DEF Iret, kbdVars, Booted, Keyboard, Last
<1> QED  BY <1>1, <1>2, <1>3, <1>4, <1>5, <1>6, <1>7 DEF IrqNext, Hardware

\* A byte in the buffer comes, unless one was early, when everything stands.
LEMMA Standing ==
  ASSUME IrqInv, ~early, buffer # 0
  PROVE  Booted /\ interruptHandlers[Keyboard] = "device" /\ listeners = "console"
<1>1. sent > 0
  BY InterruptsAssumption DEF IrqInv, IrqTypeOK, Signalled
<1>2. Booted
  BY <1>1 DEF IrqInv, NotEarly
<1> QED  BY <1>2, Steps DEF IrqInv, Constructed, Booted, IrqTypeOK

LEMMA OrderStep ==
  ASSUME IrqInv, IrqNext
  PROVE  KeysInOrder'
<1> USE DEF IrqInv
<1>1. CASE irqHandler /\ KeyboardHandler
  <2> SUFFICES ASSUME ~early PROVE received' = [i \in 1 .. loaded |-> i]
    <3>1. loaded - 0 = loaded
      BY InterruptsAssumption DEF IrqTypeOK
    <3> QED  BY <1>1, <3>1 DEF KeyboardHandler, KeysInOrder
  <2>1. buffer # 0 /\ buffer = loaded
    BY <1>1 DEF irqHandler, KeyboardHandler, Signalled
  <2>2. received = [i \in 1 .. loaded - 1 |-> i]
    BY <2>1 DEF KeysInOrder
  <2>3. received' = Append(received, loaded)
    BY <1>1, <2>1, Standing DEF KeyboardHandler
  <2>4. loaded - 1 \in Nat /\ loaded = (loaded - 1) + 1
    BY <2>1, InterruptsAssumption DEF IrqTypeOK
  <2> QED  BY <2>2, <2>3, <2>4, OneMore
<1>2. CASE LoadByte
  <2>1. loaded' - (IF buffer' = 0 THEN 0 ELSE 1) = loaded /\ UNCHANGED <<received, early>>
    BY <1>2, InterruptsAssumption DEF LoadByte, IrqTypeOK
  <2> QED  BY <1>2, <2>1 DEF LoadByte, KeysInOrder
<1>3. CASE KeyTyped
  BY <1>3 DEF KeyTyped, KeysInOrder
<1>4. CASE ~(irqHandler /\ KeyboardHandler) /\ ~LoadByte /\ ~KeyTyped
  <2>1. UNCHANGED <<received, loaded, buffer, early>>
    BY <1>4, BootLeaves DEF IrqNext, Hardware, TimerPulses, ClockFires, LastLineRises, TakeInterrupt, irqHandler,
              NothingDone, TimerHandler, ClockHandler, BehindTheTable, Iret, kbdVars
  <2> QED  BY <2>1 DEF KeysInOrder
<1> QED  BY <1>1, <1>2, <1>3, <1>4

LEMMA StuckStep ==
  ASSUME IrqInv, IrqNext
  PROVE  NeverStuck'
<1> USE DEF IrqInv, NeverStuck
<1>1. CASE Boot
  <2>1. CASE Step("remap")
    <3>1. ~early => buffer = 0
      BY <2>1, Standing DEF Step
    <3> QED  BY <1>1, <3>1, BootLeaves DEF kbdVars
  <2>2. CASE ~Step("remap")
    BY <1>1, <2>2, BootLeaves DEF kbdVars
  <2> QED  BY <2>1, <2>2
<1>2. CASE TimerPulses \/ ClockFires \/ LastLineRises \/ LoadByte
  BY <1>2 DEF TimerPulses, ClockFires, LastLineRises, LoadByte, Raise, cpuVars, kbdVars
<1>3. CASE KeyTyped
  BY <1>3 DEF KeyTyped, cpuVars
<1>4. ASSUME NEW line \in Lines, TakeInterrupt(line)
      PROVE  NeverStuck'
  BY <1>4 DEF TakeInterrupt, kbdVars, Keyboard
<1>5. CASE irqHandler
  <2>1. CASE KeyboardHandler
    BY <2>1 DEF KeyboardHandler
  <2>2. CASE ~KeyboardHandler
    <3>1. UNCHANGED <<buffer, early, pending, running>> /\ (~halted' => ~halted)
      BY <1>5, <2>2 DEF irqHandler, NothingDone, TimerHandler, ClockHandler, BehindTheTable, kbdVars
    <3>2. ~early /\ buffer # 0 /\ running = Keyboard => FALSE
      BY <1>5, <2>2, Standing
      DEF irqHandler, NothingDone, TimerHandler, ClockHandler, BehindTheTable, Keyboard, Timer, Clock, Last
    <3> QED  BY <1>5, <3>1, <3>2
  <2> QED  BY <2>1, <2>2
<1>6. CASE Iret
  BY <1>6 DEF Iret, kbdVars
<1> QED  BY <1>1, <1>2, <1>3, <1>4, <1>5, <1>6 DEF IrqNext, Hardware

LEMMA StopStep ==
  ASSUME IrqInv, IrqNext
  PROVE  StopsAreKnown'
<1> USE DEF IrqInv, StopsAreKnown
<1>1. CASE irqHandler /\ KeyboardHandler
  <2>1. /\ buffer # 0 /\ running = Keyboard
        /\ UNCHANGED <<early, past, boot, running, listeners>>
    BY <1>1 DEF irqHandler, KeyboardHandler, Signalled, tables
  <2>2. early \/ (Booted /\ listeners = "console")
    BY <2>1, Standing
  <2> QED  BY <2>1, <2>2 DEF Booted
<1>2. CASE irqHandler /\ BehindTheTable
  BY <1>2 DEF irqHandler, BehindTheTable, LastIsPast, kbdVars
<1>3. CASE irqHandler /\ ~KeyboardHandler /\ ~BehindTheTable
  BY <1>3 DEF irqHandler, NothingDone, TimerHandler, ClockHandler
<1>4. CASE Hardware
  BY <1>4 DEF Hardware, TimerPulses, KeyTyped, LoadByte, ClockFires, LastLineRises, cpuVars, kbdVars,
              tables, Booted
<1>5. CASE Boot
  <2>1. ~halted /\ halted' = halted
    BY <1>5, BootLeaves
    DEF Boot, isrInstall, EnableInterrupts, ConstructHandler, ConstructDevice, ConstructConsole, Step
  <2> QED  BY <2>1
<1>6. CASE Iret \/ \E line \in Lines : TakeInterrupt(line)
  BY <1>6 DEF Iret, TakeInterrupt
<1> QED  BY <1>1, <1>2, <1>3, <1>4, <1>5, <1>6 DEF IrqNext

-----------------------------------------------------------------------------
LEMMA IrqInvAlways == IrqSpec => []IrqInv
<1>1. IrqInv /\ [IrqNext]_irqVars => IrqInv'
  <2>1. CASE IrqInv /\ IrqNext
    BY <2>1, TypeStep, ConstructedStep, FlagsStep, OrderStep, StuckStep, StopStep DEF IrqInv
  <2>2. CASE IrqInv /\ UNCHANGED irqVars
    BY <2>2 DEF IrqInv, IrqTypeOK, Constructed, Signalled, NotEarly, LastIsPast, KeysInOrder, NeverStuck,
                StopsAreKnown, Booted, irqVars, cpuVars, tables, kbdVars, rtcVars
  <2> QED  BY <2>1, <2>2
<1> QED  BY <1>1, IrqInvInit, PTL DEF IrqSpec

\* The console never gets a byte that is none: the keyboard's handler runs only
\* with one in the buffer.
THEOREM IrqTypeCorrect == IrqSpec => []IrqTypeOK
<1>1. IrqInv => IrqTypeOK
  BY DEF IrqInv
<1> QED  BY <1>1, IrqInvAlways, PTL

\* The bytes reach the console once and in order, however the interrupts fall
\* among the steps of kernel_main and the handlers.
THEOREM KeysInOrderCorrect == IrqSpec => []KeysInOrder
<1>1. IrqInv => KeysInOrder
  BY DEF IrqInv
<1> QED  BY <1>1, IrqInvAlways, PTL

\* No byte waits in the keyboard controller with no interrupt on its way.
THEOREM NeverStuckCorrect == IrqSpec => []NeverStuck
<1>1. IrqInv => NeverStuck
  BY DEF IrqInv
<1> QED  BY <1>1, IrqInvAlways, PTL

\* Interrupts stop the machine after an early key, on line 15, and, once it is
\* booted, on a key in the console's own code; never else.
THEOREM StopsAreKnownCorrect == IrqSpec => []StopsAreKnown
<1>1. IrqInv => StopsAreKnown
  BY DEF IrqInv
<1> QED  BY <1>1, IrqInvAlways, PTL
=============================================================================
