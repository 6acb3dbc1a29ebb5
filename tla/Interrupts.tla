----------------------------- MODULE Interrupts -----------------------------
(***************************************************************************)
(* How interrupts reach their handlers while the kernel boots and after:   *)
(* kernel_main from isrInstall on, CPU.cpp, the stubs of interrupts.asm,   *)
(* the IRQHandler constructors, and the handlers of PIT, RTC and           *)
(* KeyboardDevice.  Interrupts are enabled before the devices' handlers    *)
(* are there, so a device may interrupt at any step of the construction.   *)
(*                                                                         *)
(* The hardware is external: two PICs, which latch a rising edge of a line *)
(* and forget it when they are programmed; the keyboard controller, which  *)
(* raises its line when it has a byte and holds the next ones back until   *)
(* the byte is read; and the clock, which is silent until its register C   *)
(* is read.  The bytes of the keyboard are numbered.                       *)
(***************************************************************************)
EXTENDS Integers, Sequences, FiniteSets

CONSTANT MaxKeys    \* bound of the model: the bytes the keyboard sends

ASSUME InterruptsAssumption == MaxKeys \in Nat

Timer == 0
Keyboard == 1
Clock == 8
Last == 15
Lines == {Timer, Keyboard, Clock, Last}

Handled == 0 .. 14      \* the indices of interruptHandlers[15]

\* kernel_main, step by step.  A device's constructor first runs IRQHandler's,
\* which enters an object whose handleIRQ is still the empty one.
BootSteps ==
  <<"remap", "sti", "irq0", "pit", "irq1", "keyboard", "irq8", "rtc", "listener", "console">>

VARIABLES
  boot,               \* the step kernel_main takes next
  enabled,            \* the CPU's interrupt flag
  running,            \* the line whose handler runs, or -1
  entered,            \* has that handler done its work?
  pending,            \* the lines the PICs have latched
  interruptHandlers,  \* "null", "base" (an IRQHandler), "device"
  listeners,          \* the pointer: "wild", "base" (KeyboardListener), "console"
  buffer,             \* the byte the keyboard controller offers, 0 for none
  sent,               \* the bytes typed
  loaded,             \* those of them that were in the buffer
  received,           \* the bytes the console handled
  clockOn, registerC, \* is the clock's interrupt enabled, and its flag unread?
  early,              \* was a key typed before the console stood?
  past,               \* has line 15 interrupted, which the table has no entry for?
  halted

cpuVars == <<boot, enabled, running, entered, halted>>
tables  == <<interruptHandlers, listeners>>
kbdVars == <<buffer, sent, loaded, received, early>>
rtcVars == <<clockOn, registerC>>
irqVars == <<cpuVars, pending, tables, kbdVars, rtcVars, past>>

IrqInit ==
  /\ boot = 1 /\ enabled = FALSE /\ running = -1 /\ entered = FALSE /\ halted = FALSE
  /\ pending = {}
  /\ interruptHandlers = [i \in Handled |-> "null"] /\ listeners = "wild"
  /\ buffer = 0 /\ sent = 0 /\ loaded = 0 /\ received = <<>> /\ early = FALSE
  /\ clockOn = FALSE /\ registerC = FALSE /\ past = FALSE

Booted == boot > Len(BootSteps)

-----------------------------------------------------------------------------
\* kernel_main, when no handler runs.

Step(name) ==
  /\ running = -1 /\ ~halted /\ ~Booted /\ BootSteps[boot] = name
  /\ boot' = boot + 1

\* The PICs forget what they have latched.
isrInstall ==
  /\ Step("remap")
  /\ pending' = {}
  /\ UNCHANGED <<enabled, running, entered, halted, tables, kbdVars, rtcVars, past>>

EnableInterrupts ==
  /\ Step("sti")
  /\ enabled' = TRUE
  /\ UNCHANGED <<running, entered, halted, pending, tables, kbdVars, rtcVars, past>>

\* IRQHandler's constructor: setInterruptHandler.
ConstructHandler(line, name) ==
  /\ Step(name)
  /\ interruptHandlers' = [interruptHandlers EXCEPT ![line] = "base"]
  /\ UNCHANGED <<enabled, running, entered, halted, pending, listeners, kbdVars, rtcVars, past>>

\* The device's own constructor.  RTC's enables the clock's interrupt.
ConstructDevice(line, name) ==
  /\ Step(name)
  /\ interruptHandlers' = [interruptHandlers EXCEPT ![line] = "device"]
  /\ clockOn' = (clockOn \/ line = Clock)
  /\ UNCHANGED <<enabled, running, entered, halted, pending, listeners, kbdVars, registerC, past>>

ConstructConsole_Unregistered ==
  /\ Step("listener") \/ Step("console")
  /\ UNCHANGED <<enabled, running, entered, halted, pending, tables, kbdVars, rtcVars, past>>

\* VirtualConsole's constructor: first KeyboardListener's, which registers an
\* object that still ignores every key.
ConstructConsole ==
  /\ \/ Step("listener") /\ listeners' = "base"
     \/ Step("console") /\ listeners' = "console"
  /\ UNCHANGED <<enabled, running, entered, halted, pending, interruptHandlers, kbdVars, rtcVars, past>>

Boot ==
  \/ isrInstall \/ EnableInterrupts
  \/ ConstructHandler(Timer, "irq0") \/ ConstructDevice(Timer, "pit")
  \/ ConstructHandler(Keyboard, "irq1") \/ ConstructDevice(Keyboard, "keyboard")
  \/ ConstructHandler(Clock, "irq8") \/ ConstructDevice(Clock, "rtc")
  \/ ConstructConsole

-----------------------------------------------------------------------------
\* The hardware.

Raise(line) == pending' = pending \cup {line}

\* 100 times a second: never while its own handler, a few instructions, runs.
TimerPulses ==
  /\ running # Timer
  /\ Raise(Timer)
  /\ UNCHANGED <<cpuVars, tables, kbdVars, rtcVars, past>>

KeyTyped ==
  /\ sent < MaxKeys
  /\ sent' = sent + 1
  /\ early' = (early \/ ~Booted)
  /\ UNCHANGED <<cpuVars, pending, tables, buffer, loaded, received, rtcVars, past>>

LoadByte ==
  /\ buffer = 0 /\ loaded < sent
  /\ buffer' = loaded + 1 /\ loaded' = loaded + 1
  /\ Raise(Keyboard)
  /\ UNCHANGED <<cpuVars, tables, sent, received, early, rtcVars, past>>

ClockFires ==
  /\ clockOn /\ ~registerC
  /\ registerC' = TRUE
  /\ Raise(Clock)
  /\ UNCHANGED <<cpuVars, tables, kbdVars, clockOn, past>>

\* The second disk channel, or the PIC's spurious interrupt.
LastLineRises ==
  /\ ~past
  /\ Raise(Last) /\ past' = TRUE
  /\ UNCHANGED <<cpuVars, tables, kbdVars, rtcVars>>

Hardware == TimerPulses \/ KeyTyped \/ LoadByte \/ ClockFires \/ LastLineRises

-----------------------------------------------------------------------------
\* Interrupts.

TakeInterrupt_StillLatched(line) ==
  /\ enabled /\ running = -1 /\ ~halted
  /\ line \in pending /\ \A l \in pending : line <= l
  /\ running' = line /\ entered' = FALSE
  /\ enabled' = FALSE
  /\ UNCHANGED <<boot, halted, pending, tables, kbdVars, rtcVars, past>>

\* The lower line first; the gate closes the interrupt flag, and the PICs hear of
\* the end of the interrupt before its handler starts.
TakeInterrupt(line) ==
  /\ enabled /\ running = -1 /\ ~halted
  /\ line \in pending /\ \A l \in pending : line <= l
  /\ running' = line /\ entered' = FALSE
  /\ pending' = pending \ {line}
  /\ enabled' = FALSE
  /\ UNCHANGED <<boot, halted, tables, kbdVars, rtcVars, past>>

\* irqHandler finds no handler, or an object that does nothing yet.
NothingDone ==
  /\ running \in Handled /\ interruptHandlers[running] # "device"
  /\ UNCHANGED <<halted, pending, kbdVars, rtcVars>>

TimerHandler ==
  /\ running = Timer /\ interruptHandlers[Timer] = "device"
  /\ UNCHANGED <<halted, pending, kbdVars, rtcVars>>

KeyboardHandler_Flush ==
  /\ running = Keyboard /\ interruptHandlers[Keyboard] = "device"
  /\ buffer' = 0 /\ loaded' = sent
  /\ received' = IF listeners = "console" THEN Append(received, buffer) ELSE received
  /\ halted' \in (IF listeners = "base" THEN {FALSE} ELSE BOOLEAN)
  /\ UNCHANGED <<pending, sent, early, rtcVars>>

\* One byte is read, and given to whatever listeners points to: before there is
\* a listener, to whatever the stack held, which need not stop the machine; then
\* to the console, whose own code faults on some lines (Console says on which),
\* and a fault ends in isrHandler's hlt.
KeyboardHandler ==
  /\ running = Keyboard /\ interruptHandlers[Keyboard] = "device"
  /\ buffer' = 0
  /\ received' = IF listeners = "console" THEN Append(received, buffer) ELSE received
  /\ halted' \in (IF listeners = "base" THEN {FALSE} ELSE BOOLEAN)
  /\ UNCHANGED <<pending, sent, loaded, early, rtcVars>>

ClockHandler_NoRegisterC ==
  /\ running = Clock /\ interruptHandlers[Clock] = "device"
  /\ UNCHANGED <<registerC, halted, pending, kbdVars, clockOn>>

ClockHandler ==
  /\ running = Clock /\ interruptHandlers[Clock] = "device"
  /\ registerC' = FALSE
  /\ UNCHANGED <<halted, pending, kbdVars, clockOn>>

\* The pointer behind the table is null or not; not null, it is no handler.
BehindTheTable ==
  /\ running = Last
  /\ halted' \in BOOLEAN
  /\ UNCHANGED <<pending, kbdVars, rtcVars>>

irqHandler ==
  /\ running # -1 /\ ~entered /\ ~halted
  /\ entered' = TRUE
  /\ NothingDone \/ TimerHandler \/ KeyboardHandler \/ ClockHandler \/ BehindTheTable
  /\ UNCHANGED <<boot, enabled, running, tables, past>>

Iret_LateEOI ==
  /\ running # -1 /\ entered /\ ~halted
  /\ running' = -1 /\ entered' = FALSE
  /\ enabled' = TRUE
  /\ pending' = pending \ {running}
  /\ UNCHANGED <<boot, halted, tables, kbdVars, rtcVars, past>>

Iret_FlagLost ==
  /\ running # -1 /\ entered /\ ~halted
  /\ running' = -1 /\ entered' = FALSE
  /\ UNCHANGED <<boot, enabled, halted, pending, tables, kbdVars, rtcVars, past>>

Iret ==
  /\ running # -1 /\ entered /\ ~halted
  /\ running' = -1 /\ entered' = FALSE
  /\ enabled' = TRUE
  /\ UNCHANGED <<boot, halted, pending, tables, kbdVars, rtcVars, past>>

IrqNext ==
  \/ Boot \/ Hardware
  \/ \E line \in Lines : TakeInterrupt(line)
  \/ irqHandler \/ Iret

\* kernel_main and the handlers, with the commands the console runs in them, go
\* on as long as the CPU does.  The clock and the
\* keyboard controller do what they announce.  A line that is again and again the
\* first to be served is served: the timer's handler takes less than its period,
\* so that the timer does not keep the others out for ever.
Fairness ==
  /\ WF_irqVars(Boot) /\ WF_irqVars(irqHandler) /\ WF_irqVars(Iret)
  /\ WF_irqVars(LoadByte) /\ WF_irqVars(ClockFires)
  /\ \A line \in Lines : SF_irqVars(TakeInterrupt(line))

IrqSpec == IrqInit /\ [][IrqNext]_irqVars /\ Fairness

-----------------------------------------------------------------------------
IrqTypeOK ==
  /\ boot \in 1 .. Len(BootSteps) + 1
  /\ running \in Lines \cup {-1}
  /\ pending \subseteq Lines
  /\ interruptHandlers \in [Handled -> {"null", "base", "device"}]
  /\ listeners \in {"wild", "base", "console"}
  /\ buffer \in 0 .. MaxKeys /\ sent \in 0 .. MaxKeys /\ loaded \in 0 .. sent
  /\ received \in Seq(1 .. MaxKeys)
  /\ {enabled, entered, clockOn, registerC, early, past, halted} \subseteq BOOLEAN

\* Unless a key was typed before the console stood, the console has handled every
\* byte that left the buffer, once and in order.
KeysInOrder == ~early => received = [i \in 1 .. loaded - (IF buffer = 0 THEN 0 ELSE 1) |-> i]

\* A byte never waits in the buffer with no interrupt on its way: the controller
\* would send no other, and the keyboard be dead.  It takes a key typed before
\* the keyboard's handler is there to read it.
NeverStuck ==
  ~early /\ ~halted /\ buffer # 0 => Keyboard \in pending \/ (running = Keyboard /\ ~entered)

\* Unless a key came before the console stood, or line 15 interrupted, whose handler
\* is read from behind the table, no interrupt stops the machine while it boots;
\* booted, it stops in the console's code only, on a key (see Console's
\* FaultsAreKnown).  irqHandler, KeyboardDevice::handleIRQ, the constructors.
StopsAreKnown ==
  halted => early \/ past \/ (Booted /\ running = Keyboard /\ listeners = "console")

\* Every key typed at the console is given to it in the end, unless the machine
\* stops before.
KeysAreHandled ==
  \A n \in 1 .. MaxKeys : (sent >= n /\ ~early) ~> (Len(received) >= n \/ halted)

\* The clock never falls silent: its flag is read again and again.
ClockGoesOn == (clockOn /\ registerC) ~> (~registerC \/ halted)
=============================================================================
