----------------------------- MODULE Boot_proofs -----------------------------
(***************************************************************************)
(* Every interrupt is acknowledged and every routine runs, for any lines   *)
(* and routines, as long as the dword at address 0 is not the timer's own  *)
(* number or another routine's: first on a machine that is set up (module  *)
(* Interrupts), where the invariant says what is owed while a stub runs,   *)
(* by the number it pushed; then from kernel_main's first line on, while   *)
(* nothing is in service, whatever devices send and whatever faults.  Last *)
(* what the boot has set up at each of its steps, so that everything that  *)
(* comes after lidt is taken by its own stub.                              *)
(***************************************************************************)
EXTENDS Boot, TLAPS

\* The firmware's first interrupt vector, seen as a number; the two lines on which
\* the controllers answer for a request that is gone have no routine.
Harmless == /\ Dword0 # 32 /\ Routine(Dword0) \notin Installed
            /\ {7, 15} \cap Installed = {}

Counted == Installed \ {0}
Even == \A j \in Counted : called[j] = accepted[j]
OneBehind(i) == \A j \in Counted : accepted[j] = IF j = i THEN called[j] + 1 ELSE called[j]

Handling(i) == int_no = Pushed(i) /\ service = {i, OnMaster(i)} /\ OneBehind(i)
HandlingGone == /\ \/ int_no = 39 /\ service = {}
                   \/ int_no = 47 /\ service = {Cascade}
                /\ Even

Counters == called \in [Numbers -> Nat] /\ accepted \in [Numbers -> Nat]

IInv ==
    /\ TypeOK
    /\ Counters
    /\ enabled => service = {} /\ Even
    /\ ~enabled => HandlingGone \/ \E i \in Lines : Handling(i)

LEMMA LinesAre == \A i \in Lines : i \in 0 .. 14 /\ i # 2
BY InterruptsAssumption DEF Numbers, Masked, Cascade

LEMMA EndOfOne == EndOfInterrupt({}) = {} /\ \A i \in Numbers : EndOfInterrupt({i}) = {}
BY DEF EndOfInterrupt, Numbers

LEMMA InitInvariant == Init => IInv
<1> SUFFICES ASSUME Init PROVE IInv
  OBVIOUS
<1>1. TypeOK /\ enabled /\ service = {}
  BY DEF Init, TypeOK, None
<1>2. Counters /\ Even
  BY InterruptsAssumption DEF Init, Counters, Even, Counted
<1> QED
  BY <1>1, <1>2 DEF IInv

LEMMA AcceptInvariant ==
    ASSUME IInv, NEW i \in Lines, Accept(i)
    PROVE  IInv'
<1>1. enabled /\ service = {} /\ Even /\ Counters /\ TypeOK
  BY DEF IInv, Accept
<1>2. /\ request' = request \ {i} /\ service' = {i, OnMaster(i)} /\ enabled' = FALSE
      /\ int_no' = Pushed(i) /\ called' = called
      /\ accepted' = [accepted EXCEPT ![i] = @ + 1]
  BY <1>1 DEF Accept
<1>3. i \in 0 .. 14 /\ i # 2 /\ Dword0 # None /\ Dword0 \in Nat
  BY LinesAre, InterruptsAssumption
<1>4. Pushed(i) \in {Dword0} \cup 33 .. 47 /\ Pushed(i) # None
  BY <1>3 DEF Pushed, None
<1>5. {i, OnMaster(i)} \subseteq Numbers
  BY <1>3 DEF OnMaster, Numbers, Slave, Cascade
<1>6. TypeOK'
  BY <1>1, <1>2, <1>4, <1>5 DEF TypeOK
<1>7. Counters'
  BY <1>1, <1>2, <1>3 DEF Counters, Numbers
<1>8. OneBehind(i)'
  BY <1>1, <1>2, <1>3, InterruptsAssumption DEF OneBehind, Even, Counted, Counters, Numbers
<1>9. Handling(i)'
  BY <1>2, <1>8 DEF Handling
<1> QED
  BY <1>2, <1>6, <1>7, <1>9 DEF IInv

LEMMA AcceptGoneInvariant ==
    ASSUME IInv, NEW i \in Lines, AcceptGone(i)
    PROVE  IInv'
<1>1. enabled /\ service = {} /\ Even /\ Counters /\ TypeOK
  BY DEF IInv, AcceptGone
<1>2. /\ request' = request \ {i} /\ enabled' = FALSE
      /\ called' = called /\ accepted' = accepted
      /\ \/ int_no' = 39 /\ service' = {}
         \/ int_no' = 47 /\ service' = {Cascade}
  BY <1>1 DEF AcceptGone, Pushed
<1>3. TypeOK'
  <2>1. service' \subseteq Numbers
    BY <1>2 DEF Cascade, Numbers
  <2>2. int_no' \in 33 .. 47 /\ int_no' # None
    BY <1>2 DEF None
  <2> QED
    BY <1>1, <1>2, <2>1, <2>2 DEF TypeOK
<1>4. Counters' /\ Even'
  BY <1>1, <1>2 DEF Counters, Even, Counted
<1> QED
  BY <1>2, <1>3, <1>4 DEF IInv, HandlingGone

\* The routine, and the acknowledgements, by the number that was pushed.
LEMMA IrqHandlerInvariant ==
    ASSUME IInv, Harmless, IrqHandler
    PROVE  IInv'
<1>1. /\ ~enabled /\ Counters /\ TypeOK
      /\ int_no' = None /\ enabled' = TRUE /\ request' = request /\ accepted' = accepted
  BY DEF IInv, IrqHandler, TypeOK
<1>2. HandlingGone \/ \E i \in Lines : Handling(i)
  BY <1>1 DEF IInv
<1>3. /\ ~ReturnsEarly(int_no)
      /\ \A i \in Lines : Handling(i) => IF i = 0 THEN int_no = Dword0 ELSE int_no = 32 + i
  <2>1. ASSUME NEW i \in Lines, Handling(i)
        PROVE  /\ int_no # 32
               /\ IF i = 0 THEN int_no = Dword0 ELSE int_no = 32 + i
    BY <2>1, LinesAre DEF Handling, Pushed, Harmless
  <2> QED
    BY <1>2, <2>1 DEF HandlingGone, ReturnsEarly
<1>4. /\ called' = IF Routine(int_no) \in Installed
                   THEN [called EXCEPT ![Routine(int_no)] = @ + 1] ELSE called
      /\ service' = EndOfInterrupt(service \ Slave) \cup
                       (IF FromSlave(int_no) THEN EndOfInterrupt(service \cap Slave)
                                             ELSE service \cap Slave)
  BY <1>3 DEF IrqHandler
<1>5. service' = {}
  <2>1. CASE HandlingGone
    <3>1. service \cap Slave = {} /\ service \ Slave \in {{}, {Cascade}}
      BY <2>1 DEF HandlingGone, Slave, Cascade
    <3>2. Cascade \in Numbers
      BY DEF Cascade, Numbers
    <3> QED
      BY <1>4, <3>1, <3>2, EndOfOne
  <2>2. ASSUME NEW i \in Lines, Handling(i), i \in Slave PROVE service' = {}
    <3>1. service = {i, Cascade} /\ FromSlave(int_no)
      BY <1>3, <2>2 DEF Handling, OnMaster, FromSlave, Slave
    <3>2. service \cap Slave = {i} /\ service \ Slave = {Cascade}
      <4>1. i \in Slave /\ Cascade \notin Slave
        BY <2>2 DEF Slave, Cascade
      <4> QED
        BY <3>1, <4>1
    <3>3. i \in Numbers /\ Cascade \in Numbers
      BY <2>2 DEF Slave, Numbers, Cascade
    <3> QED
      BY <1>4, <3>1, <3>2, <3>3, EndOfOne
  <2>3. ASSUME NEW i \in Lines, Handling(i), i \notin Slave PROVE service' = {}
    <3>1. service \cap Slave = {} /\ service \ Slave = {i}
      BY <2>3 DEF Handling, OnMaster
    <3>2. i \in Numbers
      BY LinesAre DEF Numbers
    <3> QED
      BY <1>4, <3>1, <3>2, EndOfOne
  <2> QED
    BY <1>2, <2>1, <2>2, <2>3
<1>6. Counters' /\ Even'
  <2>1. Installed \subseteq Numbers /\ Numbers = 0 .. 15
    BY InterruptsAssumption DEF Numbers
  <2>2. CASE Routine(int_no) \notin Counted
    <3>1. Even
      <4>1. ASSUME NEW i \in Lines, Handling(i) PROVE i \notin Counted
        BY <1>3, <2>2, <4>1, LinesAre DEF Routine, Counted
      <4> QED
        BY <1>2, <4>1 DEF HandlingGone, Handling, OneBehind, Even
    <3>2. \A j \in Counted : called'[j] = called[j]
      BY <1>1, <1>4, <2>1, <2>2 DEF Counters, Counted
    <3>3. Even'
      BY <1>1, <3>1, <3>2 DEF Even, Counted
    <3>4. Counters'
      <4>1. \A r \in Numbers : [called EXCEPT ![r] = @ + 1] \in [Numbers -> Nat]
        BY <1>1 DEF Counters
      <4>2. called' \in [Numbers -> Nat]
        BY <1>1, <1>4, <2>1, <4>1 DEF Counters
      <4> QED
        BY <1>1, <4>2 DEF Counters
    <3> QED
      BY <3>3, <3>4
  <2>3. CASE Routine(int_no) \in Counted
    <3>1. PICK i \in Lines : Handling(i)
      BY <1>2, <2>3 DEF HandlingGone, Routine, Harmless, Counted
    <3>2. i # 0 /\ Routine(int_no) = i
      BY <1>3, <2>3, <3>1, LinesAre DEF Routine, Harmless, Counted
    <3>3. called' = [called EXCEPT ![i] = @ + 1] /\ i \in Numbers
      BY <1>4, <2>1, <2>3, <3>2 DEF Counted
    <3>4. OneBehind(i)
      BY <3>1 DEF Handling
    <3> QED
      BY <1>1, <2>1, <3>3, <3>4 DEF Counters, OneBehind, Even, Counted
  <2> QED
    BY <2>2, <2>3
<1>7. TypeOK'
  BY <1>1, <1>5 DEF TypeOK
<1> QED
  BY <1>1, <1>5, <1>6, <1>7 DEF IInv

LEMMA StepInvariant ==
    ASSUME Harmless
    PROVE  IInv /\ [Next]_vars => IInv'
<1> SUFFICES ASSUME IInv, [Next]_vars PROVE IInv'
  OBVIOUS
<1>1. CASE IrqHandler
  BY <1>1, IrqHandlerInvariant
<1>2. ASSUME NEW i \in Lines, Raise(i) PROVE IInv'
  BY <1>2 DEF Raise, IInv, TypeOK, Counters, Even, Counted, HandlingGone, Handling, OneBehind
<1>3. ASSUME NEW i \in Lines, Accept(i) PROVE IInv'
  BY <1>3, AcceptInvariant
<1>4. ASSUME NEW i \in Lines, AcceptGone(i) PROVE IInv'
  BY <1>4, AcceptGoneInvariant
<1>5. CASE UNCHANGED vars
  BY <1>5 DEF vars, IInv, TypeOK, Counters, Even, Counted, HandlingGone, Handling, OneBehind
<1> QED
  BY <1>1, <1>2, <1>3, <1>4, <1>5 DEF Next

LEMMA InvariantHolds ==
    ASSUME Harmless
    PROVE  Spec => []IInv
<1>1. IInv /\ [Next]_vars => IInv'
  BY StepInvariant
<1> QED
  BY <1>1, InitInvariant, PTL DEF Spec

\* Whichever lines interrupt, in whatever order, and whichever requests vanish: when
\* the next interrupt can be accepted none is left in service (idt.c 216-229).
THEOREM AllAcknowledged ==
    ASSUME Harmless
    PROVE  Spec => []Acknowledged
<1>1. IInv => Acknowledged
  BY DEF IInv, Acknowledged
<1> QED
  BY <1>1, InvariantHolds, PTL

\* The routine of every line but the timer's runs as often as the line interrupts.
THEOREM AllRoutinesRun ==
    ASSUME Harmless
    PROVE  Spec => []RoutinesRun
<1>1. IInv => RoutinesRun
  BY DEF IInv, RoutinesRun, Even, Counted
<1> QED
  BY <1>1, InvariantHolds, PTL

-----------------------------------------------------------------------------
\* between two interrupts, and before the first
Calm ==
    /\ request \subseteq Lines /\ service = {} /\ int_no = None
    /\ enabled \in BOOLEAN
    /\ Counters /\ Even

BInv == IInv \/ Calm

LEMMA EnabledIsIInv == Calm /\ enabled => IInv
<1> SUFFICES ASSUME Calm, enabled PROVE IInv
  OBVIOUS
<1>1. enabled = TRUE /\ service = {} /\ int_no = None
  BY DEF Calm
<1>2. TypeOK
  BY <1>1 DEF Calm, TypeOK
<1> QED
  BY <1>1, <1>2 DEF Calm, IInv

LEMMA BetweenInterrupts == BInv /\ int_no = None => Calm
<1> SUFFICES ASSUME IInv, int_no = None PROVE Calm
  BY DEF BInv
<1>1. request \subseteq Lines /\ enabled = TRUE
  BY DEF IInv, TypeOK
<1> QED
  BY <1>1 DEF IInv, Calm

\* An access of the boot code: the controllers may forget requests, and the last one
\* lets interrupts in; nothing is in service before.
LEMMA BootStepInvariant ==
    ASSUME BInv, BootStep
    PROVE  BInv'
<1>1. Calm
  <2>1. int_no = None
    BY DEF BootStep, SetDescriptor, LoadSegments, PicCommand, PicData, SetGates,
           InstallsAndEnables, At
  <2> QED
    BY <2>1, BetweenInterrupts
<1>2. /\ int_no' = int_no /\ accepted' = accepted /\ called' = called
      /\ request' \subseteq request /\ service' \subseteq service
      /\ enabled' = enabled \/ enabled' = TRUE
  <2>1. CASE SetDescriptor
    BY <2>1 DEF SetDescriptor, Quiet
  <2>2. CASE LoadSegments
    BY <2>2 DEF LoadSegments, vars
  <2>3. CASE PicCommand
    BY <2>3 DEF PicCommand, Quiet
  <2>4. CASE PicData
    BY <2>4 DEF PicData, Quiet
  <2>5. CASE SetGates
    BY <2>5 DEF SetGates, Quiet
  <2>6. CASE InstallsAndEnables
    BY <2>6 DEF InstallsAndEnables, Quiet
  <2> QED
    BY <2>1, <2>2, <2>3, <2>4, <2>5, <2>6 DEF BootStep
<1>3. Calm'
  BY <1>1, <1>2 DEF Calm, Counters, Even, Counted
<1> QED
  BY <1>3 DEF BInv

LEMMA RaiseInvariant ==
    ASSUME BInv, NEW i \in Lines, Raise(i), Harmless
    PROVE  BInv'
<1>1. CASE IInv
  BY <1>1, StepInvariant DEF Next, BInv
<1>2. CASE Calm
  <2>1. Calm'
    BY <1>2 DEF Raise, Calm, Counters, Even, Counted
  <2> QED
    BY <2>1 DEF BInv
<1> QED
  BY <1>1, <1>2 DEF BInv

\* An interrupt and its handler are those of Interrupts, whichever gate it takes.
LEMMA InterruptInvariant ==
    ASSUME BInv, NEW i \in Lines, Accept(i) \/ AcceptGone(i)
    PROVE  BInv'
<1>1. IInv
  BY EnabledIsIInv DEF BInv, Accept, AcceptGone
<1> QED
  BY <1>1, AcceptInvariant, AcceptGoneInvariant DEF BInv

LEMMA BootNextInvariant ==
    ASSUME Harmless
    PROVE  BInv /\ [BootNext]_bootVars => BInv'
<1> SUFFICES ASSUME BInv, [BootNext]_bootVars PROVE BInv'
  OBVIOUS
<1>1. CASE BootStep
  BY <1>1, BootStepInvariant
<1>2. CASE Handle
  <2>1. IrqHandler /\ int_no # None
    BY <1>2 DEF Handle, IrqHandler
  <2>2. IInv
    BY <2>1 DEF BInv, Calm
  <2> QED
    BY <2>1, <2>2, IrqHandlerInvariant DEF BInv
<1>3. ASSUME NEW i \in Lines, Send(i) PROVE BInv'
  BY <1>3, RaiseInvariant DEF Send
<1>4. ASSUME NEW i \in Lines, Interrupt(i) \/ VanishedInterrupt(i) PROVE BInv'
  BY <1>4, InterruptInvariant DEF Interrupt, VanishedInterrupt
<1>5. CASE UNCHANGED vars
  BY <1>5 DEF vars, BInv, Calm, IInv, TypeOK, Counters, Even, Counted, HandlingGone,
              Handling, OneBehind
<1>6. ASSUME NEW v \in Faults, Fault(v) PROVE BInv'
  <2>1. UNCHANGED vars
    BY <1>6 DEF Fault
  <2> QED
    BY <2>1, <1>5
<1>7. CASE UNCHANGED bootVars
  <2>1. UNCHANGED vars
    BY <1>7 DEF bootVars
  <2> QED
    BY <2>1, <1>5
<1> QED
  BY <1>1, <1>2, <1>3, <1>4, <1>6, <1>7 DEF BootNext

LEMMA BootInitInvariant == BootInit => BInv
<1> SUFFICES ASSUME BootInit PROVE Calm
  BY DEF BInv
<1>1. Counters /\ Even
  BY InterruptsAssumption DEF BootInit, Counters, Even, Counted
<1> QED
  BY <1>1 DEF BootInit, Calm

LEMMA BootInvariantHolds ==
    ASSUME Harmless
    PROVE  BootSpec => []BInv
<1>1. BInv /\ [BootNext]_bootVars => BInv'
  BY BootNextInvariant
<1> QED
  BY <1>1, BootInitInvariant, PTL DEF BootSpec

\* From kernel_main's first line on, whatever is sent before the controllers are set
\* up and whatever faults on the way: none is left in service when the next interrupt
\* can be accepted (idt.c 76-101, 216-229).
THEOREM BootAcknowledged ==
    ASSUME Harmless
    PROVE  BootSpec => []Acknowledged
<1>1. BInv => Acknowledged
  BY DEF BInv, Calm, IInv, Acknowledged
<1> QED
  BY <1>1, BootInvariantHolds, PTL

\* And no routine misses an interrupt of its line that was accepted, or runs without.
THEOREM BootRoutinesRun ==
    ASSUME Harmless
    PROVE  BootSpec => []RoutinesRun
<1>1. BInv => RoutinesRun
  BY DEF BInv, Calm, IInv, RoutinesRun, Even, Counted
<1> QED
  BY <1>1, BootInvariantHolds, PTL

-----------------------------------------------------------------------------
\* The routines that a line may have are those that kernel_main installs, and the
\* exceptions those whose stub pushes what the processor does not (isr.s).
FromBoot == Installed \subseteq {0, 1, 12} /\ Faults \cap {17, 21, 29, 30} = {}

\* What has been set up before step pc.
Registers == [offset : Nat, cascade : Nat, mode : Nat, mask : Nat, expects : Nat]
Controllers ==
    /\ pic \in [{"master", "slave"} -> Registers]
    /\ pc \in 10 .. 11 => pic["master"].expects = 2
    /\ pc \in 12 .. 13 => pic["master"].expects = 3
    /\ pc \in 14 .. 15 => pic["master"].expects = 4
    /\ pc >= 16 => pic["master"].expects = 0
    /\ pc \in 11 .. 12 => pic["slave"].expects = 2
    /\ pc \in 13 .. 14 => pic["slave"].expects = 3
    /\ pc \in 15 .. 16 => pic["slave"].expects = 4
    /\ pc >= 17 => pic["slave"].expects = 0
    /\ pc >= 12 => pic["master"].offset = 32
    /\ pc >= 13 => pic["slave"].offset = 40
SetUp ==
    /\ pc \in 1 .. 26
    /\ depth = 0 /\ (lost => pc <= 21)
    /\ lidt <=> pc > 21
    /\ enabled \/ int_no # None => pc = 26
    /\ DOMAIN gdt = 0 .. 5 /\ DOMAIN gates = 0 .. 255
    /\ pc > 2 => Code(gdt[1])
    /\ pc > 19 => \A v \in 0 .. 31 : gates[v] = <<"isr", v>>
    /\ pc > 20 => \A i \in 0 .. 15 : gates[32 + i] = <<"irq", i>>
    /\ pc > 22 => 0 \in routines
    /\ pc > 23 => 1 \in routines
    /\ pc > 24 => 12 \in routines

\* kernel_main's steps by their place (gdt.c 28-52, idt.c 76-101 and 118-169,
\* kernel.c 24-44).
LEMMA Steps ==
    /\ Len(Program) = 25
    /\ \A n \in 1 .. 25 :
        /\ Program[n][1] = "descriptor" <=> n \in 1 .. 6
        /\ Program[n][1] = "segments" <=> n = 7
        /\ Program[n][1] = "ltr" <=> n = 8
        /\ Program[n][1] = "command" <=> n \in 9 .. 10
        /\ Program[n][1] = "data" <=> n \in 11 .. 18
        /\ Program[n][1] = "isrs" <=> n = 19
        /\ Program[n][1] = "irqs" <=> n = 20
        /\ Program[n][1] = "lidt" <=> n = 21
        /\ Program[n][1] = "routine" <=> n \in 22 .. 24
        /\ Program[n][1] = "sti" <=> n = 25
<1> USE DEF Program, GdtInit, IdtInstall, PicRemap
<1>1. Len(Program) = 25
  OBVIOUS
<1>2. \A n \in 1 .. 25 :
        /\ Program[n][1] = "descriptor" <=> n \in 1 .. 6
        /\ Program[n][1] = "segments" <=> n = 7
        /\ Program[n][1] = "ltr" <=> n = 8
        /\ Program[n][1] = "command" <=> n \in 9 .. 10
        /\ Program[n][1] = "data" <=> n \in 11 .. 18
  OBVIOUS
<1>3. \A n \in 1 .. 25 :
        /\ Program[n][1] = "isrs" <=> n = 19
        /\ Program[n][1] = "irqs" <=> n = 20
        /\ Program[n][1] = "lidt" <=> n = 21
        /\ Program[n][1] = "routine" <=> n \in 22 .. 24
        /\ Program[n][1] = "sti" <=> n = 25
  OBVIOUS
<1>4. QED
  BY <1>1, <1>2, <1>3

\* and what they are given
LEMMA Arguments ==
    /\ \A n \in 1 .. 6 : Program[n][2] = n - 1
    /\ Program[2][3] = <<255, 255, 255, 255>> /\ Program[2][4] = 154 /\ Program[2][5] = 207
    /\ Program[9][2] = "master" /\ Program[10][2] = "slave"
    /\ \A n \in 11 .. 18 : Program[n][2] = IF n % 2 = 1 THEN "master" ELSE "slave"
    /\ \A n \in 11 .. 18 : Program[n][3] \in Nat
    /\ Program[11][3] = 32 /\ Program[12][3] = 40
    /\ Program[22][2] = 0 /\ Program[23][2] = 1 /\ Program[24][2] = 12
BY DEF Program, GdtInit, IdtInstall, PicRemap, Flat

\* What a step of the boot says of its place.
LEMMA Place ==
    ASSUME SetUp, NEW op, At(op)
    PROVE  pc \in 1 .. 25 /\ pc' = pc + 1 /\ Program[pc][1] = op /\ ~lost
BY Steps DEF At, Booted, SetUp

\* The second descriptor is one for code (gdt.c 30-33).
LEMMA CodeSegment == Code(Encoded(<<255, 255, 255, 255>>, 154, 207))
<1> DEFINE d == Encoded(<<255, 255, 255, 255>>, 154, 207)
<1>1. d.access = 154 /\ d.flags = 192 /\ d.limit = <<255, 255, 15, 0>>
  BY DEF Encoded
<1>2. Bit(154, 7) /\ Bit(154, 4) /\ Bit(154, 3) /\ Bit(192, 7) /\ Bit(192, 6)
  BY DEF Bit
<1>3. QED
  BY <1>1, <1>2 DEF Code, Present, AllMemory

LEMMA SetUpInit == BootInit => SetUp /\ Controllers
<1> SUFFICES ASSUME BootInit PROVE SetUp /\ Controllers
  OBVIOUS
<1>1. SetUp
  BY DEF BootInit, SetUp
<1>2. Controllers
  BY DEF BootInit, Controllers, Registers
<1>3. QED
  BY <1>1, <1>2

\* The tables and the segment registers (gdt.c 25-83).
LEMMA SetUpDescriptors ==
    ASSUME SetUp, Controllers, SetDescriptor \/ LoadSegments
    PROVE  SetUp' /\ Controllers'
<1>1. CASE SetDescriptor
  <2>1. /\ pc \in 1 .. 6 /\ pc' = pc + 1 /\ ~lost
        /\ Program[pc][2] = pc - 1
    BY <1>1, Place, Steps, Arguments DEF SetDescriptor
  <2>2. /\ UNCHANGED <<int_no, enabled, lost, depth, pic, gates, lidt, routines>>
        /\ gdt' = [gdt EXCEPT ![pc - 1] =
                     Encoded(Program[pc][3], Program[pc][4], Program[pc][5])]
    BY <1>1, <2>1 DEF SetDescriptor, Quiet, Arg
  <2>3. pc' > 2 => Code(gdt'[1])
    <3>1. CASE pc = 2
      BY <2>2, <3>1, Arguments, CodeSegment DEF SetUp
    <3>2. CASE pc # 2
      BY <2>1, <2>2, <3>2 DEF SetUp
    <3>3. QED
      BY <3>1, <3>2
  <2>4. SetUp'
    BY <2>1, <2>2, <2>3 DEF SetUp
  <2>5. Controllers'
    BY <2>1, <2>2 DEF Controllers
  <2>6. QED
    BY <2>4, <2>5
<1>2. CASE LoadSegments
  <2>1. At("segments") \/ At("ltr")
    BY <1>2 DEF LoadSegments
  <2>2. pc \in 7 .. 8 /\ pc' = pc + 1
    BY <2>1, Place, Steps
  <2>3. UNCHANGED <<int_no, enabled, depth, pic, gdt, gates, lidt, routines>>
    BY <1>2 DEF LoadSegments, vars
  <2>4. SetUp'
    BY <2>2, <2>3 DEF SetUp
  <2>5. Controllers'
    BY <2>2, <2>3 DEF Controllers
  <2>6. QED
    BY <2>4, <2>5
<1>3. QED
  BY <1>1, <1>2

\* The controllers get their words in the order in which they expect them (idt.c 76-101).
LEMMA SetUpControllers ==
    ASSUME SetUp, Controllers, PicCommand \/ PicData
    PROVE  SetUp' /\ Controllers'
<1>0. pic \in [{"master", "slave"} -> Registers] /\ pc \in 1 .. 26
  BY DEF Controllers, SetUp
<1>1. CASE PicCommand
  <2>1. /\ pc \in 9 .. 10 /\ pc' = pc + 1 /\ ~lost
        /\ Program[pc][2] = IF pc = 9 THEN "master" ELSE "slave"
    BY <1>1, Place, Steps, Arguments DEF PicCommand
  <2>2. /\ UNCHANGED <<int_no, enabled, lost, depth, gdt, gates, lidt, routines>>
        /\ pic' = [pic EXCEPT ![IF pc = 9 THEN "master" ELSE "slave"] =
                     [@ EXCEPT !.mask = 0, !.expects = 2]]
    BY <1>1, <2>1 DEF PicCommand, Quiet, Arg
  <2>3. SetUp'
    BY <2>1, <2>2 DEF SetUp
  <2>4. ASSUME NEW r \in Registers
        PROVE  /\ [r EXCEPT !.mask = 0, !.expects = 2] \in Registers
               /\ [r EXCEPT !.mask = 0, !.expects = 2].expects = 2
    BY DEF Registers
  <2>5. PICK p \in {"master", "slave"} : p = IF pc = 9 THEN "master" ELSE "slave"
    OBVIOUS
  <2>6. PICK new \in Registers : new = [pic[p] EXCEPT !.mask = 0, !.expects = 2]
    BY <1>0, <2>4
  <2>7. new.expects = 2 /\ new.offset = pic[p].offset /\ pic' = [pic EXCEPT ![p] = new]
    <3>1. new.expects = 2 /\ new.offset = pic[p].offset
      BY <1>0, <2>6 DEF Registers
    <3>2. pic' = [pic EXCEPT ![p] = new]
      BY <1>0, <2>2, <2>5, <2>6
    <3>3. QED
      BY <3>1, <3>2
  <2>8. pic' \in [{"master", "slave"} -> Registers]
    BY <1>0, <2>7
  <2>9. CASE pc = 9
    <3>1. pic'["master"] = new
      BY <1>0, <2>5, <2>7, <2>9
    <3>2. QED
      BY <2>1, <2>3, <2>7, <2>8, <2>9, <3>1 DEF Controllers
  <2>10. CASE pc = 10
    <3>1. pic'["slave"] = new /\ pic'["master"] = pic["master"]
      BY <1>0, <2>5, <2>7, <2>10
    <3>2. QED
      BY <2>1, <2>3, <2>7, <2>8, <2>10, <3>1 DEF Controllers
  <2>11. QED
    BY <2>1, <2>9, <2>10
<1>2. CASE PicData
  <2>1. /\ pc \in 11 .. 18 /\ pc' = pc + 1 /\ ~lost
        /\ Program[pc][2] = IF pc % 2 = 1 THEN "master" ELSE "slave"
        /\ Program[pc][3] \in Nat
    BY <1>2, Place, Steps, Arguments DEF PicData
  <2>2. PICK p \in {"master", "slave"}, byte \in Nat :
            /\ p = IF pc % 2 = 1 THEN "master" ELSE "slave"
            /\ byte = Program[pc][3]
    BY <2>1
  <2>3. /\ UNCHANGED <<int_no, enabled, lost, depth, gdt, gates, lidt, routines>>
        /\ pic' = [pic EXCEPT ![p] = Taken(pic[p], byte)]
    BY <1>0, <1>2, <2>1, <2>2 DEF PicData, Quiet, Arg
  <2>4. SetUp'
    BY <2>1, <2>3 DEF SetUp
  <2>5. ASSUME NEW r \in Registers
        PROVE  /\ Taken(r, byte) \in Registers
               /\ Taken(r, byte).expects = IF r.expects = 2 THEN 3
                                           ELSE IF r.expects = 3 THEN 4
                                           ELSE IF r.expects = 4 THEN 0 ELSE r.expects
               /\ Taken(r, byte).offset = IF r.expects = 2 THEN byte - (byte % 8) ELSE r.offset
    <3>1. PICK o \in Nat : o = byte - (byte % 8)
      BY <2>2
    <3>2. CASE r.expects = 2
      <4>1. Taken(r, byte) = [r EXCEPT !.offset = o, !.expects = 3]
        BY <3>1, <3>2 DEF Taken
      <4>2. [r EXCEPT !.offset = o, !.expects = 3] \in Registers
        BY <2>2 DEF Registers
      <4>3. [r EXCEPT !.offset = o, !.expects = 3].expects = 3
        BY DEF Registers
      <4>4. [r EXCEPT !.offset = o, !.expects = 3].offset = o
        BY DEF Registers
      <4>5. QED
        BY <3>1, <3>2, <4>1, <4>2, <4>3, <4>4
    <3>3. CASE r.expects = 3
      <4>1. Taken(r, byte) = [r EXCEPT !.cascade = byte, !.expects = 4]
        BY <3>3 DEF Taken
      <4>2. [r EXCEPT !.cascade = byte, !.expects = 4] \in Registers
        BY <2>2 DEF Registers
      <4>3. [r EXCEPT !.cascade = byte, !.expects = 4].expects = 4
        BY DEF Registers
      <4>4. [r EXCEPT !.cascade = byte, !.expects = 4].offset = r.offset
        BY DEF Registers
      <4>5. QED
        BY <3>1, <3>3, <4>1, <4>2, <4>3, <4>4
    <3>4. CASE r.expects = 4
      <4>1. Taken(r, byte) = [r EXCEPT !.mode = byte, !.expects = 0]
        BY <3>4 DEF Taken
      <4>2. [r EXCEPT !.mode = byte, !.expects = 0] \in Registers
        BY <2>2 DEF Registers
      <4>3. [r EXCEPT !.mode = byte, !.expects = 0].expects = 0
        BY DEF Registers
      <4>4. [r EXCEPT !.mode = byte, !.expects = 0].offset = r.offset
        BY DEF Registers
      <4>5. QED
        BY <3>1, <3>4, <4>1, <4>2, <4>3, <4>4
    <3>5. CASE r.expects \notin {2, 3, 4}
      BY <2>2, <3>5 DEF Taken, Registers
    <3>6. QED
      BY <3>2, <3>3, <3>4, <3>5
  <2>6. PICK new \in Registers : new = Taken(pic[p], byte)
    BY <1>0, <2>5
  <2>7. /\ new.expects = IF pic[p].expects = 2 THEN 3
                         ELSE IF pic[p].expects = 3 THEN 4
                         ELSE IF pic[p].expects = 4 THEN 0 ELSE pic[p].expects
        /\ new.offset = IF pic[p].expects = 2 THEN byte - (byte % 8) ELSE pic[p].offset
        /\ pic' = [pic EXCEPT ![p] = new]
    BY <1>0, <2>3, <2>5, <2>6
  <2>8. pic' \in [{"master", "slave"} -> Registers]
    BY <1>0, <2>7
  <2>9. CASE p = "master"
    <3>1. pc \in {11, 13, 15, 17} /\ pic'["master"] = new /\ pic'["slave"] = pic["slave"]
      BY <1>0, <2>1, <2>2, <2>7, <2>9
    <3>2. pc = 11 => byte - (byte % 8) = 32
      BY <2>2, Arguments
    <3>3. QED
      BY <2>1, <2>4, <2>7, <2>8, <2>9, <3>1, <3>2 DEF Controllers
  <2>10. CASE p = "slave"
    <3>1. pc \in {12, 14, 16, 18} /\ pic'["slave"] = new /\ pic'["master"] = pic["master"]
      BY <1>0, <2>1, <2>2, <2>7, <2>10
    <3>2. pc = 12 => byte - (byte % 8) = 40
      BY <2>2, Arguments
    <3>3. QED
      BY <2>1, <2>4, <2>7, <2>8, <2>10, <3>1, <3>2 DEF Controllers
  <2>11. QED
    BY <2>9, <2>10
<1>3. QED
  BY <1>1, <1>2

\* The gates, the routines, and sti (idt.c 118-169, kernel.c 34-44).
LEMMA SetUpGates ==
    ASSUME SetUp, Controllers, SetGates \/ InstallsAndEnables
    PROVE  SetUp' /\ Controllers'
<1>1. CASE SetGates
  <2>0. At("isrs") \/ At("irqs")
    BY <1>1 DEF SetGates
  <2>1. pc \in 19 .. 20 /\ pc' = pc + 1 /\ ~lost
    BY <2>0, Place, Steps
  <2>2. UNCHANGED <<int_no, enabled, lost, depth, pic, gdt, lidt, routines>>
    BY <1>1 DEF SetGates, Quiet
  <2>3. CASE At("isrs")
    <3>1. pc = 19
      BY <2>3, Place, Steps
    <3>2. gates' = [v \in 0 .. 255 |-> IF v \in Isrs THEN <<"isr", v>> ELSE gates[v]]
      <4>1. ~At("irqs")
        BY <3>1, Steps DEF At
      <4>2. QED
        BY <1>1, <4>1 DEF SetGates
    <3>3. SetUp'
      BY <2>1, <2>2, <3>1, <3>2 DEF SetUp, Isrs
    <3>4. QED
      BY <2>1, <2>2, <3>3 DEF Controllers
  <2>4. CASE At("irqs")
    <3>1. pc = 20
      BY <2>4, Place, Steps
    <3>2. gates' = [v \in 0 .. 255 |-> IF v \in 32 .. 47 THEN <<"irq", v - 32>> ELSE gates[v]]
      <4>1. ~At("isrs")
        BY <3>1, Steps DEF At
      <4>2. QED
        BY <1>1, <4>1 DEF SetGates
    <3>3. /\ DOMAIN gates' = 0 .. 255
          /\ \A v \in 0 .. 31 : gates'[v] = gates[v]
          /\ \A i \in 0 .. 15 : gates'[32 + i] = <<"irq", i>>
      <4>1. \A i \in 0 .. 15 : 32 + i \in 32 .. 47 /\ (32 + i) - 32 = i
        OBVIOUS
      <4>2. QED
        BY <3>2, <4>1
    <3>31. pc' = 21 /\ \A v \in 0 .. 31 : gates'[v] = <<"isr", v>>
      BY <2>1, <3>1, <3>3 DEF SetUp
    <3>32. SetUp'
      BY <2>2, <3>1, <3>3, <3>31 DEF SetUp
    <3>4. QED
      BY <2>1, <2>2, <3>32 DEF Controllers
  <2>5. QED
    BY <1>1, <2>3, <2>4 DEF SetGates
<1>2. CASE InstallsAndEnables
  <2>1. UNCHANGED <<int_no, lost, depth, pic, gdt, gates>>
    BY <1>2 DEF InstallsAndEnables, Quiet
  <2>2. CASE At("lidt")
    <3>1. pc = 21 /\ pc' = 22 /\ ~lost
      BY <2>2, Place, Steps
    <3>2. lidt' = TRUE /\ UNCHANGED <<enabled, routines>>
      BY <1>2, <3>1, Steps DEF InstallsAndEnables, At
    <3>3. QED
      BY <2>1, <3>1, <3>2 DEF SetUp, Controllers
  <2>3. CASE At("routine")
    <3>1. pc \in 22 .. 24 /\ pc' = pc + 1 /\ ~lost
      BY <2>3, Place, Steps
    <3>2. routines' = routines \cup {Program[pc][2]} /\ UNCHANGED <<enabled, lidt>>
      BY <1>2, <3>1, Steps DEF InstallsAndEnables, At, Arg
    <3>3. QED
      BY <2>1, <3>1, <3>2, Arguments DEF SetUp, Controllers
  <2>4. CASE At("sti")
    <3>1. pc = 25 /\ pc' = 26 /\ ~lost
      BY <2>4, Place, Steps
    <3>2. UNCHANGED <<routines, lidt>>
      BY <1>2, <3>1, Steps DEF InstallsAndEnables, At
    <3>3. QED
      BY <2>1, <3>1, <3>2 DEF SetUp, Controllers
  <2>5. QED
    BY <1>2, <2>2, <2>3, <2>4 DEF InstallsAndEnables
<1>3. QED
  BY <1>1, <1>2

\* A line's interrupt finds the stub of the line, from the controllers' offsets.
LEMMA OwnStub ==
    ASSUME SetUp, Controllers, pc = 26, NEW i \in 0 .. 15
    PROVE  Leads(Vector(i), <<"irq", i>>)
<1>1. Vector(i) = 32 + i
  <2>1. pic["master"].offset = 32 /\ pic["slave"].offset = 40
    BY DEF Controllers
  <2>2. CASE i \in Slave
    BY <2>1, <2>2 DEF Vector, Controller, Slave
  <2>3. CASE i \notin Slave
    BY <2>1, <2>3 DEF Vector, Controller, Slave
  <2>4. QED
    BY <2>2, <2>3
<1>2. Descriptor(8) = gdt[1]
  BY DEF Descriptor
<1>3. QED
  BY <1>1, <1>2 DEF SetUp, Leads

LEMMA SetUpNext ==
    ASSUME FromBoot, SetUp, Controllers, [BootNext]_bootVars
    PROVE  SetUp' /\ Controllers'
<1>1. CASE BootStep
  BY <1>1, SetUpDescriptors, SetUpControllers, SetUpGates DEF BootStep
<1>2. CASE Handle
  <2>1. int_no # None /\ UNCHANGED <<boot, lost, depth>> /\ int_no' = None
    BY <1>2 DEF Handle, IrqHandler
  <2>2. QED
    BY <2>1 DEF SetUp, Controllers, boot
<1>3. ASSUME NEW i \in Lines, Send(i) PROVE SetUp' /\ Controllers'
  BY <1>3 DEF Send, Raise, SetUp, Controllers, boot
<1>4. ASSUME NEW i \in Lines, Interrupt(i) PROVE SetUp' /\ Controllers'
  <2>1. enabled /\ UNCHANGED <<boot, depth>>
    BY <1>4 DEF Interrupt, Accept
  <2>2. pc = 26 /\ i \in 0 .. 15
    BY <2>1, InterruptsAssumption DEF SetUp, Numbers
  <2>3. Installed \subseteq routines
    <3>1. pc > 22 /\ pc > 23 /\ pc > 24
      BY <2>2
    <3>2. 0 \in routines /\ 1 \in routines /\ 12 \in routines
      BY <3>1 DEF SetUp
    <3>3. QED
      BY <3>2 DEF FromBoot
  <2>4. lost' = FALSE
    BY <1>4, <2>2, <2>3, OwnStub DEF Interrupt
  <2>5. QED
    BY <2>1, <2>2, <2>4 DEF SetUp, Controllers, boot
<1>5. ASSUME NEW i \in Lines, VanishedInterrupt(i) PROVE SetUp' /\ Controllers'
  <2>1. enabled /\ UNCHANGED <<boot, depth>>
    BY <1>5 DEF VanishedInterrupt, AcceptGone
  <2>2. pc = 26
    BY <2>1 DEF SetUp
  <2>3. PICK k \in 0 .. 15 : k = IF i \in Slave THEN 15 ELSE 7
    OBVIOUS
  <2>4. lost' = ~Leads(Vector(k), <<"irq", k>>)
    BY <1>5, <2>3 DEF VanishedInterrupt
  <2>5. lost' = FALSE
    BY <2>2, <2>4, OwnStub
  <2>6. QED
    BY <2>1, <2>2, <2>5 DEF SetUp, Controllers, boot
<1>6. ASSUME NEW v \in Faults, Fault(v) PROVE SetUp' /\ Controllers'
  <2>1. UNCHANGED <<vars, boot>> /\ ~lost /\ v \in 0 .. 31
    BY <1>6, BootAssumption DEF Fault
  <2>2. CASE pc > 21
    <3>1. Leads(v, <<"isr", v>>)
      BY <2>1, <2>2 DEF Leads, SetUp, Descriptor
    <3>2. lost' = lost /\ depth' = depth + (IF v \in HasErrorCode THEN 4 ELSE 3)
                                         + (IF v \in IsrErr THEN 1 ELSE 2) - 2 - 3
      BY <1>6, <3>1 DEF Fault
    <3>3. v \in HasErrorCode <=> v \in IsrErr
      BY <1>6 DEF FromBoot, HasErrorCode, IsrErr
    <3>4. depth' = 0
      BY <3>2, <3>3 DEF SetUp
    <3>5. QED
      BY <2>1, <2>2, <3>2, <3>4 DEF SetUp, Controllers, vars, boot
  <2>3. CASE pc <= 21
    <3>1. ~lidt /\ ~Leads(v, <<"isr", v>>)
      BY <2>3 DEF Leads, SetUp
    <3>2. depth' = depth
      BY <1>6, <3>1 DEF Fault
    <3>3. QED
      BY <2>1, <2>3, <3>2 DEF SetUp, Controllers, vars, boot
  <2>4. QED
    BY <2>2, <2>3 DEF SetUp
<1>7. CASE UNCHANGED bootVars
  BY <1>7 DEF bootVars, vars, boot, SetUp, Controllers
<1>8. QED
  BY <1>1, <1>2, <1>3, <1>4, <1>5, <1>6, <1>7 DEF BootNext

\* For any lines, and whatever devices send and whatever faults meanwhile: once the
\* processor has the table every interrupt and exception is taken by its own stub, and
\* no handler leaves a word on the stack (gdt.c 25-83, idt.c 76-169, isr.s).
THEOREM EverythingTaken ==
    ASSUME FromBoot
    PROVE  BootSpec => []EverythingIsTaken
<1>1. SetUp => EverythingIsTaken
  BY DEF SetUp, EverythingIsTaken
<1>2. SetUp /\ Controllers /\ [BootNext]_bootVars => (SetUp /\ Controllers)'
  BY SetUpNext
<1>3. QED
  BY <1>1, <1>2, SetUpInit, PTL DEF BootSpec
=============================================================================
