----------------------------- MODULE Interrupts -----------------------------
(***************************************************************************)
(* Hardware interrupts: the two interrupt controllers as pic_remap leaves  *)
(* them, the stubs of irq.s that push a number, and irq_handler, which     *)
(* calls the routine of that number and acknowledges.  Line 2 of the       *)
(* master is the slave's.                                                  *)
(***************************************************************************)
EXTENDS Integers, FiniteSets

CONSTANTS
    Lines,       \* the lines on which devices send
    Installed,   \* the lines with a routine: timer, keyboard, mouse
    Dword0,      \* the 32 bits at address 0, which irq0 pushes in place of a number
    MaxRaises    \* bound: requests of a device

Numbers == 0 .. 15
Slave == 8 .. 15
Cascade == 2
Masked == {15}          \* pic_setflags(0x00, 0x80)
None == 0

ASSUME InterruptsAssumption ==
    /\ Lines \subseteq Numbers \ ({Cascade} \cup Masked)
    /\ Installed \subseteq Numbers
    /\ Dword0 \in Nat \ {None} /\ MaxRaises \in Nat

VARIABLES
    request,    \* lines that ask for an interrupt
    service,    \* lines in service, the master's and the slave's
    enabled,    \* the processor's interrupt flag
    int_no,     \* the number pushed by the stub that runs; None if none does
    accepted,   \* history: interrupts accepted, by line
    called,     \* history: calls of the routines
    raises

vars == <<request, service, enabled, int_no, accepted, called, raises>>

Init ==
    /\ request = {} /\ service = {}
    /\ enabled = TRUE          \* idt_sti in kernel_main; the routines are installed
    /\ int_no = None
    /\ accepted = [i \in Numbers |-> 0] /\ called = [i \in Numbers |-> 0]
    /\ raises = [i \in Lines |-> 0]

-----------------------------------------------------------------------------
\* The hardware.  A line in service holds back itself and those after it; the lines
\* of the slave count as the master's line 2.
OnMaster(i) == IF i \in Slave THEN Cascade ELSE i
HoldsBack(j, i) ==
    \/ OnMaster(j) < OnMaster(i)
    \/ OnMaster(j) = OnMaster(i) /\ j <= i
Before(j, i) == HoldsBack(j, i) /\ j # i

Raise(i) ==
    /\ raises[i] < MaxRaises
    /\ raises' = [raises EXCEPT ![i] = @ + 1]
    /\ request' = request \cup {i}
    /\ UNCHANGED <<service, enabled, int_no, accepted, called>>

\* the number that the stub of line i pushes; irq0 has "push 0" for "push $0"
Pushed(i) == IF i = 0 THEN Dword0 ELSE 32 + i

Accept(i) ==
    /\ enabled
    /\ i \in request /\ ~\E j \in request : Before(j, i)
    /\ ~\E j \in service : HoldsBack(j, i)
    /\ request' = request \ {i}
    /\ service' = service \cup ({i, OnMaster(i)})
    /\ enabled' = FALSE
    /\ int_no' = Pushed(i)
    /\ accepted' = [accepted EXCEPT ![i] = @ + 1]
    /\ UNCHANGED <<called, raises>>

\* The request is gone when the processor takes it: the controller answers with its
\* last line and puts nothing in service; if it is the slave, the master does.
AcceptGone(i) ==
    /\ enabled
    /\ i \in request /\ ~\E j \in request : Before(j, i)
    /\ ~\E j \in service : HoldsBack(j, i)
    /\ request' = request \ {i}
    /\ service' = IF i \in Slave THEN service \cup {Cascade} ELSE service
    /\ enabled' = FALSE
    /\ int_no' = Pushed(IF i \in Slave THEN 15 ELSE 7)
    /\ UNCHANGED <<accepted, called, raises>>

\* an end of interrupt clears the first line in service, if there is one
EndOfInterrupt(lines) == lines \ {i \in lines : \A j \in lines : i <= j}

-----------------------------------------------------------------------------
ReturnsEarlyToo(n) == n - 32 <= 1
ReturnsEarly(n) == n = 32      \* int_no - 32 <= 0 on unsigned numbers

MasterOnly(n) == FALSE
FromSlave(n) == n >= 40

\* beyond the table there is no routine: no memory is there, and a read gives zero
Routine(n) == n - 32

IrqHandler ==
    /\ int_no # None
    /\ IF ReturnsEarly(int_no)
       THEN UNCHANGED <<service, called>>
       ELSE /\ called' = IF Routine(int_no) \in Installed
                         THEN [called EXCEPT ![Routine(int_no)] = @ + 1] ELSE called
            /\ service' = EndOfInterrupt(service \ Slave) \cup
                  (IF FromSlave(int_no) THEN EndOfInterrupt(service \cap Slave)
                                        ELSE service \cap Slave)
    /\ int_no' = None
    /\ enabled' = TRUE         \* sti; iret
    /\ UNCHANGED <<request, accepted, raises>>

Kernel == IrqHandler \/ \E i \in Lines : Accept(i)
Next == IrqHandler \/ \E i \in Lines : Raise(i) \/ Accept(i) \/ AcceptGone(i)

\* The processor goes on; no device has to send.
Spec == Init /\ [][Next]_vars /\ WF_vars(Kernel)

-----------------------------------------------------------------------------
TypeOK ==
    /\ request \subseteq Lines /\ service \subseteq Numbers
    /\ int_no \in {None, Dword0} \cup 33 .. 47
    /\ enabled = (int_no = None)

\* Every interrupt is acknowledged, where it came from and once: none is in service
\* when the next can be accepted (idt.c 216-229).
Acknowledged == enabled => service = {}

\* The routine of every line but the timer's ran as often as the line interrupted,
\* whatever the controllers made up (7 and 15).
RoutinesRun ==
    enabled => \A i \in Installed \ {0} : called[i] = accepted[i]
=============================================================================
