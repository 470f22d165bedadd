-------------------------------- MODULE Boot --------------------------------
(***************************************************************************)
(* From kernel_main's first line to its sti: descriptors, the interrupt    *)
(* controllers' initialisation word by word, the gates and the routines,   *)
(* one access a step, while devices already send and instructions may      *)
(* fault; then the interrupts as module Interrupts has them, each taken    *)
(* through what the boot has set up.  A gate's address is its stub.        *)
(***************************************************************************)
EXTENDS Interrupts, Sequences

CONSTANTS Faults,     \* the exceptions that kernel code may raise
          MaxFaults   \* bound

ASSUME BootAssumption == Faults \subseteq 0 .. 31 /\ MaxFaults \in Nat

VARIABLES
    pc,         \* the next step of Program
    pic,        \* the registers of the two controllers
    gdt, gates, \* the tables, in memory
    lidt,       \* whether the processor has been given idtp
    routines,   \* lines in irq_routines
    lost,       \* an interrupt or exception found no gate of its own
    depth,      \* words that handlers of exceptions have left on the stack
    faults      \* history

boot == <<pc, pic, gdt, gates, lidt, routines>>
bootVars == <<vars, boot, lost, depth, faults>>

Bit(byte, k) == (byte \div 2^k) % 2 = 1

-----------------------------------------------------------------------------
\* The steps, in kernel_main's order.  A descriptor's base and limit are bytes, the
\* lowest first; base and size of tss_entry_inst are where the linker puts it.
Flat == <<255, 255, 255, 255>>
Null == <<0, 0, 0, 0>>
TssEnd == <<104, 64, 0, 0>>

GdtInit ==
    <<<<"descriptor", 0, Null, 0, 0>>,
      <<"descriptor", 1, Flat, 154, 207>>, <<"descriptor", 2, Flat, 146, 207>>,
      <<"descriptor", 3, Flat, 250, 207>>, <<"descriptor", 4, Flat, 242, 207>>,
      <<"descriptor", 5, TssEnd, 233, 0>>,
      <<"segments", 8, 16>>, <<"ltr", 43>>>>

PicRemapSwapped ==
    <<<<"command", "master", 17>>, <<"command", "slave", 17>>,
      <<"data", "master", 4>>, <<"data", "slave", 2>>,
      <<"data", "master", 32>>, <<"data", "slave", 40>>,
      <<"data", "master", 1>>, <<"data", "slave", 1>>,
      <<"data", "master", 0>>, <<"data", "slave", 128>>>>
PicRemap ==
    <<<<"command", "master", 17>>, <<"command", "slave", 17>>,
      <<"data", "master", 32>>, <<"data", "slave", 40>>,
      <<"data", "master", 4>>, <<"data", "slave", 2>>,
      <<"data", "master", 1>>, <<"data", "slave", 1>>,
      <<"data", "master", 0>>, <<"data", "slave", 128>>>>

IdtInstall == PicRemap \o <<<<"isrs">>, <<"irqs">>, <<"lidt">>>>

Program ==
    GdtInit \o IdtInstall \o <<<<"routine", 0>>, <<"routine", 1>>, <<"routine", 12>>, <<"sti">>>>

NoGate == <<>>

Booted == pc > Len(Program)
At(op) == ~lost /\ ~Booted /\ int_no = None /\ Program[pc][1] = op /\ pc' = pc + 1
Arg(k) == Program[pc][k]
Quiet == UNCHANGED <<int_no, accepted, called, raises, lost, depth, faults>>

\* GRUB has cleared the interrupt flag, so that idt_cli has nothing to do, and the BIOS's controllers are as they are.
BootInit ==
    /\ request = {} /\ service = {} /\ enabled = FALSE /\ int_no = None
    /\ accepted = [i \in Numbers |-> 0] /\ called = [i \in Numbers |-> 0]
    /\ raises = [i \in Lines |-> 0]
    /\ pc = 1
    /\ pic = [p \in {"master", "slave"} |->
                [offset |-> IF p = "master" THEN 8 ELSE 112, cascade |-> 0, mode |-> 0,
                 mask |-> 0, expects |-> 0]]
    /\ gdt = [n \in 0 .. 5 |-> [access |-> 0, limit |-> Null, flags |-> 0]]
    /\ gates = [v \in 0 .. 255 |-> NoGate]
    /\ lidt = FALSE /\ routines = {}
    /\ lost = FALSE /\ depth = 0 /\ faults = 0

\* gdt_set_gate: the limit's third byte shares one with the flags, and the fourth is lost
Encoded(limit, access, flags) ==
    [access |-> access, limit |-> <<limit[1], limit[2], limit[3] % 16, 0>>,
     flags |-> flags - (flags % 16)]

SetDescriptor ==
    /\ At("descriptor")
    /\ gdt' = [gdt EXCEPT ![Arg(2)] = Encoded(Arg(3), Arg(4), Arg(5))]
    /\ Quiet /\ UNCHANGED <<request, service, enabled, pic, gates, lidt, routines>>

\* the processor's checks; without a table for interrupts it resets
Descriptor(selector) == gdt[selector \div 8]
Present(d) == Bit(d.access, 7)
AllMemory(d) == d.limit = <<255, 255, 15, 0>> /\ Bit(d.flags, 7) /\ Bit(d.flags, 6)
Code(d) == Present(d) /\ AllMemory(d) /\ Bit(d.access, 4) /\ Bit(d.access, 3)
Writable(d) == Present(d) /\ AllMemory(d) /\ Bit(d.access, 4) /\ ~Bit(d.access, 3) /\ Bit(d.access, 1)
FreeTss(d) == Present(d) /\ d.access % 32 = 9

LoadSegments ==
    /\ \/ At("segments") /\ lost' = ~(Code(Descriptor(Arg(2))) /\ Writable(Descriptor(Arg(3))))
       \/ At("ltr") /\ lost' = ~FreeTss(Descriptor(Arg(2)))
    /\ UNCHANGED <<vars, pic, gdt, gates, lidt, routines, depth, faults>>

On(p) == IF p = "slave" THEN Slave ELSE Numbers \ Slave

\* the first initialisation word; it forgets the requests
PicCommand ==
    /\ At("command")
    /\ pic' = [pic EXCEPT ![Arg(2)] = [@ EXCEPT !.mask = 0, !.expects = 2]]
    /\ request' = request \ On(Arg(2)) /\ service' = service \ On(Arg(2))
    /\ Quiet /\ UNCHANGED <<enabled, gdt, gates, lidt, routines>>

\* what a byte is depends on how many have come
Taken(r, byte) ==
    CASE r.expects = 2 -> [r EXCEPT !.offset = byte - (byte % 8), !.expects = 3]
      [] r.expects = 3 -> [r EXCEPT !.cascade = byte, !.expects = 4]
      [] r.expects = 4 -> [r EXCEPT !.mode = byte, !.expects = 0]
      [] OTHER -> [r EXCEPT !.mask = byte]

PicData ==
    /\ At("data")
    /\ pic' = [pic EXCEPT ![Arg(2)] = Taken(@, Arg(3))]
    /\ Quiet /\ UNCHANGED <<request, service, enabled, gdt, gates, lidt, routines>>

\* idt_set_gate for the stubs of isr.s, then for those of irq.s
Isrs == (0 .. 31) \cup {128, 177}
SetGates ==
    /\ \/ At("isrs") /\ gates' = [v \in 0 .. 255 |-> IF v \in Isrs THEN <<"isr", v>> ELSE gates[v]]
       \/ At("irqs") /\ gates' = [v \in 0 .. 255 |->
                                     IF v \in 32 .. 47 THEN <<"irq", v - 32>> ELSE gates[v]]
    /\ Quiet /\ UNCHANGED <<request, service, enabled, pic, gdt, lidt, routines>>

InstallsAndEnables ==
    /\ \/ At("lidt") /\ lidt' = TRUE /\ UNCHANGED <<enabled, routines>>
       \/ At("routine") /\ routines' = routines \cup {Arg(2)} /\ UNCHANGED <<enabled, lidt>>
       \/ At("sti") /\ enabled' = TRUE /\ UNCHANGED <<routines, lidt>>
    /\ Quiet /\ UNCHANGED <<request, service, pic, gdt, gates>>

BootStep ==
    SetDescriptor \/ LoadSegments \/ PicCommand \/ PicData \/ SetGates \/ InstallsAndEnables

-----------------------------------------------------------------------------
\* Interrupts through what is set up.  A line gets through if it is not masked and,
\* for the slave's, if the two controllers have been told of one another.
Controller(i) == IF i \in Slave THEN "slave" ELSE "master"
GetsThrough(i) ==
    LET master == pic["master"]
        p == pic[Controller(i)]
    IN  /\ ~Bit(p.mask, i % 8) /\ Bit(p.mode, 0) /\ p.expects = 0
        /\ i \in Slave => /\ Bit(master.cascade, Cascade) /\ ~Bit(master.mask, Cascade)
                          /\ p.cascade = Cascade

Vector(i) == pic[Controller(i)].offset + (i % 8)
Leads(v, stub) == lidt /\ gates[v] = stub /\ Code(Descriptor(8))

Interrupt(i) ==
    /\ ~lost /\ GetsThrough(i)
    /\ Accept(i)
    /\ lost' = ~(Leads(Vector(i), <<"irq", i>>) /\ Installed \subseteq routines)
    /\ UNCHANGED <<boot, depth, faults>>

VanishedInterrupt(i) ==
    /\ ~lost /\ GetsThrough(i)
    /\ AcceptGone(i)
    /\ lost' = ~Leads(Vector(IF i \in Slave THEN 15 ELSE 7), <<"irq", IF i \in Slave THEN 15 ELSE 7>>)
    /\ UNCHANGED <<boot, depth, faults>>

\* An exception, at any time: three words by the processor, and an error code for some;
\* the stub pushes what makes them five, and isr_common_stub_test drops two before iret.
\* The handlers only log; the instruction is then tried again.
HasErrorCode == {8, 10, 11, 12, 13, 14, 17, 21, 29, 30}
IsrErrWithout13 == {8, 10, 11, 12, 14}
IsrErr == {8, 10, 11, 12, 13, 14}

Fault(v) ==
    /\ ~lost /\ faults < MaxFaults
    /\ faults' = faults + 1
    /\ IF Leads(v, <<"isr", v>>)
       THEN /\ depth' = depth + (IF v \in HasErrorCode THEN 4 ELSE 3)
                              + (IF v \in IsrErr THEN 1 ELSE 2) - 2 - 3
            /\ UNCHANGED lost
       ELSE lost' = TRUE /\ UNCHANGED depth
    /\ UNCHANGED <<vars, boot>>

Handle == ~lost /\ IrqHandler /\ UNCHANGED <<boot, lost, depth, faults>>
Send(i) == ~lost /\ Raise(i) /\ UNCHANGED <<boot, lost, depth, faults>>

BootKernel == BootStep \/ Handle \/ \E i \in Lines : Interrupt(i)
BootNext ==
    \/ BootStep \/ Handle
    \/ \E i \in Lines : Send(i) \/ Interrupt(i) \/ VanishedInterrupt(i)
    \/ \E v \in Faults : Fault(v)

BootSpec == BootInit /\ [][BootNext]_bootVars /\ WF_bootVars(BootKernel)

-----------------------------------------------------------------------------
\* From the moment the processor can be interrupted every interrupt has its own stub
\* and its routine, and every exception its own too: only what faults before lidt
\* (idt.c 93) resets the machine, and no handler leaves anything on the stack (isr.s).
EverythingIsTaken == (lost => ~lidt) /\ depth = 0

\* A request that the boot did not forget is answered, once the others are quiet: also
\* one that came before the controllers were set up, unless instructions fault first.
RequestsAnswered == \A i \in Lines : (i \in request /\ lidt) ~> (i \notin request \/ lost)
=============================================================================
