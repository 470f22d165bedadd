-------------------------------- MODULE Ps2 --------------------------------
(***************************************************************************)
(* The PS/2 controller, which keyboard and mouse share: the installation   *)
(* by polling, with interrupts off (mouse_install, idt_debug_setup), and   *)
(* afterwards the two interrupt handlers (keyboard_irq, mouse_handler).    *)
(* A byte is the set of its bits that are one.                             *)
(***************************************************************************)
EXTENDS Integers, Sequences

CONSTANTS
    Letter, Shift, Caps,  \* a key that types, and the two that change its case
    Code,           \* the scan code of a key being pressed
    Boots,          \* the configurations in which the firmware may leave the controller
    Ready,          \* bytes of keys and mouse moves that may be waiting at a time
    KeepsRequest,   \* whether an interrupt request outlives the byte it was for: some do
    MaxKeys, MaxMoves  \* bounds: key events, mouse packets

Keys == {Letter, Shift, Caps}
Byte == SUBSET (0 .. 7)
Released == 7                          \* this bit tells a release
KeyIrq == 0    MouseIrq == 1           \* the bits of the configuration
KeyOff == 4    MouseOff == 5    Translate == 6
Ack == {1, 3, 4, 5, 6, 7}              \* 0xFA

ASSUME Ps2Assumption ==
    /\ Letter # Shift /\ Shift # Caps /\ Caps # Letter
    /\ Code \in [Keys -> SUBSET (0 .. 6)]
    /\ \A j, k \in Keys : Code[j] = Code[k] => j = k
    /\ \A b \in Boots : b \in Byte /\ {KeyIrq, Translate} \subseteq b /\ KeyOff \notin b
    /\ Ready \in Nat /\ KeepsRequest \subseteq BOOLEAN /\ KeepsRequest # {}
    /\ MaxKeys \in Nat /\ MaxMoves \in Nat

VARIABLES
    config,           \* the controller's configuration byte
    out,              \* bytes that port 0x60 gives, in order
    last,             \* what it gives when there is none
    irq1, irq12,      \* requests to the interrupt controllers
    pc,               \* the next step of the installation
    status,           \* local of mouse_install
    caps_on, capslock,
    mouse_cycle, mouse_byte,
    held, locked,     \* the keyboard: keys down; whether caps lock is on
    heard, typed,     \* history: letters given to the listeners; and typed, by case
    early,            \* history: shift or caps lock was used before the installation
    upset,            \* history: what went wrong with the bytes, a set of Mishaps
    keys, moves

controller == <<config, out, last, irq1, irq12>>
keyboard == <<caps_on, capslock, heard>>
mouse == <<mouse_cycle, mouse_byte>>
user == <<held, locked, typed, early, keys, moves>>
vars == <<controller, pc, status, keyboard, mouse, user, upset>>

Sent(from, bits, n) == [from |-> from, bits |-> bits, n |-> n]

\* The flush left a byte; a byte nobody asked for was read as an answer; the two reads of
\* the keyboard's handler were of two bytes; a handler ran for a byte that was gone.
Mishaps == {"unread", "eaten", "mixed", "stale"}
Upset(event, happens) == IF happens THEN {event} ELSE {}

-----------------------------------------------------------------------------
\* The installation, a port access a step.  Commands to the controller are named by
\* their number, "aux" is a byte sent to the mouse.  The waits for the controller
\* to accept a byte are left out, so is the time after which they give up.
InstallNoFlush ==
    <<"AD", "A7", "20", "status", "60", "A8", "20", "read",
      "aux", "read", "aux", "read", "aux", "read", "aux", "read",
      "aux", "read", "aux", "read", "aux", "read", "aux", "read",
      "AE", "20", "read", "sti">>
Install ==
    <<"AD", "A7", "flush", "20", "status", "60", "A8", "20", "read",
      "aux", "read", "aux", "read", "aux", "read", "aux", "read",
      "aux", "read", "aux", "read", "aux", "read", "aux", "read",
      "AE", "20", "read", "sti">>

Booted == pc > Len(Install)
AtStep(s) == ~Booted /\ Install[pc] = s /\ pc' = pc + 1
Past(s) == \A n \in pc .. Len(Install) : Install[n] # s

Init ==
    /\ config \in Boots
    /\ out = <<>> /\ last = {} /\ irq1 = FALSE /\ irq12 = FALSE
    /\ pc = 1 /\ status = {}
    /\ caps_on = FALSE /\ capslock = FALSE
    /\ mouse_cycle = 0 /\ mouse_byte = [k \in 0 .. 2 |-> 0]
    /\ held = {} /\ locked = FALSE /\ heard = <<>> /\ typed = <<>> /\ early = FALSE /\ upset = {}
    /\ keys = 0 /\ moves = 0

Configure(step, c) ==
    /\ AtStep(step)
    /\ config' = c
    /\ UNCHANGED <<out, last, irq1, irq12, status, keyboard, mouse, user, upset>>

\* Reading port 0x60 n times: the last byte read; what is left.  The byte that is next
\* makes the request of its device; others may be kept.
AfterReads(n) == SubSeq(out, n + 1, Len(out))
Read(n) == IF out = <<>> THEN last ELSE out[IF n < Len(out) THEN n ELSE Len(out)].bits
FromMouse(b) == b.from = "mouse"
Requests(left, kept1, kept12) ==
    /\ irq1' = (kept1 \/ (KeyIrq \in config /\ left # <<>> /\ ~FromMouse(left[1])))
    /\ irq12' = (kept12 \/ (MouseIrq \in config /\ left # <<>> /\ FromMouse(left[1])))
Arrives(b) == out' = Append(out, b) /\ Requests(Append(out, b), irq1, irq12)

\* the answer comes the way the keyboard's bytes do
AskConfiguration ==
    /\ AtStep("20")
    /\ Arrives(Sent("controller", config, 0))
    /\ UNCHANGED <<config, last, status, keyboard, mouse, user, upset>>

SendToMouse ==
    /\ AtStep("aux")
    /\ Arrives(Sent("mouse", Ack, 0))
    /\ UNCHANGED <<config, last, status, keyboard, mouse, user, upset>>

\* The flush reads once, whatever is there (mouse.c:94); the others read an answer.
Unasked(b) == b.from = "keyboard" \/ b.n > 0
Poll(step) ==
    /\ AtStep(step)
    /\ out' = AfterReads(1) /\ last' = Read(1)
    /\ \E kept \in KeepsRequest : Requests(AfterReads(1), kept /\ irq1, kept /\ irq12)
    /\ status' = IF step = "status" THEN Read(1) ELSE status
    /\ upset' = upset \cup IF step = "flush" THEN Upset("unread", AfterReads(1) # <<>>)
                                             ELSE Upset("eaten", out # <<>> /\ Unasked(out[1]))
    /\ UNCHANGED <<config, keyboard, mouse, user>>

EnableInterrupts ==
    /\ AtStep("sti")
    /\ UNCHANGED <<controller, status, keyboard, mouse, user, upset>>

Boot ==
    \/ Configure("AD", config \cup {KeyOff}) \/ Configure("A7", config \cup {MouseOff})
    \/ Configure("60", status \cup {KeyIrq, MouseIrq})
    \/ Configure("A8", config \ {MouseOff}) \/ Configure("AE", config \ {KeyOff})
    \/ AskConfiguration \/ SendToMouse
    \/ Poll("flush") \/ Poll("status") \/ Poll("read")
    \/ EnableInterrupts

-----------------------------------------------------------------------------
\* The keyboard: a key goes down or up.  Without translation it would send other codes.
Wired == {KeyIrq, Translate} \subseteq config /\ KeyOff \notin config

Key(k) ==
    LET down == k \notin held
    IN  /\ Wired /\ keys < MaxKeys /\ Len(out) < Ready
        /\ keys' = keys + 1
        /\ Arrives(Sent("keyboard", IF down THEN Code[k] ELSE Code[k] \cup {Released}, 0))
        /\ held' = IF down THEN held \cup {k} ELSE held \ {k}
        /\ locked' = IF k = Caps /\ down THEN ~locked ELSE locked
        /\ typed' = IF k = Letter /\ down /\ Past("AE")
                    THEN Append(typed, IF Shift \in held \/ locked THEN "upper" ELSE "lower")
                    ELSE typed
        /\ early' = (early \/ (k # Letter /\ ~Past("AE")))
        /\ UNCHANGED <<config, last, pc, status, keyboard, mouse, moves, upset>>

\* The mouse moves: the next byte of its packet of three.  It reports moves from the last
\* command it is sent on (mouse.c:150), with interrupts still off.
Move ==
    /\ Past("aux") /\ MouseOff \notin config
    /\ moves < 3 * MaxMoves
    /\ Len(out) < Ready
    /\ moves' = moves + 1
    /\ Arrives(Sent("mouse", {}, (moves % 3) + 1))
    /\ UNCHANGED <<config, last, pc, status, keyboard, mouse,
                   held, locked, typed, early, upset, keys>>

-----------------------------------------------------------------------------
\* The handlers run to their end with interrupts off, the keyboard's first.
ShiftOnce(pressed) == TRUE
ShiftHeld(pressed) == pressed

\* keyboard_irq reads the port once for the code and once for the press bit
KeyboardHandler ==
    /\ Booted /\ irq1
    /\ out' = AfterReads(2) /\ last' = Read(2)
    /\ \E kept \in KeepsRequest :
           LET second == kept /\ Len(out) > 1
           IN  Requests(AfterReads(2), second /\ ~FromMouse(out[2]),
                                       (kept /\ irq12) \/ (second /\ FromMouse(out[2])))
    /\ LET code == Read(1) \ {Released}
           pressed == Released \notin Read(2)
       IN  /\ caps_on' = IF code = Code[Shift] THEN ShiftHeld(pressed) ELSE caps_on
           /\ capslock' = IF code = Code[Caps] /\ pressed THEN ~capslock ELSE capslock
           /\ heard' = IF code = Code[Letter] /\ pressed
                       THEN Append(heard, IF caps_on \/ capslock THEN "upper" ELSE "lower")
                       ELSE heard
    /\ upset' = upset \cup Upset("mixed", Len(out) > 1)
                      \cup Upset("stale", out = <<>> \/ FromMouse(out[1]))
    /\ UNCHANGED <<config, pc, status, mouse, user>>

PacketLengthTwo == 2
PacketLength == 3

MouseHandler ==
    /\ Booted /\ irq12 /\ ~irq1
    /\ out' = AfterReads(1) /\ last' = Read(1)
    /\ Requests(AfterReads(1), irq1, FALSE)
    /\ mouse_byte' = [mouse_byte EXCEPT ![mouse_cycle] = IF out = <<>> THEN 0 ELSE out[1].n]
    /\ mouse_cycle' = IF mouse_cycle + 1 = PacketLength THEN 0 ELSE mouse_cycle + 1
    /\ upset' = upset \cup Upset("stale", out = <<>> \/ ~FromMouse(out[1]))
    /\ UNCHANGED <<config, pc, status, keyboard, user>>

Devices == Move \/ \E k \in Keys : Key(k)
Next == Boot \/ Devices \/ KeyboardHandler \/ MouseHandler

Spec == Init /\ [][Next]_vars

-----------------------------------------------------------------------------
\* After the boot the keyboard works: its interrupt is on, its clock is on, its codes are
\* translated, if the one read of the flush left no byte (mouse.c 93-110, 155-156).
KeyboardIsOn == Booted /\ "unread" \notin upset => Wired /\ MouseIrq \in config

\* As long as every byte was read by whom it was for: when nothing is left to be handled,
\* the listeners got every letter since the keyboard was enabled again, once, in the case
\* that shift and caps lock say (keyboard.c 53-100).
KeysAreHeard == Booted /\ out = <<>> /\ upset = {} /\ ~early => heard = typed

\* So long, a packet is put together from one packet's bytes, inside its array, those of
\* the moves before sti too (mouse.c 62-71, 150).
PacketsAligned ==
    upset = {} => /\ mouse_cycle \in DOMAIN mouse_byte
                  /\ \A k \in 0 .. 2 : mouse_byte[k] \in {0, k + 1}

=============================================================================
