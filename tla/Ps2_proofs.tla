----------------------------- MODULE Ps2_proofs -----------------------------
(***************************************************************************)
(* The installation leaves a keyboard that works if its flush leaves no    *)
(* byte, and the two handlers lose nothing as long as each byte is read by *)
(* whom it is for: the invariants of Ps2, for any scan codes,              *)
(* configurations of the firmware, requests kept or not, bytes waiting,    *)
(* and numbers of keys and packets.                                        *)
(***************************************************************************)
EXTENDS Ps2, TLAPS, SequenceTheorems

Bytes == [from : {"controller", "mouse", "keyboard"}, bits : Byte, n : 0 .. 3]

TypeOK ==
    /\ config \in Byte /\ status \in Byte /\ last \in Byte
    /\ out \in Seq(Bytes)
    /\ irq1 \in BOOLEAN /\ irq12 \in BOOLEAN
    /\ pc \in 1 .. 30 /\ upset \in SUBSET Mishaps
    /\ caps_on \in BOOLEAN /\ capslock \in BOOLEAN
    /\ mouse_cycle \in 0 .. 2 /\ mouse_byte \in [0 .. 2 -> 0 .. 3]
    /\ held \in SUBSET Keys /\ locked \in BOOLEAN /\ early \in BOOLEAN
    /\ heard \in Seq({"upper", "lower"}) /\ typed \in Seq({"upper", "lower"})
    /\ keys \in Nat /\ moves \in Nat

-----------------------------------------------------------------------------
\* The installation's steps by their place (mouse.c 82-156, idt.c 182-186).
ToMouse == {n \in 10 .. 25 : n % 2 = 0}
Polls == {9, 28} \cup {n \in 10 .. 25 : n % 2 = 1}

LEMMA Steps ==
    /\ Len(Install) = 29
    /\ \A n \in 1 .. 29 :
        /\ Install[n] = "AD" <=> n = 1
        /\ Install[n] = "A7" <=> n = 2
        /\ Install[n] = "20" <=> n \in {4, 8, 27}
        /\ Install[n] = "flush" <=> n = 3
        /\ Install[n] = "status" <=> n = 5
        /\ Install[n] = "60" <=> n = 6
        /\ Install[n] = "A8" <=> n = 7
        /\ Install[n] = "AE" <=> n = 26
        /\ Install[n] = "aux" <=> n \in ToMouse
        /\ Install[n] = "read" <=> n \in Polls
        /\ Install[n] = "sti" <=> n = 29
<1>1. Len(Install) = 29
  BY DEF Install
<1>2. \A n \in 1 .. 29 :
        /\ Install[n] = "AD" <=> n = 1
        /\ Install[n] = "A7" <=> n = 2
        /\ Install[n] = "20" <=> n \in {4, 8, 27}
        /\ Install[n] = "flush" <=> n = 3
        /\ Install[n] = "status" <=> n = 5
  BY DEF Install
<1>3. \A n \in 1 .. 29 :
        /\ Install[n] = "60" <=> n = 6
        /\ Install[n] = "A8" <=> n = 7
        /\ Install[n] = "AE" <=> n = 26
        /\ Install[n] = "sti" <=> n = 29
  BY DEF Install
<1>4. \A n \in 1 .. 29 : Install[n] = "aux" <=> n \in ToMouse
  BY DEF Install, ToMouse
<1>5. \A n \in 1 .. 29 : Install[n] = "read" <=> n \in Polls
  BY DEF Install, Polls
<1>6. QED
  BY <1>1, <1>2, <1>3, <1>4, <1>5

\* What a step of the installation says of its place.
LEMMA Place ==
    ASSUME TypeOK, NEW s, AtStep(s)
    PROVE  pc \in 1 .. 29 /\ pc' = pc + 1 /\ Install[pc] = s
BY Steps DEF AtStep, Booted, TypeOK

LEMMA AfterBoot == TypeOK => (Booted <=> pc = 30)
<1>1. Len(Install) = 29
  BY Steps
<1>2. QED
  BY <1>1 DEF Booted, TypeOK

\* The mouse reports moves from the last command it is sent on, and the keyboard is on
\* again after the last command of all (mouse.c 150-156).
LEMMA Passed == TypeOK => (Past("aux") <=> pc >= 25) /\ (Past("AE") <=> pc >= 27)
<1>1. Len(Install) = 29
  BY Steps
<1>2. \A n \in 1 .. 29 : (Install[n] = "aux" <=> n \in ToMouse) /\ (Install[n] = "AE" <=> n = 26)
  BY Steps
<1> SUFFICES ASSUME TypeOK PROVE (Past("aux") <=> pc >= 25) /\ (Past("AE") <=> pc >= 27)
  OBVIOUS
<1>3. pc \in 1 .. 30
  BY DEF TypeOK
<1>4. Past("aux") <=> \A n \in pc .. 29 : n \notin ToMouse
  BY <1>1, <1>2, <1>3 DEF Past
<1>5. 24 \in ToMouse /\ \A n \in ToMouse : n <= 24
  BY DEF ToMouse
<1>6. Past("aux") <=> pc >= 25
  <2>1. CASE pc <= 24
    <3>1. 24 \in pc .. 29
      BY <1>3, <2>1
    <3>2. QED
      BY <1>3, <1>4, <1>5, <2>1, <3>1
  <2>2. CASE pc >= 25
    BY <1>3, <1>4, <1>5, <2>2
  <2>3. QED
    BY <1>3, <2>1, <2>2
<1>7. Past("AE") <=> \A n \in pc .. 29 : n # 26
  BY <1>1, <1>2, <1>3 DEF Past
<1>8. Past("AE") <=> pc >= 27
  BY <1>3, <1>7
<1>9. QED
  BY <1>6, <1>8
-----------------------------------------------------------------------------
\* Reads of the port, up to two of them, with up to two bytes there.
LEMMA Reads ==
    ASSUME TypeOK, NEW n \in {1, 2}
    PROVE  /\ AfterReads(n) \in Seq(Bytes) /\ Read(n) \in Byte
           /\ out # <<>> => Read(1) = out[1].bits
           /\ Len(out) <= n => AfterReads(n) = <<>>
           /\ Len(out) = 1 => Read(n) = out[1].bits
           /\ Len(out) = 2 => Len(AfterReads(1)) = 1 /\ AfterReads(1)[1] = out[2]
<1>1. out \in Seq(Bytes) /\ last \in Byte /\ Len(out) \in Nat
  BY DEF TypeOK
<1>2. AfterReads(n) \in Seq(Bytes)
  BY <1>1 DEF AfterReads
<1>3. Read(n) \in Byte
  <2>1. CASE out = <<>>
    BY <1>1, <2>1 DEF Read
  <2>2. CASE out # <<>>
    <3>1. \A i \in 1 .. Len(out) : out[i].bits \in Byte
      <4>1. \A i \in 1 .. Len(out) : out[i] \in Bytes
        BY <1>1
      <4>2. \A b \in Bytes : b.bits \in Byte
        BY DEF Bytes
      <4>3. QED
        BY <4>1, <4>2
    <3>2. (IF n < Len(out) THEN n ELSE Len(out)) \in 1 .. Len(out)
      BY <1>1, <2>2
    <3>3. QED
      BY <2>2, <3>1, <3>2 DEF Read
  <2>3. QED
    BY <2>1, <2>2
<1>4. out # <<>> => Read(1) = out[1].bits
  BY <1>1 DEF Read
<1>5. Len(out) <= n => AfterReads(n) = <<>>
  BY <1>1 DEF AfterReads
<1>6. Len(out) = 1 => Read(n) = out[1].bits
  <2>1. SUFFICES ASSUME Len(out) = 1 PROVE Read(n) = out[1].bits
    OBVIOUS
  <2>2. out # <<>> /\ ~(n < Len(out))
    BY <2>1
  <2>3. QED
    BY <2>1, <2>2 DEF Read
<1>7. Len(out) = 2 => Len(AfterReads(1)) = 1 /\ AfterReads(1)[1] = out[2]
  BY <1>1, SubSeqProperties DEF AfterReads
<1>8. QED
  BY <1>2, <1>3, <1>4, <1>5, <1>6, <1>7
-----------------------------------------------------------------------------
\* A byte arrives behind those that wait; a read takes the first of them.
LEMMA Arrived ==
    ASSUME TypeOK, NEW c \in Bytes, Arrives(c)
    PROVE  /\ out' \in Seq(Bytes) /\ irq1' \in BOOLEAN /\ irq12' \in BOOLEAN
           /\ Len(out') = Len(out) + 1 /\ out' # <<>> /\ out'[Len(out) + 1] = c
           /\ \A i \in 1 .. Len(out) : out'[i] = out[i]
<1>1. out \in Seq(Bytes) /\ out' = Append(out, c)
  BY DEF TypeOK, Arrives
<1>2. irq1' \in BOOLEAN /\ irq12' \in BOOLEAN
  BY DEF Arrives, Requests
<1>3. Len(out') = Len(out) + 1 /\ out'[Len(out) + 1] = c
  BY <1>1
<1>4. \A i \in 1 .. Len(out) : out'[i] = out[i]
  BY <1>1
<1>5. QED
  BY <1>1, <1>2, <1>3, <1>4

LEMMA Taken ==
    ASSUME TypeOK, out # <<>>, out' = AfterReads(1)
    PROVE  /\ Len(out) >= 1 /\ Len(out') = Len(out) - 1
           /\ \A i \in 1 .. Len(out') : out'[i] = out[i + 1]
<1>1. out \in Seq(Bytes) /\ Len(out) >= 1
  BY DEF TypeOK
<1>2. out' = SubSeq(out, 2, Len(out))
  BY DEF AfterReads
<1>3. QED
  BY <1>1, <1>2, SubSeqProperties

\* What goes wrong stays in the history.
LEMMA Upsets == [Next]_vars => upset \subseteq upset'
<1> SUFFICES ASSUME [Next]_vars PROVE upset \subseteq upset'
  OBVIOUS
<1>1. CASE Boot
  <2>1. CASE \E s, c : Configure(s, c)
    BY <2>1 DEF Configure
  <2>2. CASE \E s : Poll(s)
    BY <2>2 DEF Poll
  <2>3. CASE AskConfiguration \/ SendToMouse \/ EnableInterrupts
    BY <2>3 DEF AskConfiguration, SendToMouse, EnableInterrupts
  <2>4. QED
    BY <1>1, <2>1, <2>2, <2>3 DEF Boot
<1>2. CASE Devices
  BY <1>2 DEF Devices, Move, Key
<1>3. CASE KeyboardHandler
  BY <1>3 DEF KeyboardHandler
<1>4. CASE MouseHandler
  BY <1>4 DEF MouseHandler
<1>5. CASE UNCHANGED vars
  BY <1>5 DEF vars
<1>6. QED
  BY <1>1, <1>2, <1>3, <1>4, <1>5 DEF Next
-----------------------------------------------------------------------------
LEMMA TypeInit == Init => TypeOK
BY Ps2Assumption DEF Init, TypeOK, Byte

\* Every step of the installation, of the devices and of the handlers keeps the types.
LEMMA TypeNext == TypeOK /\ [Next]_vars => TypeOK'
<1> SUFFICES ASSUME TypeOK, [Next]_vars PROVE TypeOK'
  OBVIOUS
<1>0. \A e \in Mishaps : \A c : Upset(e, c) \subseteq Mishaps
  BY DEF Upset
<1>a. {"unread", "eaten", "mixed", "stale"} = Mishaps /\ upset \subseteq Mishaps
  BY DEF Mishaps, TypeOK
<1>1. CASE \E s, c : Configure(s, c) /\ c \in Byte
  <2>1. PICK s, c : Configure(s, c) /\ c \in Byte
    BY <1>1
  <2>2. pc' \in 1 .. 30
    BY <2>1, Place DEF Configure
  <2>3. QED
    BY <2>1, <2>2 DEF Configure, keyboard, mouse, user, TypeOK
<1>2. CASE AskConfiguration
  <2>1. pc' \in 1 .. 30
    <3>1. AtStep("20")
      BY <1>2 DEF AskConfiguration
    <3>2. QED
      BY <3>1, Place
  <2>2. Sent("controller", config, 0) \in Bytes
    BY DEF Sent, Bytes, TypeOK
  <2>3. out' \in Seq(Bytes) /\ irq1' \in BOOLEAN /\ irq12' \in BOOLEAN
    BY <1>2, <2>2, Arrived DEF AskConfiguration
  <2>4. QED
    BY <1>2, <2>1, <2>3 DEF AskConfiguration, keyboard, mouse, user, TypeOK
<1>3. CASE SendToMouse
  <2>1. pc' \in 1 .. 30
    <3>1. AtStep("aux")
      BY <1>3 DEF SendToMouse
    <3>2. QED
      BY <3>1, Place
  <2>2. Sent("mouse", Ack, 0) \in Bytes
    BY DEF Sent, Bytes, Ack, Byte
  <2>3. out' \in Seq(Bytes) /\ irq1' \in BOOLEAN /\ irq12' \in BOOLEAN
    BY <1>3, <2>2, Arrived DEF SendToMouse
  <2>4. QED
    BY <1>3, <2>1, <2>3 DEF SendToMouse, keyboard, mouse, user, TypeOK
<1>4. CASE \E s : Poll(s)
  <2>1. PICK s : Poll(s)
    BY <1>4
  <2>2. pc' \in 1 .. 30
    <3>1. AtStep(s)
      BY <2>1 DEF Poll
    <3>2. pc \in 1 .. 29 /\ pc' = pc + 1
      BY <3>1, Place
    <3>3. QED
      BY <3>2
  <2>3. out' \in Seq(Bytes) /\ last' \in Byte /\ status' \in Byte
    BY <2>1, Reads DEF Poll, TypeOK
  <2>4. irq1' \in BOOLEAN /\ irq12' \in BOOLEAN
    BY <2>1 DEF Poll, Requests
  <2>5. upset' \in SUBSET Mishaps
    <3>1. upset' = upset \cup Upset("unread", AfterReads(1) # <<>>)
          \/ upset' = upset \cup Upset("eaten", out # <<>> /\ Unasked(out[1]))
      BY <2>1 DEF Poll
    <3>2. "unread" \in Mishaps /\ "eaten" \in Mishaps
      BY <1>a
    <3>3. upset' \subseteq Mishaps
      BY <1>0, <1>a, <3>1, <3>2
    <3>4. QED
      BY <3>3
  <2>6. QED
    BY <2>1, <2>2, <2>3, <2>4, <2>5 DEF Poll, keyboard, mouse, user, TypeOK
<1>5. CASE EnableInterrupts
  <2>1. pc' \in 1 .. 30
    BY <1>5, Place DEF EnableInterrupts
  <2>2. QED
    BY <1>5, <2>1 DEF EnableInterrupts, controller, keyboard, mouse, user, TypeOK
<1>6. CASE Move
  <2>1. Sent("mouse", {}, (moves % 3) + 1) \in Bytes
    BY DEF Sent, Bytes, Byte, TypeOK
  <2>2. out' \in Seq(Bytes) /\ irq1' \in BOOLEAN /\ irq12' \in BOOLEAN
    BY <1>6, <2>1, Arrived DEF Move
  <2>3. QED
    BY <1>6, <2>2 DEF Move, keyboard, mouse, TypeOK
<1>7. CASE \E k \in Keys : Key(k)
  <2>1. PICK k \in Keys : Key(k)
    BY <1>7
  <2>2. Code[k] \in Byte /\ Code[k] \cup {Released} \in Byte
    BY Ps2Assumption DEF Byte, Released
  <2>3. \A b \in Byte : Sent("keyboard", b, 0) \in Bytes
    BY DEF Sent, Bytes
  <2>4. out' \in Seq(Bytes) /\ irq1' \in BOOLEAN /\ irq12' \in BOOLEAN
    BY <2>1, <2>2, <2>3, Arrived DEF Key
  <2>5. typed' \in Seq({"upper", "lower"})
    BY <2>1 DEF Key, TypeOK
  <2>6. held' \in SUBSET Keys /\ locked' \in BOOLEAN /\ early' \in BOOLEAN
    BY <2>1 DEF Key, TypeOK
  <2>7. QED
    BY <2>1, <2>4, <2>5, <2>6 DEF Key, keyboard, mouse, TypeOK
<1>8. CASE KeyboardHandler
  <2>1. out' \in Seq(Bytes) /\ last' \in Byte
    BY <1>8, Reads DEF KeyboardHandler
  <2>2. irq1' \in BOOLEAN /\ irq12' \in BOOLEAN
    BY <1>8 DEF KeyboardHandler, Requests
  <2>3. caps_on' \in BOOLEAN /\ capslock' \in BOOLEAN
    BY <1>8 DEF KeyboardHandler, ShiftHeld, TypeOK
  <2>4. heard' \in Seq({"upper", "lower"})
    <3>1. heard' = heard \/ heard' = Append(heard, "upper") \/ heard' = Append(heard, "lower")
      BY <1>8 DEF KeyboardHandler
    <3>2. QED
      BY <3>1, AppendProperties DEF TypeOK
  <2>5. upset' \in SUBSET Mishaps
    <3>1. "mixed" \in Mishaps /\ "stale" \in Mishaps
      BY <1>a
    <3>2. upset' \subseteq Mishaps
      BY <1>0, <1>a, <1>8, <3>1 DEF KeyboardHandler
    <3>3. QED
      BY <3>2
  <2>6. QED
    BY <1>8, <2>1, <2>2, <2>3, <2>4, <2>5 DEF KeyboardHandler, mouse, user, TypeOK
<1>9. CASE MouseHandler
  <2>1. out' \in Seq(Bytes) /\ last' \in Byte
    BY <1>9, Reads DEF MouseHandler
  <2>2. irq1' \in BOOLEAN /\ irq12' \in BOOLEAN
    BY <1>9 DEF MouseHandler, Requests
  <2>3. (IF out = <<>> THEN 0 ELSE out[1].n) \in 0 .. 3
    <3>1. \A b \in Bytes : b.n \in 0 .. 3
      BY DEF Bytes
    <3>2. out # <<>> => out[1] \in Bytes
      BY DEF TypeOK
    <3>3. QED
      BY <3>1, <3>2
  <2>4. mouse_cycle' \in 0 .. 2 /\ mouse_byte' \in [0 .. 2 -> 0 .. 3]
    BY <1>9, <2>3 DEF MouseHandler, PacketLength, TypeOK
  <2>5. upset' \in SUBSET Mishaps
    <3>1. "stale" \in Mishaps
      BY <1>a
    <3>2. upset' \subseteq Mishaps
      BY <1>0, <1>a, <1>9, <3>1 DEF MouseHandler
    <3>3. QED
      BY <3>2
  <2>6. QED
    BY <1>9, <2>1, <2>2, <2>4, <2>5 DEF MouseHandler, keyboard, user, TypeOK
<1>10. CASE UNCHANGED vars
  BY <1>10 DEF vars, controller, keyboard, mouse, user, TypeOK
<1>11. /\ config \cup {KeyOff} \in Byte /\ config \cup {MouseOff} \in Byte
       /\ status \cup {KeyIrq, MouseIrq} \in Byte
       /\ config \ {MouseOff} \in Byte /\ config \ {KeyOff} \in Byte
  BY DEF Byte, KeyOff, MouseOff, KeyIrq, MouseIrq, TypeOK
<1>12. QED
  BY <1>1, <1>2, <1>3, <1>4, <1>5, <1>6, <1>7, <1>8, <1>9, <1>10, <1>11
  DEF Next, Boot, Devices
-----------------------------------------------------------------------------
\* The installation.  The keyboard sends only while its clock is on, which is before the
\* first and after the last command, and the mouse after the last it is sent; if the flush
\* leaves nothing, what is read when the controller is asked for its configuration is that.
Installing ==
    /\ pc <= 6 => {KeyIrq, Translate} \subseteq config
    /\ pc >= 7 => {KeyIrq, MouseIrq, Translate} \subseteq config
    /\ pc \in 2 .. 26 <=> KeyOff \in config
    /\ pc = 4 => out = <<>>
    /\ pc = 5 => Len(out) = 1 /\ {KeyOff, Translate} \subseteq out[1].bits
    /\ pc = 6 => {KeyOff, Translate} \subseteq status
Flushed == "unread" \notin upset => Installing

LEMMA InstallingInit == Init => Installing
BY Ps2Assumption DEF Init, Installing

\* The commands that change the configuration (mouse.c 89-118, 156).
LEMMA InstallingConfigures ==
    ASSUME TypeOK, Installing,
           \/ Configure("AD", config \cup {KeyOff}) \/ Configure("A7", config \cup {MouseOff})
           \/ Configure("60", status \cup {KeyIrq, MouseIrq})
           \/ Configure("A8", config \ {MouseOff}) \/ Configure("AE", config \ {KeyOff})
    PROVE  Installing'
<1> USE DEF KeyOff, MouseOff, KeyIrq, MouseIrq, Translate
<1>0. pc \in 1 .. 30
  BY DEF TypeOK
<1>1. CASE Configure("AD", config \cup {KeyOff})
  <2>1. pc = 1 /\ pc' = 2
    BY <1>1, Place, Steps DEF Configure
  <2>2. QED
    BY <1>1, <2>1 DEF Configure, Installing
<1>2. CASE Configure("A7", config \cup {MouseOff})
  <2>1. pc = 2 /\ pc' = 3
    BY <1>2, Place, Steps DEF Configure
  <2>2. QED
    BY <1>2, <2>1 DEF Configure, Installing
<1>3. CASE Configure("60", status \cup {KeyIrq, MouseIrq})
  <2>1. pc = 6 /\ pc' = 7
    BY <1>3, Place, Steps DEF Configure
  <2>2. QED
    BY <1>3, <2>1 DEF Configure, Installing
<1>4. CASE Configure("A8", config \ {MouseOff})
  <2>1. pc = 7 /\ pc' = 8
    BY <1>4, Place, Steps DEF Configure
  <2>2. QED
    BY <1>4, <2>1 DEF Configure, Installing
<1>5. CASE Configure("AE", config \ {KeyOff})
  <2>1. pc = 26 /\ pc' = 27
    BY <1>5, Place, Steps DEF Configure
  <2>2. QED
    BY <1>5, <2>1 DEF Configure, Installing
<1>6. QED
  BY <1>1, <1>2, <1>3, <1>4, <1>5

\* What keeps the configuration and the place keeps this, in the phases where the
\* bytes do not matter.
LEMMA InstallingSame ==
    ASSUME Installing, UNCHANGED <<config, pc>>, pc = 1 \/ pc >= 7, pc \in Nat
    PROVE  Installing'
BY DEF Installing

\* Every step keeps it, as long as the flush has left nothing (mouse.c 82-156).
LEMMA FlushedNext == TypeOK /\ Flushed /\ [Next]_vars => Flushed'
<1> SUFFICES ASSUME TypeOK, Installing, [Next]_vars, "unread" \notin upset'
             PROVE  Installing'
  BY Upsets DEF Flushed
<1>0. /\ pc \in 1 .. 30 /\ (Booted <=> pc = 30) /\ out \in Seq(Bytes) /\ config \in Byte
  BY AfterBoot DEF TypeOK
<1> USE DEF KeyOff, KeyIrq, Translate, MouseIrq
<1>1. CASE AskConfiguration
  <2>1. AtStep("20")
    BY <1>1 DEF AskConfiguration
  <2>2. pc \in {4, 8, 27} /\ pc' = pc + 1
    BY <2>1, Place, Steps
  <2>3. config' = config /\ out' = Append(out, Sent("controller", config, 0))
    BY <1>1 DEF AskConfiguration, Arrives
  <2>4. CASE pc = 4
    <3>1. out' = <<Sent("controller", config, 0)>>
      BY <2>3, <2>4 DEF Installing
    <3>2. Len(out') = 1 /\ out'[1].bits = config
      BY <3>1 DEF Sent
    <3>3. QED
      BY <2>2, <2>3, <2>4, <3>2 DEF Installing
  <2>5. CASE pc # 4
    BY <2>2, <2>3, <2>5 DEF Installing
  <2>6. QED
    BY <2>4, <2>5
<1>2. CASE SendToMouse
  <2>1. AtStep("aux")
    BY <1>2 DEF SendToMouse
  <2>2. pc \in ToMouse /\ pc' = pc + 1
    BY <2>1, Place, Steps
  <2>3. config' = config
    BY <1>2 DEF SendToMouse
  <2>4. QED
    BY <2>2, <2>3 DEF Installing, ToMouse
<1>3. CASE Poll("flush")
  <2>1. AtStep("flush") /\ config' = config /\ out' = AfterReads(1)
    BY <1>3 DEF Poll
  <2>2. pc = 3 /\ pc' = 4
    BY <2>1, Place, Steps
  <2>3. out' = <<>>
    BY <1>3 DEF Poll, Upset
  <2>4. QED
    BY <2>1, <2>2, <2>3 DEF Installing
<1>4. CASE Poll("status")
  <2>1. AtStep("status")
    BY <1>4 DEF Poll
  <2>2. pc = 5 /\ pc' = 6
    BY <2>1, Place, Steps
  <2>3. config' = config /\ status' = Read(1)
    BY <1>4 DEF Poll
  <2>4. status' = out[1].bits
    BY <2>2, <2>3, Reads DEF Installing
  <2>5. QED
    BY <2>2, <2>3, <2>4 DEF Installing
<1>5. CASE Poll("read")
  <2>1. AtStep("read") /\ config' = config
    BY <1>5 DEF Poll
  <2>2. pc \in Polls /\ pc' = pc + 1
    BY <2>1, Place, Steps
  <2>3. QED
    BY <2>1, <2>2 DEF Installing, Polls
<1>6. CASE EnableInterrupts
  <2>1. pc = 29 /\ pc' = 30
    BY <1>6, Place, Steps DEF EnableInterrupts
  <2>2. QED
    BY <1>6, <2>1 DEF EnableInterrupts, controller, Installing
<1>7. CASE \E k \in Keys : Key(k)
  <2>1. KeyOff \notin config /\ UNCHANGED <<config, pc>>
    BY <1>7 DEF Key, Wired
  <2>2. pc = 1 \/ pc >= 27
    <3>1. ~(pc \in 2 .. 26)
      BY <2>1 DEF Installing
    <3>2. QED
      BY <1>0, <3>1
  <2>3. QED
    BY <1>0, <2>1, <2>2, InstallingSame
<1>8. CASE Move
  <2>1. pc >= 25 /\ UNCHANGED <<config, pc>>
    BY <1>8, Passed DEF Move
  <2>2. QED
    BY <1>0, <2>1, InstallingSame
<1>9. CASE KeyboardHandler \/ MouseHandler
  <2>1. Booted /\ UNCHANGED <<config, pc>>
    BY <1>9 DEF KeyboardHandler, MouseHandler
  <2>2. QED
    BY <1>0, <2>1, InstallingSame
<1>10. CASE UNCHANGED vars
  BY <1>10 DEF vars, controller, Installing
<1>11. QED
  BY <1>1, <1>2, <1>3, <1>4, <1>5, <1>6, <1>7, <1>8, <1>9, <1>10, InstallingConfigures
  DEF Next, Boot, Devices

\* For any scan codes and configurations, however many bytes wait and whatever the devices
\* send: the keyboard works after every boot whose flush leaves no byte (mouse.c 93-110).
\* It may leave one; then another configuration may be written back.
THEOREM KeyboardWorks == Spec => []KeyboardIsOn
<1>1. Init => TypeOK /\ Flushed
  BY TypeInit, InstallingInit DEF Flushed
<1>2. TypeOK /\ Flushed /\ [Next]_vars => (TypeOK /\ Flushed)'
  BY TypeNext, FlushedNext
<1>3. TypeOK /\ Flushed => KeyboardIsOn
  BY AfterBoot DEF KeyboardIsOn, Flushed, Installing, Wired
<1>4. QED
  BY <1>1, <1>2, <1>3, PTL DEF Spec
-----------------------------------------------------------------------------
\* What is waiting at the port at each step of the installation up to the last command to
\* the mouse; then the bytes of moves may follow its answer, and keys the last command.
Pending ==
    /\ pc \in {6, 7, 8} \cup ToMouse => out = <<>>
    /\ pc \in Polls \ {25, 28} => Len(out) = 1
    /\ pc \in {25, 28} => out # <<>>
    /\ pc \in 25 .. 27 => \A i \in 1 .. Len(out) : out[i].from # "controller"
    /\ pc \in 25 .. 28 =>
         \A i \in 1 .. Len(out) : FromMouse(out[i]) => out[i].n > 0 \/ (pc = 25 /\ i = 1)

\* With nothing to be handled the handler knows the keys that are down, and the listeners
\* got the letters; with one code to be handled, it is the key's that makes the difference.
Agree == (caps_on <=> Shift \in held) /\ (capslock <=> locked) /\ heard = typed
Coming(k, code) ==
    /\ code = IF k \in held THEN Code[k] ELSE Code[k] \cup {Released}
    /\ k # Shift => (caps_on <=> Shift \in held)
    /\ capslock <=> IF k = Caps /\ k \in held THEN ~locked ELSE locked
    /\ typed = IF k = Letter /\ k \in held
               THEN Append(heard, IF caps_on \/ capslock THEN "upper" ELSE "lower")
               ELSE heard

\* The bytes after the first b are those of keys and moves.  Up to the first of a key, they
\* continue the packet that the handler is putting together; the mouse has sent no others.
\* A key's byte with something behind it is not followed: its handler will read two bytes.
Moved(b, e) == \A i \in b + 1 .. e : out[i].n > 0
InStep(b, e) == moves % 3 = (mouse_cycle + e - b) % 3
Known(b) ==
    \A i \in b + 1 .. Len(out) : out[i].from # "controller" /\ (FromMouse(out[i]) <=> out[i].n > 0)
Continued(b) ==
    \A i \in b + 1 .. Len(out) : Moved(b, i) => out[i].n = ((mouse_cycle + i - b - 1) % 3) + 1
Moving(b) == Moved(b, Len(out)) => InStep(b, Len(out)) /\ (early \/ Agree)
KeyLast(b) ==
    Len(out) > b /\ Moved(b, Len(out) - 1) /\ ~Moved(b, Len(out)) =>
        InStep(b, Len(out) - 1) /\ (early \/ \E k \in Keys : Coming(k, out[Len(out)].bits))
InOrder(b) == Known(b) /\ Continued(b) /\ Moving(b) /\ KeyLast(b)

\* A byte that is waiting when the controller is asked for its configuration will be read
\* instead, so only what comes after the answer to that stays in order.
Fresh == pc <= 24 \/ (pc = 25 /\ Len(out) = 1) \/ (pc \in {26, 27} /\ out = <<>>)
Calm ==
    /\ pc <= 29 => mouse_cycle = 0
    /\ \A k \in 0 .. 2 : mouse_byte[k] \in {0, k + 1}
    /\ Fresh => moves = 0 /\ (early \/ Agree)
    /\ pc = 28 /\ out[1].from = "controller" => InOrder(1)
    /\ pc >= 29 => InOrder(0)

IInv == TypeOK /\ Flushed /\ (upset = {} => Pending /\ Calm)

LEMMA CalmInit == Init => Pending /\ Calm
BY DEF Init, Pending, Calm, Agree, Fresh, ToMouse, Polls
-----------------------------------------------------------------------------
\* What leaves the bytes and the handlers alone leaves the order.
LEMMA InOrderSame ==
    ASSUME NEW b \in {0, 1}, InOrder(b), UNCHANGED <<out, keyboard, mouse, user>>
    PROVE  InOrder(b)'
<1>1. /\ \A e : Moved(b, e)' <=> Moved(b, e)
      /\ \A e : InStep(b, e)' <=> InStep(b, e)
      /\ Agree' <=> Agree
      /\ \A k, c : Coming(k, c)' <=> Coming(k, c)
  BY DEF Moved, InStep, Agree, Coming, keyboard, mouse, user
<1>2. Known(b)' /\ Continued(b)'
  BY <1>1 DEF InOrder, Known, Continued, mouse
<1>3. Moving(b)' /\ KeyLast(b)'
  BY <1>1 DEF InOrder, Moving, KeyLast, user
<1>4. QED
  BY <1>2, <1>3 DEF InOrder

\* A byte that arrives changes nothing of those before it.
LEMMA Before ==
    ASSUME TypeOK, NEW b \in {0, 1}, NEW c \in Bytes, Arrives(c), b <= Len(out)
    PROVE  /\ Len(out) \in Nat /\ Len(out') = Len(out) + 1
           /\ \A e \in 0 .. Len(out) : Moved(b, e)' <=> Moved(b, e)
           /\ \A e : e = Len(out) + 1 => (Moved(b, e)' <=> Moved(b, Len(out)) /\ c.n > 0)
<1>1. /\ Len(out) \in Nat /\ Len(out') = Len(out) + 1 /\ out'[Len(out) + 1] = c
      /\ \A i \in 1 .. Len(out) : out'[i] = out[i]
  BY Arrived DEF TypeOK
<1>2. \A e \in 0 .. Len(out) : Moved(b, e)' <=> Moved(b, e)
  BY <1>1 DEF Moved
<1>3. \A e : e = Len(out) + 1 => (Moved(b, e)' <=> Moved(b, Len(out)) /\ c.n > 0)
  BY <1>1 DEF Moved
<1>4. QED
  BY <1>1, <1>2, <1>3

\* The next byte of a packet.
LEMMA InOrderMove ==
    ASSUME TypeOK, NEW b \in {0, 1}, b <= Len(out), InOrder(b), Move
    PROVE  InOrder(b)'
<1>0. Sent("mouse", {}, (moves % 3) + 1) \in Bytes
  BY DEF Sent, Bytes, Byte, TypeOK
<1>1. PICK c \in Bytes : c = Sent("mouse", {}, (moves % 3) + 1)
  BY <1>0
<1>2. /\ Arrives(c) /\ moves' = moves + 1
      /\ UNCHANGED <<keyboard, mouse, held, locked, typed, early>>
  BY <1>1 DEF Move
<1>3. FromMouse(c) /\ c.from = "mouse" /\ c.n = (moves % 3) + 1 /\ c.n > 0
  BY <1>1 DEF Sent, FromMouse, TypeOK
<1>4. PICK n : n = Len(out)
  OBVIOUS
<1>5. /\ n \in Nat /\ Len(out') = n + 1 /\ out'[n + 1] = c
      /\ \A i \in 1 .. n : out'[i] = out[i]
      /\ \A e \in 0 .. n : Moved(b, e)' <=> Moved(b, e)
      /\ Moved(b, n + 1)' <=> Moved(b, n)
  BY <1>2, <1>3, <1>4, Arrived, Before
<1>6. mouse_cycle' = mouse_cycle /\ mouse_cycle \in 0 .. 2 /\ moves \in Nat
  BY <1>2 DEF mouse, TypeOK
<1>7. Known(b)'
  BY <1>3, <1>4, <1>5 DEF InOrder, Known, FromMouse
<1>8. Moved(b, n) => moves % 3 = (mouse_cycle + n - b) % 3 /\ (early \/ Agree)
  BY <1>4 DEF InOrder, Moving, InStep
<1>9. Continued(b)'
  <2>1. SUFFICES ASSUME NEW i \in b + 1 .. n + 1, Moved(b, i)'
                 PROVE  out'[i].n = ((mouse_cycle + i - b - 1) % 3) + 1
    BY <1>5, <1>6 DEF Continued
  <2>2. CASE i <= n
    BY <1>4, <1>5, <2>1, <2>2 DEF InOrder, Continued
  <2>3. CASE i = n + 1
    <3>1. moves % 3 = (mouse_cycle + n - b) % 3
      BY <1>5, <1>8, <2>1, <2>3
    <3>2. n - b = i - b - 1
      BY <1>5, <2>3
    <3>3. QED
      BY <1>3, <1>5, <1>6, <2>3, <3>1, <3>2
  <2>4. QED
    BY <1>5, <2>2, <2>3
<1>10. Agree' <=> Agree
  BY <1>2 DEF Agree, keyboard
<1>11. Moving(b)'
  <2>1. SUFFICES ASSUME Moved(b, n + 1)'
                 PROVE  (moves + 1) % 3 = (mouse_cycle + (n + 1) - b) % 3 /\ (early \/ Agree)
    BY <1>2, <1>5, <1>6, <1>10 DEF Moving, InStep
  <2>2. moves % 3 = (mouse_cycle + n - b) % 3 /\ (early \/ Agree)
    BY <1>5, <1>8, <2>1
  <2>3. (moves + 1) % 3 = (mouse_cycle + (n + 1) - b) % 3
    BY <1>4, <1>5, <1>6, <2>2
  <2>4. QED
    BY <2>2, <2>3
<1>12. KeyLast(b)'
  BY <1>5 DEF KeyLast
<1>13. QED
  BY <1>7, <1>9, <1>11, <1>12 DEF InOrder

\* A key goes down or up, once the keyboard is on again.
LEMMA InOrderKey ==
    ASSUME TypeOK, NEW b \in {0, 1}, b <= Len(out), InOrder(b), pc >= 27,
           NEW k \in Keys, Key(k)
    PROVE  InOrder(b)'
<1> DEFINE down == k \notin held
           code == IF down THEN Code[k] ELSE Code[k] \cup {Released}
<1>0. Sent("keyboard", code, 0) \in Bytes
  <2>1. Code[k] \in Byte /\ Code[k] \cup {Released} \in Byte
    BY Ps2Assumption DEF Byte, Released
  <2>2. QED
    BY <2>1 DEF Sent, Bytes
<1>1. PICK c \in Bytes : c = Sent("keyboard", code, 0)
  BY <1>0
<1>2. /\ Arrives(c) /\ UNCHANGED <<keyboard, mouse, moves>>
      /\ held' = IF down THEN held \cup {k} ELSE held \ {k}
      /\ locked' = IF k = Caps /\ down THEN ~locked ELSE locked
      /\ typed' = IF k = Letter /\ down
                  THEN Append(typed, IF Shift \in held \/ locked THEN "upper" ELSE "lower")
                  ELSE typed
      /\ early' = early
  <2>1. Past("AE")
    BY Passed
  <2>2. QED
    BY <1>1, <2>1 DEF Key, TypeOK
<1>3. /\ c.from = "keyboard" /\ ~FromMouse(c) /\ c.n = 0
      /\ c.bits = IF down THEN Code[k] ELSE Code[k] \cup {Released}
  BY <1>1 DEF Sent, FromMouse
<1> HIDE DEF code
<1>4. PICK n : n = Len(out)
  OBVIOUS
<1>5. /\ n \in Nat /\ Len(out') = n + 1 /\ out'[n + 1] = c
      /\ \A i \in 1 .. n : out'[i] = out[i]
      /\ \A e \in 0 .. n : Moved(b, e)' <=> Moved(b, e)
      /\ ~Moved(b, n + 1)'
  BY <1>2, <1>3, <1>4, Arrived, Before
<1>6. mouse_cycle' = mouse_cycle /\ mouse_cycle \in 0 .. 2 /\ moves \in Nat /\ moves' = moves
  BY <1>2 DEF mouse, TypeOK
<1>7. Known(b)'
  BY <1>3, <1>4, <1>5 DEF InOrder, Known, FromMouse
<1>8. Continued(b)'
  <2>1. SUFFICES ASSUME NEW i \in b + 1 .. n + 1, Moved(b, i)'
                 PROVE  out'[i].n = ((mouse_cycle + i - b - 1) % 3) + 1
    BY <1>5, <1>6 DEF Continued
  <2>2. i # n + 1
    BY <1>5, <2>1
  <2>3. QED
    BY <1>4, <1>5, <2>1, <2>2 DEF InOrder, Continued
<1>9. Moving(b)'
  BY <1>5 DEF Moving
<1>10. KeyLast(b)'
  <2>1. SUFFICES ASSUME Moved(b, n)
                 PROVE  /\ moves % 3 = (mouse_cycle + n - b) % 3
                        /\ early \/ \E j \in Keys : Coming(j, c.bits)'
    <3>1. Len(out') - 1 = n
      BY <1>5
    <3>2. (\E j \in Keys : Coming(j, c.bits)') => (\E j \in Keys : Coming(j, out[Len(out)].bits)')
      BY <1>5 DEF Coming
    <3>3. Moved(b, n)' <=> Moved(b, n)
      BY <1>4, <1>5
    <3>4. QED
      BY <1>2, <1>5, <1>6, <3>1, <3>2, <3>3 DEF KeyLast, InStep
  <2>2. moves % 3 = (mouse_cycle + n - b) % 3 /\ (early \/ Agree)
    BY <1>4, <2>1 DEF InOrder, Moving, InStep
  <2>3. ASSUME Agree PROVE Coming(k, c.bits)'
    <3>1. c.bits = IF k \in held' THEN Code[k] ELSE Code[k] \cup {Released}
      BY <1>2, <1>3
    <3>2. k # Shift => (caps_on' <=> Shift \in held')
      BY <1>2, <2>3 DEF Agree, keyboard
    <3>3. capslock' <=> IF k = Caps /\ k \in held' THEN ~locked' ELSE locked'
      BY <1>2, <2>3 DEF Agree, keyboard, TypeOK
    <3>4. typed' = IF k = Letter /\ k \in held'
                   THEN Append(heard', IF caps_on' \/ capslock' THEN "upper" ELSE "lower")
                   ELSE heard'
      <4>1. caps_on' \/ capslock' <=> Shift \in held \/ locked
        BY <1>2, <2>3 DEF Agree, keyboard
      <4>2. typed' = IF k = Letter /\ k \in held'
                     THEN Append(typed, IF Shift \in held \/ locked THEN "upper" ELSE "lower")
                     ELSE typed
        BY <1>2
      <4>3. heard' = typed
        BY <1>2, <2>3 DEF Agree, keyboard
      <4>4. QED
        BY <4>1, <4>2, <4>3
    <3>5. QED
      BY <3>1, <3>2, <3>3, <3>4 DEF Coming
  <2>4. QED
    BY <2>2, <2>3
<1>11. QED
  BY <1>7, <1>8, <1>9, <1>10 DEF InOrder

\* The same bytes are one place nearer when one is read.
LEMMA Behind ==
    ASSUME TypeOK, out # <<>>, out' = AfterReads(1)
    PROVE  \A e \in 0 .. Len(out) - 1 : Moved(0, e)' <=> Moved(1, e + 1)
<1>0. Len(out) >= 1 /\ Len(out') = Len(out) - 1 /\ Len(out) \in Nat
  BY Taken DEF TypeOK
<1>1. PICK n \in Nat : n = Len(out') /\ n + 1 = Len(out)
  <2>1. Len(out) - 1 \in Nat /\ (Len(out) - 1) + 1 = Len(out)
    BY <1>0
  <2>2. QED
    BY <1>0, <2>1
<1>2. \A i \in 1 .. n : out'[i] = out[i + 1]
  BY <1>1, Taken
<1>3. \A e \in 0 .. n : Moved(0, e)' <=> Moved(1, e + 1)
  <2>1. SUFFICES ASSUME NEW e \in 0 .. n PROVE Moved(0, e)' <=> Moved(1, e + 1)
    OBVIOUS
  <2>2. (\A i \in 1 .. e : out'[i].n > 0) <=> \A i \in 2 .. e + 1 : out[i].n > 0
    <3>1. ASSUME \A i \in 1 .. e : out'[i].n > 0, NEW i \in 2 .. e + 1
          PROVE  out[i].n > 0
      <4>1. i - 1 \in 1 .. e /\ i - 1 \in 1 .. n /\ (i - 1) + 1 = i
        BY <1>1, <2>1, <3>1
      <4>2. out'[i - 1] = out[i]
        BY <1>2, <4>1
      <4>3. QED
        BY <3>1, <4>1, <4>2
    <3>2. ASSUME \A i \in 2 .. e + 1 : out[i].n > 0, NEW i \in 1 .. e
          PROVE  out'[i].n > 0
      BY <1>1, <1>2, <2>1, <3>2
    <3>3. QED
      BY <3>1, <3>2
  <2>3. QED
    BY <2>2 DEF Moved
<1>4. QED
  BY <1>1, <1>3

\* The answer is read, and what has come behind it stays in order.
LEMMA InOrderAnswered ==
    ASSUME TypeOK, InOrder(1), out # <<>>, out' = AfterReads(1),
           UNCHANGED <<keyboard, mouse, user>>
    PROVE  InOrder(0)'
<1>0. Len(out) >= 1 /\ Len(out') = Len(out) - 1 /\ Len(out) \in Nat
  BY Taken DEF TypeOK
<1>1. PICK n \in Nat : n = Len(out') /\ n + 1 = Len(out)
  <2>1. Len(out) - 1 \in Nat /\ (Len(out) - 1) + 1 = Len(out)
    BY <1>0
  <2>2. QED
    BY <1>0, <2>1
<1>2. \A i \in 1 .. n : out'[i] = out[i + 1]
  BY <1>1, Taken
<1>3. \A e \in 0 .. n : Moved(0, e)' <=> Moved(1, e + 1)
  BY <1>1, Behind
<1>4. /\ UNCHANGED <<mouse_cycle, moves, early>> /\ (Agree' <=> Agree)
      /\ \A k, c : Coming(k, c)' <=> Coming(k, c)
      /\ mouse_cycle \in 0 .. 2 /\ moves \in Nat
  BY DEF keyboard, mouse, user, Agree, Coming, TypeOK
<1>5. Known(0)'
  BY <1>1, <1>2 DEF InOrder, Known, FromMouse
<1>6. Continued(0)'
  <2>1. SUFFICES ASSUME NEW i \in 1 .. n, Moved(0, i)'
                 PROVE  out'[i].n = ((mouse_cycle + i - 1) % 3) + 1
    BY <1>1, <1>4 DEF Continued
  <2>2. i + 1 \in 2 .. Len(out) /\ Moved(1, i + 1) /\ out'[i] = out[i + 1]
    BY <1>1, <1>2, <1>3, <2>1
  <2>3. out[i + 1].n = ((mouse_cycle + (i + 1) - 1 - 1) % 3) + 1
    BY <2>2 DEF InOrder, Continued
  <2>4. mouse_cycle + (i + 1) - 1 - 1 = mouse_cycle + i - 1
    BY <1>4, <2>1
  <2>5. QED
    BY <2>2, <2>3, <2>4
<1>7. Moving(0)'
  <2>1. SUFFICES ASSUME Moved(1, n + 1)
                 PROVE  moves % 3 = (mouse_cycle + n) % 3 /\ (early \/ Agree)
    BY <1>1, <1>3, <1>4 DEF Moving, InStep
  <2>2. InStep(1, n + 1) /\ (early \/ Agree)
    BY <1>1, <2>1 DEF InOrder, Moving
  <2>3. mouse_cycle + (n + 1) - 1 = mouse_cycle + n
    BY <1>1, <1>4
  <2>4. QED
    BY <2>2, <2>3 DEF InStep
<1>8. KeyLast(0)'
  <2>1. SUFFICES ASSUME n > 0, Moved(1, n), ~Moved(1, n + 1)
                 PROVE  /\ moves % 3 = (mouse_cycle + (n - 1)) % 3
                        /\ early \/ \E k \in Keys : Coming(k, out'[n].bits)
    <3>1. n > 0 => (Moved(0, n - 1)' <=> Moved(1, n)) /\ (Moved(0, n)' <=> Moved(1, n + 1))
      BY <1>1, <1>3
    <3>2. \A c : (\E k \in Keys : Coming(k, c)) <=> (\E k \in Keys : Coming(k, c)')
      BY <1>4
    <3>3. (\E k \in Keys : Coming(k, out'[n].bits)) => (\E k \in Keys : Coming(k, out[Len(out)].bits)')
      BY <1>1, <3>2 DEF Coming
    <3>4. QED
      BY <1>1, <1>4, <3>1, <3>3 DEF KeyLast, InStep
  <2>2. InStep(1, n) /\ (early \/ \E k \in Keys : Coming(k, out[n + 1].bits))
    BY <1>1, <2>1 DEF InOrder, KeyLast
  <2>3. mouse_cycle + n - 1 = mouse_cycle + (n - 1) /\ out'[n] = out[n + 1]
    BY <1>1, <1>2, <1>4, <2>1
  <2>4. QED
    BY <2>2, <2>3 DEF InStep
<1>9. QED
  BY <1>5, <1>6, <1>7, <1>8 DEF InOrder

\* mouse_handler (mouse.c 62-71) stores the byte of a move at its place.
LEMMA InOrderMouse ==
    ASSUME TypeOK, InOrder(0), MouseHandler, out # <<>>, FromMouse(out[1])
    PROVE  /\ InOrder(0)'
           /\ (\A k \in 0 .. 2 : mouse_byte[k] \in {0, k + 1})
                => \A k \in 0 .. 2 : mouse_byte'[k] \in {0, k + 1}
<1>0. Len(out) >= 1 /\ Len(out') = Len(out) - 1 /\ Len(out) \in Nat /\ out' = AfterReads(1)
  BY Taken DEF TypeOK, MouseHandler
<1>1. PICK n \in Nat : n = Len(out') /\ n + 1 = Len(out)
  <2>1. Len(out) - 1 \in Nat /\ (Len(out) - 1) + 1 = Len(out)
    BY <1>0
  <2>2. QED
    BY <1>0, <2>1
<1>2. \A i \in 1 .. n : out'[i] = out[i + 1]
  BY <1>0, <1>1, Taken
<1>3. out[1].n > 0 /\ out[1].n = mouse_cycle + 1 /\ mouse_cycle \in 0 .. 2 /\ moves \in Nat
  <2>1. out[1].n > 0
    BY <1>0 DEF InOrder, Known
  <2>2. Moved(0, 1)
    BY <2>1 DEF Moved
  <2>3. out[1].n = ((mouse_cycle + 1 - 0 - 1) % 3) + 1
    BY <1>0, <2>2 DEF InOrder, Continued
  <2>4. mouse_cycle \in 0 .. 2 /\ moves \in Nat
    BY DEF TypeOK
  <2>5. (mouse_cycle + 1 - 0 - 1) % 3 = mouse_cycle
    BY <2>4
  <2>6. QED
    BY <2>1, <2>3, <2>4, <2>5
<1>4. /\ mouse_byte' = [mouse_byte EXCEPT ![mouse_cycle] = mouse_cycle + 1]
      /\ mouse_cycle' = IF mouse_cycle = 2 THEN 0 ELSE mouse_cycle + 1
  BY <1>3 DEF MouseHandler, PacketLength
<1>5. \A e \in 0 .. n : Moved(0, e)' <=> Moved(0, e + 1)
  <2>1. \A e \in 0 .. n : Moved(0, e)' <=> Moved(1, e + 1)
    BY <1>0, <1>1, Behind
  <2>2. \A e \in 0 .. n : Moved(1, e + 1) <=> Moved(0, e + 1)
    BY <1>1, <1>3 DEF Moved
  <2>3. QED
    BY <2>1, <2>2
<1>6. /\ UNCHANGED <<moves, early>> /\ (Agree' <=> Agree)
      /\ \A k, c : Coming(k, c)' <=> Coming(k, c)
  BY DEF MouseHandler, keyboard, user, Agree, Coming
<1>7. \A e \in 0 .. n : (mouse_cycle' + e) % 3 = (mouse_cycle + e + 1) % 3
  BY <1>1, <1>3, <1>4
<1>8. Known(0)'
  BY <1>1, <1>2 DEF InOrder, Known, FromMouse
<1>9. Continued(0)'
  <2>1. SUFFICES ASSUME NEW i \in 1 .. n, Moved(0, i)'
                 PROVE  out'[i].n = ((mouse_cycle' + i - 1) % 3) + 1
    BY <1>1, <1>3, <1>4 DEF Continued
  <2>2. i + 1 \in 1 .. Len(out) /\ Moved(0, i + 1) /\ out'[i] = out[i + 1]
    BY <1>1, <1>2, <1>5, <2>1
  <2>3. out[i + 1].n = ((mouse_cycle + (i + 1) - 0 - 1) % 3) + 1
    BY <2>2 DEF InOrder, Continued
  <2>4. (mouse_cycle' + (i - 1)) % 3 = (mouse_cycle + (i - 1) + 1) % 3
    BY <1>1, <1>7, <2>1
  <2>5. mouse_cycle' + (i - 1) = mouse_cycle' + i - 1
        /\ mouse_cycle + (i - 1) + 1 = mouse_cycle + (i + 1) - 0 - 1
    BY <1>3, <1>4, <2>1
  <2>6. QED
    BY <2>2, <2>3, <2>4, <2>5
<1>10. Moving(0)'
  <2>1. SUFFICES ASSUME Moved(0, n + 1)
                 PROVE  moves % 3 = (mouse_cycle' + n) % 3 /\ (early \/ Agree)
    <3>1. mouse_cycle' + n - 0 = mouse_cycle' + n /\ n \in 0 .. n
      BY <1>1, <1>3, <1>4
    <3>2. Moved(0, n)' => Moved(0, n + 1)
      BY <1>5, <3>1
    <3>3. QED
      BY <1>1, <1>6, <3>1, <3>2 DEF Moving, InStep
  <2>2. InStep(0, n + 1) /\ (early \/ Agree)
    BY <1>1, <2>1 DEF InOrder, Moving
  <2>3. (mouse_cycle' + n) % 3 = (mouse_cycle + (n + 1) - 0) % 3
    <3>1. mouse_cycle + (n + 1) - 0 = mouse_cycle + n + 1 /\ n \in 0 .. n
      BY <1>1, <1>3
    <3>2. QED
      BY <1>7, <3>1
  <2>4. QED
    BY <2>2, <2>3 DEF InStep
<1>11. KeyLast(0)'
  <2>1. SUFFICES ASSUME n > 0, Moved(0, n), ~Moved(0, n + 1)
                 PROVE  /\ moves % 3 = (mouse_cycle' + (n - 1)) % 3
                        /\ early \/ \E k \in Keys : Coming(k, out'[n].bits)
    <3>1. n > 0 => (Moved(0, n - 1)' <=> Moved(0, n)) /\ (Moved(0, n)' <=> Moved(0, n + 1))
      BY <1>1, <1>5
    <3>2. \A c : (\E k \in Keys : Coming(k, c)) <=> (\E k \in Keys : Coming(k, c)')
      BY <1>6
    <3>3. (\E k \in Keys : Coming(k, out'[n].bits)) => (\E k \in Keys : Coming(k, out[Len(out)].bits)')
      BY <1>1, <3>2 DEF Coming
    <3>4. (mouse_cycle' + (n - 1)) - 0 = mouse_cycle' + (n - 1)
      BY <1>1, <1>3, <1>4
    <3>5. PICK d \in 0 .. 2 : d = mouse_cycle'
      BY <1>3, <1>4
    <3>6. SUFFICES ASSUME n > 0, Moved(0, n - 1)', ~Moved(0, n)'
                   PROVE  /\ moves' % 3 = (d + (n - 1) - 0) % 3
                          /\ early' \/ \E k \in Keys : Coming(k, out[Len(out)].bits)'
      BY <1>1, <3>5 DEF KeyLast, InStep
    <3>7. Moved(0, n) /\ ~Moved(0, n + 1)
      BY <3>1, <3>6
    <3>8. moves % 3 = (d + (n - 1)) % 3 /\ (early \/ \E k \in Keys : Coming(k, out'[n].bits))
      BY <2>1, <3>5, <3>6, <3>7
    <3>9. QED
      BY <1>6, <3>3, <3>4, <3>5, <3>8
  <2>2. InStep(0, n) /\ (early \/ \E k \in Keys : Coming(k, out[n + 1].bits))
    BY <1>1, <2>1 DEF InOrder, KeyLast
  <2>3. (mouse_cycle' + (n - 1)) % 3 = (mouse_cycle + n - 0) % 3 /\ out'[n] = out[n + 1]
    <3>1. mouse_cycle + (n - 1) + 1 = mouse_cycle + n - 0 /\ n - 1 \in 0 .. n /\ n \in 1 .. n
      BY <1>1, <1>3, <2>1
    <3>2. QED
      BY <1>2, <1>7, <3>1
  <2>4. QED
    BY <2>2, <2>3 DEF InStep
<1>12. ASSUME \A k \in 0 .. 2 : mouse_byte[k] \in {0, k + 1}, NEW k \in 0 .. 2
       PROVE  mouse_byte'[k] \in {0, k + 1}
  BY <1>3, <1>4, <1>12 DEF TypeOK
<1>13. QED
  BY <1>8, <1>9, <1>10, <1>11, <1>12 DEF InOrder

\* keyboard_irq (keyboard.c 53-101): the code that is there is the key's, and read again
\* it is the same byte.
LEMMA InOrderKeyboard ==
    ASSUME TypeOK, InOrder(0), KeyboardHandler, Len(out) = 1, ~FromMouse(out[1])
    PROVE  InOrder(0)'
<1>1. Read(1) = out[1].bits /\ Read(2) = out[1].bits /\ AfterReads(2) = <<>>
  BY Reads
<1>2. /\ out' = <<>> /\ Len(out') = 0 /\ UNCHANGED <<mouse_cycle, held, locked, typed, early, moves>>
      /\ mouse_cycle \in 0 .. 2 /\ moves \in Nat
  BY <1>1 DEF KeyboardHandler, mouse, user, TypeOK
<1>3. Moved(0, 0) /\ ~Moved(0, 1)
  <2>1. ~(out[1].n > 0)
    BY DEF InOrder, Known
  <2>2. QED
    BY <2>1 DEF Moved
<1>4. InStep(0, 0) /\ (early \/ \E k \in Keys : Coming(k, out[1].bits))
  BY <1>3 DEF InOrder, KeyLast
<1>5. ASSUME ~early PROVE Agree'
  <2>1. PICK k \in Keys : Coming(k, out[1].bits)
    BY <1>4, <1>5
  <2>2. PICK code : code = Read(1) \ {Released}
    OBVIOUS
  <2>3. PICK pressed \in BOOLEAN : pressed <=> Released \notin Read(2)
    OBVIOUS
  <2>4. /\ caps_on' = IF code = Code[Shift] THEN pressed ELSE caps_on
        /\ capslock' = IF code = Code[Caps] /\ pressed THEN ~capslock ELSE capslock
        /\ heard' = IF code = Code[Letter] /\ pressed
                    THEN Append(heard, IF caps_on \/ capslock THEN "upper" ELSE "lower")
                    ELSE heard
    BY <2>2, <2>3 DEF KeyboardHandler, ShiftHeld
  <2>5. code = Code[k] /\ (pressed <=> k \in held)
    <3>1. Code[k] \subseteq 0 .. 6 /\ Released \notin 0 .. 6
      BY Ps2Assumption DEF Released
    <3>2. QED
      BY <1>1, <2>1, <2>2, <2>3, <3>1 DEF Coming
  <2>6. \A j \in Keys : code = Code[j] <=> j = k
    BY <2>5, Ps2Assumption
  <2>7. Shift \in Keys /\ Caps \in Keys /\ Letter \in Keys
    BY DEF Keys
  <2>8. caps_on' <=> Shift \in held'
    BY <1>2, <2>1, <2>4, <2>5, <2>6, <2>7 DEF Coming, TypeOK
  <2>9. capslock' <=> locked'
    BY <1>2, <2>1, <2>4, <2>5, <2>6, <2>7 DEF Coming, TypeOK
  <2>10. heard' = typed'
    BY <1>2, <2>1, <2>4, <2>5, <2>6, <2>7 DEF Coming
  <2>11. QED
    BY <2>8, <2>9, <2>10 DEF Agree
<1>6. Known(0)' /\ Continued(0)' /\ KeyLast(0)'
  BY <1>2 DEF Known, Continued, KeyLast
<1>7. Moving(0)'
  BY <1>2, <1>4, <1>5 DEF Moving, InStep
<1>8. QED
  BY <1>6, <1>7 DEF InOrder
-----------------------------------------------------------------------------
\* The invariant holds while nothing goes wrong, one action at a time.
LEMMA CalmConfigures ==
    ASSUME TypeOK, Pending, Calm,
           \/ Configure("AD", config \cup {KeyOff}) \/ Configure("A7", config \cup {MouseOff})
           \/ Configure("60", status \cup {KeyIrq, MouseIrq})
           \/ Configure("A8", config \ {MouseOff}) \/ Configure("AE", config \ {KeyOff})
    PROVE  Pending' /\ Calm'
<1>1. PICK s \in {"AD", "A7", "60", "A8", "AE"} :
         AtStep(s) /\ UNCHANGED <<out, last, irq1, irq12, status, keyboard, mouse, user>>
  BY DEF Configure
<1>2. pc \in {1, 2, 6, 7, 26} /\ pc' = pc + 1
  BY <1>1, Place, Steps
<1>3. Pending'
  BY <1>1, <1>2 DEF Pending, ToMouse, Polls
<1>4. (early' \/ Agree') <=> (early \/ Agree)
  BY <1>1 DEF Agree, keyboard, user
<1>5. Calm'
  BY <1>1, <1>2, <1>4 DEF Calm, Fresh, mouse, user
<1>6. QED
  BY <1>3, <1>5

\* The answer comes behind whatever waits: with a byte there, that is read instead.
LEMMA CalmAsk ==
    ASSUME TypeOK, Installing, Pending, Calm, TypeOK', AskConfiguration
    PROVE  Pending' /\ Calm'
<1>1. AtStep("20") /\ UNCHANGED <<keyboard, mouse, user>>
  BY DEF AskConfiguration
<1>2. pc \in {4, 8, 27} /\ pc' = pc + 1
  BY <1>1, Place, Steps
<1>3. Sent("controller", config, 0) \in Bytes
  BY DEF Sent, Bytes, TypeOK
<1>4. PICK c \in Bytes : c = Sent("controller", config, 0)
  BY <1>3
<1>5. /\ c.from = "controller" /\ ~FromMouse(c) /\ Len(out) \in Nat
      /\ Len(out') = Len(out) + 1 /\ out' # <<>> /\ out'[Len(out) + 1] = c
      /\ \A i \in 1 .. Len(out) : out'[i] = out[i]
  BY <1>4, Arrived DEF AskConfiguration, Sent, FromMouse, TypeOK
<1>6. (early' \/ Agree') <=> (early \/ Agree)
  BY <1>1 DEF Agree, keyboard, user
<1>7. CASE pc # 27
  <2>1. Len(out') = 1
    BY <1>2, <1>5, <1>7 DEF Pending, Installing, ToMouse, Polls
  <2>2. Pending'
    BY <1>2, <1>7, <2>1 DEF Pending, ToMouse, Polls
  <2>3. Calm'
    BY <1>1, <1>2, <1>6, <1>7 DEF Calm, Fresh, mouse, user
  <2>4. QED
    BY <2>2, <2>3
<1>8. CASE pc = 27
  <2>1. Pending'
    <3>1. \A i \in 1 .. Len(out') : FromMouse(out'[i]) => out'[i].n > 0
      BY <1>5, <1>8 DEF Pending, FromMouse, ToMouse, Polls
    <3>2. \A i \in 1 .. Len(out') : FromMouse(out'[i]) <=> FromMouse(out[i])'
      BY DEF FromMouse
    <3>3. QED
      BY <1>2, <1>5, <1>8, <3>1, <3>2 DEF Pending, ToMouse, Polls
  <2>2. CASE out = <<>>
    <3>1. Len(out') = 1 /\ mouse_cycle' = 0 /\ moves' = 0 /\ (early' \/ Agree')
      BY <1>1, <1>5, <1>6, <1>8, <2>2 DEF Calm, Fresh, mouse, user
    <3>2. \A b \in {0, 1} : Len(out') = b => InOrder(b)'
      <4>1. SUFFICES ASSUME NEW b \in {0, 1}, Len(out') = b PROVE InOrder(b)'
        OBVIOUS
      <4>2. Len(out') \in Nat /\ ~(Len(out') > b) /\ b + 1 .. Len(out') = {}
        BY <1>5, <4>1
      <4>3. Known(b)' /\ Continued(b)' /\ KeyLast(b)'
        BY <4>2 DEF Known, Continued, KeyLast
      <4>4. Moving(b)'
        BY <3>1, <4>1 DEF Moving, InStep
      <4>5. QED
        BY <4>3, <4>4 DEF InOrder
    <3>3. InOrder(1)'
      BY <3>1, <3>2
    <3>4. QED
      BY <1>1, <1>2, <1>8, <2>1, <3>1, <3>3 DEF Calm, Fresh, mouse
  <2>3. CASE out # <<>>
    <3>1. out'[1].from # "controller"
      <4>1. 1 \in 1 .. Len(out)
        BY <1>5, <2>3 DEF TypeOK
      <4>2. QED
        BY <1>5, <1>8, <4>1 DEF Pending, ToMouse, Polls
    <3>2. QED
      BY <1>1, <1>2, <1>8, <2>1, <3>1 DEF Calm, Fresh, mouse
  <2>4. QED
    BY <2>2, <2>3
<1>9. QED
  BY <1>7, <1>8

LEMMA CalmSend ==
    ASSUME TypeOK, Pending, Calm, SendToMouse
    PROVE  Pending' /\ Calm'
<1>1. AtStep("aux") /\ UNCHANGED <<keyboard, mouse, user>>
  BY DEF SendToMouse
<1>2. pc \in ToMouse /\ pc' = pc + 1
  BY <1>1, Place, Steps
<1>3. Sent("mouse", Ack, 0) \in Bytes
  BY DEF Sent, Bytes, Ack, Byte
<1>4. PICK c \in Bytes : c = Sent("mouse", Ack, 0)
  BY <1>3
<1>5. c.from = "mouse" /\ Len(out') = Len(out) + 1 /\ out' # <<>> /\ out'[Len(out) + 1] = c
  BY <1>4, Arrived DEF SendToMouse, Sent
<1>6. Len(out) = 0 /\ Len(out') = 1 /\ out'[1] = c
  BY <1>2, <1>5 DEF Pending, ToMouse, Polls
<1>7. Pending'
  BY <1>2, <1>5, <1>6 DEF Pending, ToMouse, Polls
<1>8. (early' \/ Agree') <=> (early \/ Agree)
  BY <1>1 DEF Agree, keyboard, user
<1>9. Calm'
  BY <1>1, <1>2, <1>8 DEF Calm, Fresh, ToMouse, mouse, user
<1>10. QED
  BY <1>7, <1>9

LEMMA CalmPoll ==
    ASSUME TypeOK, Installing, Pending, Calm, upset' = {},
           Poll("flush") \/ Poll("status") \/ Poll("read")
    PROVE  Pending' /\ Calm'
<1>1. PICK s \in {"flush", "status", "read"} : Poll(s)
  OBVIOUS
<1>2. AtStep(s) /\ out' = AfterReads(1) /\ UNCHANGED <<keyboard, mouse, user>>
  BY <1>1 DEF Poll
<1>3. /\ pc \in Polls \cup {3, 5} /\ pc' = pc + 1
      /\ s = "flush" <=> pc = 3
  <2>1. pc \in 1 .. 29 /\ pc' = pc + 1 /\ Install[pc] = s
    BY <1>2, Place
  <2>2. QED
    BY <2>1, Steps
<1>4. Len(out) \in Nat /\ (Len(out) <= 1 => out' = <<>>)
  BY <1>2, Reads DEF TypeOK
<1>5. (early' \/ Agree') <=> (early \/ Agree)
  BY <1>2 DEF Agree, keyboard, user
<1>6. CASE pc \notin {25, 28}
  <2>1. Pending'
    <3>1. CASE pc = 3
      BY <1>3, <3>1 DEF Pending, ToMouse, Polls
    <3>2. CASE pc = 5
      <4>1. Len(out) = 1
        BY <3>2 DEF Installing
      <4>2. pc' = 6 /\ out' = <<>>
        BY <1>3, <1>4, <3>2, <4>1
      <4>3. 6 \notin Polls
        BY DEF Polls
      <4>4. QED
        BY <4>2, <4>3 DEF Pending
    <3>3. CASE pc \in Polls
      <4>1. Len(out) = 1
        BY <1>6, <3>3 DEF Pending
      <4>2. out' = <<>>
        BY <1>4, <4>1
      <4>3. pc' \in ToMouse
        BY <1>3, <1>6, <3>3 DEF Polls, ToMouse
      <4>4. \A n \in ToMouse : n \notin Polls /\ n \notin 25 .. 28
        <5>1. \A n \in ToMouse : n \in 10 .. 25 /\ n % 2 = 0
          BY DEF ToMouse
        <5>2. \A n \in Polls : n = 9 \/ n = 28 \/ n % 2 = 1
          BY DEF Polls
        <5>3. \A n \in 25 .. 28 : n \notin 10 .. 25 \/ n % 2 = 1
          OBVIOUS
        <5>4. QED
          BY <5>1, <5>2, <5>3
      <4>5. QED
        BY <4>2, <4>3, <4>4 DEF Pending
    <3>4. QED
      BY <1>3, <3>1, <3>2, <3>3
  <2>2. pc \in 3 .. 23 /\ pc' \in 4 .. 24
    BY <1>3, <1>6 DEF Polls
  <2>3. Calm'
    BY <1>2, <1>5, <2>2 DEF Calm, Fresh, mouse, user
  <2>4. QED
    BY <2>1, <2>3
<1>7. CASE pc = 25
  <2>1. out # <<>>
    BY <1>7 DEF Pending, ToMouse, Polls
  <2>2. /\ Len(out') = Len(out) - 1 /\ Len(out') \in Nat
        /\ \A i \in 1 .. Len(out') : out'[i] = out[i + 1] /\ i + 1 \in 2 .. Len(out)
    BY <1>2, <1>4, <2>1, Taken
  <2>3. pc' = 26
    BY <1>3, <1>7
  <2>4. \A i \in 1 .. Len(out') : out'[i].from # "controller"
    BY <1>7, <2>2 DEF Pending, ToMouse, Polls
  <2>5. \A i \in 1 .. Len(out') : FromMouse(out[i])' => out'[i].n > 0
    <3>1. \A i \in 2 .. Len(out) : FromMouse(out[i]) => out[i].n > 0
      BY <1>7 DEF Pending, ToMouse, Polls
    <3>2. QED
      BY <2>2, <3>1 DEF FromMouse
  <2>6. Pending'
    BY <2>3, <2>4, <2>5 DEF Pending, ToMouse, Polls
  <2>7. out' = <<>> => Len(out) = 1
    BY <1>4, <2>2
  <2>8. Calm'
    BY <1>2, <1>5, <1>7, <2>3, <2>7 DEF Calm, Fresh, mouse, user
  <2>9. QED
    BY <2>6, <2>8
<1>8. CASE pc = 28
  <2>1. out # <<>> /\ ~Unasked(out[1])
    <3>1. out # <<>> /\ s # "flush"
      BY <1>3, <1>8 DEF Pending, ToMouse, Polls
    <3>2. QED
      BY <1>1, <3>1 DEF Poll, Upset
  <2>2. out[1].from = "controller"
    <3>1. out[1].from # "keyboard" /\ ~(out[1].n > 0) /\ out[1] \in Bytes
      BY <2>1 DEF Unasked, TypeOK
    <3>2. out[1].from # "mouse"
      <4>1. 1 \in 1 .. Len(out)
        BY <1>4, <2>1 DEF TypeOK
      <4>2. FromMouse(out[1]) => out[1].n > 0 \/ pc = 25
        BY <1>8, <4>1 DEF Pending, ToMouse, Polls
      <4>3. QED
        BY <1>8, <3>1, <4>2 DEF FromMouse
    <3>3. QED
      BY <3>1, <3>2 DEF Bytes
  <2>3. InOrder(0)'
    BY <1>2, <1>8, <2>1, <2>2, InOrderAnswered DEF Calm
  <2>4. pc' = 29
    BY <1>3, <1>8
  <2>5. Pending'
    BY <2>4 DEF Pending, ToMouse, Polls
  <2>6. Calm'
    BY <1>2, <1>8, <2>3, <2>4 DEF Calm, Fresh, mouse
  <2>7. QED
    BY <2>5, <2>6
<1>9. QED
  BY <1>6, <1>7, <1>8

LEMMA CalmEnable ==
    ASSUME TypeOK, Pending, Calm, EnableInterrupts
    PROVE  Pending' /\ Calm'
<1>1. AtStep("sti") /\ UNCHANGED <<controller, keyboard, mouse, user>>
  BY DEF EnableInterrupts
<1>2. pc = 29 /\ pc' = 30
  BY <1>1, Place, Steps
<1>3. InOrder(0)'
  BY <1>1, <1>2, InOrderSame DEF Calm, controller
<1>4. QED
  BY <1>1, <1>2, <1>3 DEF Pending, Calm, Fresh, mouse, ToMouse, Polls

\* A key, while the keyboard's clock is on.
LEMMA CalmKey ==
    ASSUME TypeOK, Installing, Pending, Calm, NEW k \in Keys, Key(k)
    PROVE  Pending' /\ Calm'
<1> DEFINE code == IF k \notin held THEN Code[k] ELSE Code[k] \cup {Released}
<1>0. Sent("keyboard", code, 0) \in Bytes
  <2>1. Code[k] \in Byte /\ Code[k] \cup {Released} \in Byte
    BY Ps2Assumption DEF Byte, Released
  <2>2. QED
    BY <2>1 DEF Sent, Bytes
<1>1. PICK c \in Bytes : c = Sent("keyboard", code, 0)
  BY <1>0
<1>2. Arrives(c) /\ UNCHANGED <<pc, keyboard, mouse, moves>> /\ KeyOff \notin config
  BY <1>1 DEF Key, Wired
<1>3. /\ c.from = "keyboard" /\ ~FromMouse(c) /\ Len(out) \in Nat
      /\ Len(out') = Len(out) + 1 /\ out' # <<>> /\ out'[Len(out) + 1] = c
      /\ \A i \in 1 .. Len(out) : out'[i] = out[i]
  BY <1>1, <1>2, Arrived DEF Sent, FromMouse, TypeOK
<1>4. pc = 1 \/ pc \in 27 .. 30
  <2>1. ~(pc \in 2 .. 26) /\ pc \in 1 .. 30
    BY <1>2 DEF Installing, TypeOK
  <2>2. QED
    BY <2>1
<1>5. Pending'
  <2>1. CASE pc \in {1, 29, 30}
    BY <1>2, <2>1 DEF Pending, ToMouse, Polls
  <2>2. CASE pc \in {27, 28}
    <3>1. \A i \in 1 .. Len(out') : FromMouse(out[i])' => out'[i].n > 0
      BY <1>3, <2>2 DEF Pending, FromMouse
    <3>2. pc = 27 => \A i \in 1 .. Len(out') : out'[i].from # "controller"
      BY <1>3, <2>2 DEF Pending
    <3>3. QED
      BY <1>2, <1>3, <2>2, <3>1, <3>2 DEF Pending, ToMouse, Polls
  <2>3. QED
    BY <1>4, <2>1, <2>2
<1>6. CASE pc = 1
  <2>1. moves' = 0 /\ (early' \/ Agree')
    <3>1. ~Past("AE")
      BY <1>6, Passed
    <3>2. early' = (early \/ k # Letter) /\ typed' = typed
      BY <3>1 DEF Key
    <3>3. moves = 0 /\ (early \/ Agree)
      BY <1>6 DEF Calm, Fresh
    <3>4. ASSUME ~early, k = Letter PROVE Agree'
      <4>1. locked' = locked /\ (Shift \in held' <=> Shift \in held)
        BY <3>4, Ps2Assumption DEF Key
      <4>2. QED
        BY <1>2, <3>2, <3>3, <3>4, <4>1 DEF Agree, keyboard
    <3>5. early' \/ Agree'
      BY <3>2, <3>4
    <3>6. QED
      BY <1>2, <3>3, <3>5
  <2>2. QED
    BY <1>2, <1>5, <1>6, <2>1 DEF Calm, mouse
<1>7. CASE pc = 27
  BY <1>2, <1>3, <1>5, <1>7 DEF Calm, Fresh, mouse
<1>8. CASE pc = 28
  <2>1. out # <<>> /\ 1 \in 1 .. Len(out) /\ 1 <= Len(out)
    BY <1>3, <1>8 DEF Pending, TypeOK
  <2>2. out'[1] = out[1]
    BY <1>3, <2>1
  <2>3. out[1].from = "controller" => InOrder(1)'
    BY <1>8, <2>1, InOrderKey DEF Calm
  <2>4. QED
    BY <1>2, <1>5, <1>8, <2>2, <2>3 DEF Calm, Fresh, mouse
<1>9. CASE pc \in {29, 30}
  <2>1. InOrder(0)'
    BY <1>3, <1>9, InOrderKey DEF Calm
  <2>2. QED
    BY <1>2, <1>5, <1>9, <2>1 DEF Calm, Fresh, mouse
<1>10. QED
  BY <1>4, <1>6, <1>7, <1>8, <1>9

\* A move, once the mouse reports them.
LEMMA CalmMove ==
    ASSUME TypeOK, Pending, Calm, Move
    PROVE  Pending' /\ Calm'
<1>0. Sent("mouse", {}, (moves % 3) + 1) \in Bytes
  BY DEF Sent, Bytes, Byte, TypeOK
<1>1. PICK c \in Bytes : c = Sent("mouse", {}, (moves % 3) + 1)
  BY <1>0
<1>2. Arrives(c) /\ UNCHANGED <<pc, keyboard, mouse>>
  BY <1>1 DEF Move
<1>3. /\ c.from = "mouse" /\ c.n > 0 /\ Len(out) \in Nat
      /\ Len(out') = Len(out) + 1 /\ out' # <<>> /\ out'[Len(out) + 1] = c
      /\ \A i \in 1 .. Len(out) : out'[i] = out[i]
  BY <1>1, <1>2, Arrived DEF Sent, TypeOK
<1>4. pc \in 25 .. 30
  BY Passed DEF Move, TypeOK
<1>5. Pending'
  <2>1. CASE pc \in {29, 30}
    <3>1. pc \notin {6, 7, 8} \cup ToMouse /\ pc \notin Polls \ {25, 28}
      BY <2>1 DEF ToMouse, Polls
    <3>2. QED
      BY <1>2, <2>1, <3>1 DEF Pending
  <2>2. CASE pc \in 25 .. 28
    <3>1. \A i \in 1 .. Len(out') : FromMouse(out[i])' => out'[i].n > 0 \/ (pc = 25 /\ i = 1)
      BY <1>3, <2>2 DEF Pending, FromMouse
    <3>2. pc \in 25 .. 27 => \A i \in 1 .. Len(out') : out'[i].from # "controller"
      BY <1>3, <2>2 DEF Pending
    <3>3. pc \notin ToMouse /\ pc \notin Polls \ {25, 28}
      BY <2>2 DEF ToMouse, Polls
    <3>4. QED
      BY <1>2, <1>3, <2>2, <3>1, <3>2, <3>3 DEF Pending
  <2>3. QED
    BY <1>4, <2>1, <2>2
<1>6. CASE pc \in 25 .. 27
  <2>1. pc = 25 => Len(out') # 1
    <3>1. pc = 25 => out # <<>>
      BY DEF Pending
    <3>2. out # <<>> => Len(out) # 0
      BY DEF TypeOK
    <3>3. QED
      BY <1>3, <3>1, <3>2
  <2>2. ~Fresh'
    BY <1>2, <1>3, <1>6, <2>1 DEF Fresh
  <2>3. QED
    BY <1>2, <1>5, <1>6, <2>2 DEF Calm, mouse
<1>7. CASE pc = 28
  <2>1. out # <<>> /\ 1 \in 1 .. Len(out) /\ 1 <= Len(out)
    BY <1>3, <1>7 DEF Pending, TypeOK
  <2>2. out'[1] = out[1]
    BY <1>3, <2>1
  <2>3. out[1].from = "controller" => InOrder(1)'
    BY <1>7, <2>1, InOrderMove DEF Calm
  <2>4. QED
    BY <1>2, <1>5, <1>7, <2>2, <2>3 DEF Calm, Fresh, mouse
<1>8. CASE pc \in {29, 30}
  <2>1. InOrder(0)'
    BY <1>3, <1>8, InOrderMove DEF Calm
  <2>2. QED
    BY <1>2, <1>5, <1>8, <2>1 DEF Calm, Fresh, mouse
<1>9. QED
  BY <1>4, <1>6, <1>7, <1>8

LEMMA CalmHandlers ==
    ASSUME TypeOK, Pending, Calm, upset' = {}, KeyboardHandler \/ MouseHandler
    PROVE  Pending' /\ Calm'
<1>1. pc = 30 /\ pc' = 30
  BY AfterBoot DEF KeyboardHandler, MouseHandler
<1>2. Pending'
  BY <1>1 DEF Pending, ToMouse, Polls
<1>3. InOrder(0) /\ \A k \in 0 .. 2 : mouse_byte[k] \in {0, k + 1}
  BY <1>1 DEF Calm
<1>4. CASE KeyboardHandler
  <2>1. out # <<>> /\ ~FromMouse(out[1]) /\ ~(Len(out) > 1)
    BY <1>4 DEF KeyboardHandler, Upset
  <2>2. Len(out) = 1
    <3>1. PICK n \in Nat : n = Len(out)
      BY DEF TypeOK
    <3>2. n # 0
      BY <2>1, <3>1 DEF TypeOK
    <3>3. ~(n > 1)
      BY <2>1, <3>1
    <3>4. QED
      BY <3>1, <3>2, <3>3
  <2>3. InOrder(0)'
    BY <1>3, <1>4, <2>1, <2>2, InOrderKeyboard
  <2>4. QED
    BY <1>1, <1>2, <1>3, <1>4, <2>3 DEF Calm, Fresh, KeyboardHandler, mouse
<1>5. CASE MouseHandler
  <2>1. out # <<>> /\ FromMouse(out[1])
    BY <1>5 DEF MouseHandler, Upset
  <2>2. InOrder(0)' /\ \A k \in 0 .. 2 : mouse_byte'[k] \in {0, k + 1}
    BY <1>3, <1>5, <2>1, InOrderMouse
  <2>3. QED
    BY <1>1, <1>2, <2>2 DEF Calm, Fresh
<1>6. QED
  BY <1>4, <1>5

LEMMA CalmNext ==
    ASSUME TypeOK, Flushed, upset = {} => Pending /\ Calm, TypeOK', [Next]_vars
    PROVE  upset' = {} => Pending' /\ Calm'
<1> SUFFICES ASSUME upset' = {} PROVE Pending' /\ Calm'
  OBVIOUS
<1>1. Installing /\ Pending /\ Calm
  BY Upsets DEF Flushed
<1>2. CASE Boot
  BY <1>1, <1>2, CalmConfigures, CalmAsk, CalmSend, CalmPoll, CalmEnable DEF Boot
<1>3. CASE Devices
  BY <1>1, <1>3, CalmMove, CalmKey DEF Devices
<1>4. CASE KeyboardHandler \/ MouseHandler
  BY <1>1, <1>4, CalmHandlers
<1>5. CASE UNCHANGED vars
  <2>1. UNCHANGED <<out, pc, keyboard, mouse, user>>
    BY <1>5 DEF vars, controller
  <2>2. Pending'
    BY <1>1, <2>1 DEF Pending
  <2>3. \A b \in {0, 1} : InOrder(b) => InOrder(b)'
    BY <2>1, InOrderSame
  <2>4. (early' \/ Agree') <=> (early \/ Agree)
    BY <2>1 DEF Agree, keyboard, user
  <2>5. Calm'
    BY <1>1, <2>1, <2>3, <2>4 DEF Calm, Fresh, mouse, user
  <2>6. QED
    BY <2>2, <2>5
<1>6. QED
  BY <1>2, <1>3, <1>4, <1>5 DEF Next

LEMMA PortKept == Spec => []IInv
<1>1. Init => IInv
  BY TypeInit, InstallingInit, CalmInit DEF IInv, Flushed
<1>2. IInv /\ [Next]_vars => IInv'
  BY TypeNext, FlushedNext, CalmNext DEF IInv
<1>3. QED
  BY <1>1, <1>2, PTL DEF Spec

\* As long as every byte is read by whom it is for, a packet's bytes are stored at their
\* places, whatever keys are pressed between them and however many bytes wait, for any
\* number of packets, those of moves before sti too (mouse.c 62-71, 150).
THEOREM PacketsStayAligned == Spec => []PacketsAligned
<1>1. IInv => PacketsAligned
  BY DEF IInv, TypeOK, Calm, PacketsAligned
<1>2. QED
  BY <1>1, PortKept, PTL

\* So long, the listeners get every letter in its case, for any scan codes and any number
\* of keys, from the moment the keyboard is on again (keyboard.c 53-101, mouse.c:156).
THEOREM KeysReachListeners == Spec => []KeysAreHeard
<1>1. IInv => KeysAreHeard
  <2>1. SUFFICES ASSUME IInv, Booted, out = <<>>, upset = {}, ~early PROVE heard = typed
    BY DEF KeysAreHeard
  <2>2. pc = 30 /\ Moved(0, Len(out)) /\ InOrder(0)
    BY <2>1, AfterBoot DEF IInv, Calm, Moved
  <2>3. QED
    BY <2>1, <2>2 DEF InOrder, Moving, Agree
<1>2. QED
  BY <1>1, PortKept, PTL
=============================================================================
