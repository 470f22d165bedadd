------------------------------- MODULE Listing -------------------------------
(***************************************************************************)
(* What list and read show: file names between the form they are typed in  *)
(* and the 8.3 form of the directory (fat_drive.c), and the arena from     *)
(* which both commands take memory that is never given back (arena.c).     *)
(* Memory is modelled byte by byte, since the commands store more than     *)
(* they take: list a thirteenth byte, read a whole sector.                 *)
(*                                                                         *)
(* The directory is one that newf and appf, or mcopy, can make (FatFiles   *)
(* has those commands) and does not change: files that hold a text, with   *)
(* zeros behind it.  Its label, which list skips, is left out.             *)
(***************************************************************************)
EXTENDS Integers, SequencesExt

CONSTANTS
    BaseLength, ExtLength,     \* the 8 and the 3 of an 8.3 name
    LineSize,                  \* bytes list takes for a name (12)
    SectorSize,
    Base, Size,                \* where the kernel's arena is, and its intended size
    AtBoot,                    \* what the drive setup took of it
    Typed,                     \* file names as typed
    Texts,                     \* contents of files
    MaxFiles, MaxCommands,     \* bounds
    Leftovers                  \* bytes that memory may hold at power on

Dot == 46
Space == 32
Char == 1 .. 127
Limit == Base + Size           \* kernel.c passes the end as arena_new's limit
Top == Base + Limit + SectorSize + LineSize

ASSUME ListingAssumption ==
    /\ {BaseLength, ExtLength, SectorSize, Base, Size, AtBoot, MaxFiles} \subseteq Nat
    /\ LineSize = BaseLength + ExtLength + 1
    /\ AtBoot <= Size /\ SectorSize + LineSize < Base
    /\ Typed \subseteq Seq(Char) /\ Texts \subseteq Seq(Char)
    /\ \A t \in Texts : Len(t) <= SectorSize

VARIABLES
    root,        \* g_root_directory from entry 1: name, text, and how it was typed
    memory,
    used,        \* the arena's
    results,     \* r.string_results, while list fills them
    command,     \* what was asked: nothing, list, or read of a name
    shown,       \* the strings shown as its answer, once it is answered
    commands     \* how many there were

listingVars == <<root, memory, used, results, command, shown, commands>>

-----------------------------------------------------------------------------
\* ctype.c
toupper(ch) == IF ch \in 97 .. 122 THEN ch - 32 ELSE ch
tolower(ch) == IF ch \in 65 .. 90 THEN ch + 32 ELSE ch

\* strrchr returns the first place of the character
Dots(name) == {i \in DOMAIN name : name[i] = Dot}
FirstDot(name) == CHOOSE i \in Dots(name) : \A j \in Dots(name) : i <= j

FieldAsTyped(chars, from, width) ==
    [i \in 1 .. width |-> IF from + i \in DOMAIN chars THEN chars[from + i] ELSE Space]
Field(chars, from, width) ==
    [i \in 1 .. width |-> IF from + i \in DOMAIN chars THEN toupper(chars[from + i]) ELSE Space]

\* fat_drive_filename_to_8_3, for a name with a dot
FilenameTo83(name) ==
    LET stem == SubSeq(name, 1, FirstDot(name) - 1)
    IN  Field(stem, 0, BaseLength) \o Field(name, FirstDot(name), ExtLength)

\* the name read looks for: spaces if there is no dot (the answer -1 that it tests
\* for is none of a bool's)
NameToFind(name) ==
    IF Dots(name) = {} THEN [i \in 1 .. BaseLength + ExtLength |-> Space]
    ELSE FilenameTo83(name)

\* fat_drive_8_3_to_filename: the stem ends at a space, the extension keeps its spaces
Blanks(n83) == {i \in 1 .. BaseLength : n83[i] = Space}
StemUnbroken(n83) == SubSeq(n83, 1, BaseLength)
Stem(n83) ==
    IF Blanks(n83) = {} THEN SubSeq(n83, 1, BaseLength)
    ELSE SubSeq(n83, 1, (CHOOSE i \in Blanks(n83) : \A j \in Blanks(n83) : i <= j) - 1)
ToFilename(n83) ==
    LET all == Stem(n83) \o <<Dot>> \o SubSeq(n83, BaseLength + 1, BaseLength + ExtLength)
    IN  [i \in DOMAIN all |-> tolower(all[i])]

\* memory with the bytes stored from an address on
Stored(mem, a, bytes) ==
    [b \in 0 .. Top |-> IF b - a + 1 \in DOMAIN bytes THEN bytes[b - a + 1] ELSE mem[b]]

\* the string at an address
StringAt(mem, a) ==
    LET end == CHOOSE b \in a .. Top : mem[b] = 0 /\ \A c \in a .. b - 1 : mem[c] # 0
    IN  SubSeq([i \in 1 .. Top |-> mem[i - 1]], a + 1, end)

\* arena_alloc: the length is compared with the limit, an address; NULL if it is more
NULL == 0
Refused(size) == used + size > Limit
arena_alloc(size) == IF Refused(size) THEN NULL ELSE Base + used
TakesNothing(size) == used
Taken(size) == IF Refused(size) THEN used ELSE used + size

SectorOf(text) == [i \in 1 .. SectorSize |-> IF i \in DOMAIN text THEN text[i] ELSE 0]

-----------------------------------------------------------------------------
Directories ==
    LET files == {[typed |-> t, text |-> x] : t \in {u \in Typed : Dots(u) # {}}, x \in Texts}
        made == UNION {[1 .. n -> files] : n \in 0 .. MaxFiles}
    IN  {d \in made : \A i, j \in DOMAIN d :
            FilenameTo83(d[i].typed) = FilenameTo83(d[j].typed) => i = j}

ListingInit ==
    /\ \E d \in Directories :
          root = [i \in DOMAIN d |-> [name |-> FilenameTo83(d[i].typed),
                                      text |-> d[i].text, typed |-> d[i].typed]]
    /\ \E byte \in Leftovers : memory = [a \in 0 .. Top |-> IF a = Top THEN 0 ELSE byte]
    /\ used = AtBoot
    /\ results = <<>>
    /\ command = [op |-> "none", name |-> <<>>]
    /\ shown = <<>>
    /\ commands = 0

Idle == command.op # "listing" /\ commands < MaxCommands

ListBegins ==
    /\ Idle
    /\ command' = [op |-> "listing", name |-> <<>>]
    /\ results' = <<>> /\ shown' = <<>>
    /\ UNCHANGED <<root, memory, used, commands>>

ListEntry ==
    /\ command.op = "listing" /\ Len(results) < Len(root)
    /\ results' = Append(results, arena_alloc(LineSize))
    /\ memory' = Stored(memory, arena_alloc(LineSize),
                        ToFilename(root[Len(results) + 1].name) \o <<0>>)
    /\ used' = Taken(LineSize)
    /\ UNCHANGED <<root, command, shown, commands>>

\* shell_run puts the strings on the screen only when list has returned
ListShows ==
    /\ command.op = "listing" /\ Len(results) = Len(root)
    /\ shown' = [i \in DOMAIN results |-> StringAt(memory, results[i])]
    /\ command' = [command EXCEPT !.op = "list"]
    /\ commands' = commands + 1
    /\ UNCHANGED <<root, memory, used, results>>

Holds(name) == {i \in DOMAIN root : root[i].name = NameToFind(name)}

ReadFile(name) ==
    /\ Idle
    /\ \E i \in Holds(name) :
        LET buf == arena_alloc(Len(root[i].text))
            after == Stored(memory, buf, SectorOf(root[i].text))
        IN  /\ memory' = after
            /\ used' = Taken(Len(root[i].text))
            /\ shown' = <<StringAt(after, buf)>>
    /\ command' = [op |-> "read", name |-> name]
    /\ commands' = commands + 1
    /\ UNCHANGED <<root, results>>

ReadNotFound(name) ==
    /\ Idle
    /\ Holds(name) = {}
    /\ command' = [op |-> "not found", name |-> name]
    /\ shown' = <<>>
    /\ commands' = commands + 1
    /\ UNCHANGED <<root, memory, used, results>>

ListingNext ==
    \/ ListBegins \/ ListEntry \/ ListShows
    \/ \E name \in Typed : ReadFile(name) \/ ReadNotFound(name)

ListingSpec == ListingInit /\ [][ListingNext]_listingVars

-----------------------------------------------------------------------------
Lower(name) == [i \in DOMAIN name |-> tolower(name[i])]

\* typed in quotes, a name may have a blank
IsWord(name) == Space \notin Range(name)

\* names of the form that fits a directory entry: one dot, no blank, and not too long
Fits(name) ==
    /\ IsWord(name)
    /\ \E d \in 1 .. BaseLength + 1 :
           Dots(name) = {d} /\ Len(name) - d \in 0 .. ExtLength

\* the tokenizer ends a word at a blank
FirstWord(line) ==
    LET blank == {j \in DOMAIN line : line[j] = Space}
    IN  IF blank = {} THEN line
        ELSE SubSeq(line, 1, (CHOOSE j \in blank : \A k \in blank : j <= k) - 1)

\* list (shell.c 196-213) shows each file under the name it was created with, in
\* lower case and with blanks behind it, from memory of its own: no name is stored
\* over another that is still to be shown, but for the zero behind a name of full
\* length (shell.c 205), which is followed by the next line, and as long as the arena
\* has not run out.
ListShowsTheNames ==
    command.op = "list" /\ ~(\E i \in DOMAIN results : results[i] = NULL) =>
        /\ Len(shown) = Len(root)
        /\ \A i \in DOMAIN root : Fits(root[i].typed) =>
            LET follows == i < Len(root) /\ Len(ToFilename(root[i].name)) = LineSize
                line == IF follows THEN SubSeq(shown[i], 1, LineSize) ELSE shown[i]
            IN  /\ IsPrefix(Lower(root[i].typed), line)
                /\ \A j \in Len(root[i].typed) + 1 .. Len(line) : line[j] = Space
                /\ follows => shown[i] = line \o shown[i + 1]

\* A name as list shows it, typed after read, names the file it is shown for, also
\* when the name it was created with was cut short or has more than one dot, but not
\* when it had a blank.
ListedNamesFind ==
    command.op = "list" /\ ~(\E i \in DOMAIN results : results[i] = NULL) =>
        \A i \in DOMAIN root : IsWord(root[i].typed) =>
            NameToFind(FirstWord(SubSeq(shown[i], 1, Len(ToFilename(root[i].name)))))
                = root[i].name

\* read (shell.c 164-194) finds a file by the name it was created with, in upper or
\* lower case, and shows its text, whatever the commands before it left in memory;
\* what follows the text of a file that fills its sector is not the file's.
ReadShowsTheFile ==
    /\ command.op = "read" =>
        \E i \in Holds(command.name) :
            /\ IsPrefix(root[i].text, shown[1])
            /\ Len(root[i].text) < SectorSize => shown[1] = root[i].text
    /\ command.op \in {"read", "not found"} =>
        \A i \in DOMAIN root :
            Lower(root[i].typed) = Lower(command.name) =>
                command.op = "read" /\ Holds(command.name) = {i}

=============================================================================
