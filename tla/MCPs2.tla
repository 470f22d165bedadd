------------------------------- MODULE MCPs2 -------------------------------
EXTENDS Ps2

\* return, left shift, caps lock: 0x1C, 0x2A, 0x3A
MCCode == [k \in Keys |-> CASE k = Letter -> {2, 3, 4} [] k = Shift -> {1, 3, 5}
                            [] k = Caps -> {1, 3, 4, 5}]

\* 0x45, 0x47, 0x65: with and without the mouse's interrupt, the mouse on and off
MCBoots == {{0, 2, 6}, {0, 1, 2, 6}, {0, 2, 5, 6}}

\* After the boot, no further than to a mishap: what comes later is promised nothing.
UpToTheMishap == Booted => upset = {}
=============================================================================
