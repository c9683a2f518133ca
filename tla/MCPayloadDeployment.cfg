CONSTANTS
    Hosts = {h1, h2}
    Slots = {s1, s2}
    Versions = {v1, v2}
    Files = {elf, lib}
    Elf = elf
    Pids = {p1, p2}
    PidFd = TRUE
    None = none
    MaxBirths = 2
SPECIFICATION Spec
INVARIANTS KillsOnlyOwned StartsOneWhole
SYMMETRY Symmetry
