SPECIFICATION MCSpec
CONSTANTS
    v1 = v1
    v2 = v2
    mine = mine
    sys = sys
    s1 = s1
    s2 = s2
    a = a
    b = b
    c = c
    m1 = m1
    m2 = m2
    None = None
    Revisions = {v1, v2}
    Locals = {mine}
    Length <- MCLength
    NrmOf <- MCNrmOf
    MaxRuns = 2
    MaxPins = 1
    MaxBuilds = 2
    Disks = {sys, s1, s2}
    Paths = {"sda", "sdb"}
    Ident <- MCIdent
    Usb = {sys, s1, s2}
    System = {sys}
    Large = {sys, s1}
    Slices = 2
    MaxChanges = 2
    ModelPaths = {m1, m2}
    Versions = {a, b, c}
    SizeOf <- MCSizeOf
    Modes = {"offline", "mcp"}
    Archs = {"aarch64"}
    Missing = Missing
    MaxEdits = 2
    MaxXtasks = 3
SYMMETRY MCSymmetry
CHECK_DEADLOCK FALSE
INVARIANTS OnlyPinnedModel ImageCurrent OnlyConfirmedDisk WrittenUnmounted VerifiedHolds ImageAsAsked
