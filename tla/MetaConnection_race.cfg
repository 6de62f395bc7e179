SPECIFICATION Spec
CONSTANTS
    Conns = {c1, c2, c3}
    Pages = {g1, g2}
    Procs = {p1, p2}
    Sweeper = Sweeper
    Life = 3
    Window = 2
    MaxFaults = 1
    None = None
SYMMETRY Symmetry
INVARIANTS TypeOK FlagIsJustified DisconnectIsQuiet NeverSilentlyLost TokenInTime SelectionKept
PROPERTIES ImplementsConnectionBook
CONSTRAINT Focus
