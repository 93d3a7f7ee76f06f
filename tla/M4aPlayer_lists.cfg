SPECIFICATION SafeSpec
CONSTANTS
    NumPlayers = 2
    NumTracks = 2
    Owner <- MCOneEach
    NumDirect = 2
    NumCgb = 1
    Songs = {1}
    Ends = {1, 2}
    TrackPrios = {1, 2}
    MaxPrio = 2
    Guarded = {}
    Calls = {"start", "imminit"}
    Callees = {1, 2}
    Preempt = {2}
    Speeds = {1}
    VolMax = 8
INVARIANTS TypeOK ListsAgree NoteTakesBest
