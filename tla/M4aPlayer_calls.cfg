SPECIFICATION Spec
CONSTANTS
    NumPlayers = 1
    NumTracks = 2
    Owner <- MCSolo
    NumDirect = 1
    NumCgb = 0
    Songs = {1, 2}
    Ends = {0, 1, 2}
    TrackPrios = {0}
    MaxPrio = 2
    Guarded = {1}
    Calls = {"start", "stop", "continue", "control", "fadeout", "fadetemp", "fadein"}
    Callees = {1}
    Preempt = {1}
    Speeds = {2}
    VolMax = 8
INVARIANT PausedIsSilent
PROPERTIES PriorityHolds FadeEnds
