SPECIFICATION Spec
CONSTANTS
    d1 = d1
    d2 = d2
    d3 = d3
    Daemon = {d1, d2, d3}
    None = None
    Stale = Stale
    MaxStops = 2
    MaxFaults = 2
INVARIANT OneWriter
