SPECIFICATION ProtoSpec
CONSTANTS
    Numbers = {0, 3}
    Readings = {21508}
    NaN = NaN
    Roms = {"r1", "r2"}
    Ambients = 2
    Probes = 1
    Duties = 1
    Absent = Absent
    Unparsable = Unparsable
    Rejected = Rejected
    Stopped = Stopped
    Anything = Anything
INVARIANT RoundTrips
CHECK_DEADLOCK FALSE
