\* Two clients and two servers that change their sections one after the other.
CONSTANTS
    Absent = Absent
    Malformed = Malformed
    Down = Down
    Client = {c1, c2}
    Server = {s1, s2}
    Duration <- MCDuration
    ClientSection <- MCClientSection
    ServerSection <- MCServerSection
SPECIFICATION Spec
INVARIANT PingsAreWelcome
PROPERTY LostLinksAreNoticed
