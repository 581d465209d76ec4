\* Three programs that build two, three and four clients from any Data section, with
\* and without options of their own.  A program that has started does nothing more.
CONSTANTS
    Absent = Absent
    Setting <- MCSetting
    Order <- MCOrder
    File = {"ca.crt"}
    Pem = {"pem", "own", "disk"}
    Option <- MCOption
    Driver = {"mysql"}
SPECIFICATION DataSpec
INVARIANT ClientsAreSound
CHECK_DEADLOCK FALSE
