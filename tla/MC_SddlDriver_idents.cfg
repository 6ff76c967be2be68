\* Two mnemonics of one family that derive the same identifier.
CONSTANTS
    NoFamily = NoFamily
    Absent = Absent
    Previous = Previous
    Torn = Torn
    Running = Running
    Lower <- MCLower
    Upper <- MCUpper
    Lines <- IdentLines
    MaxLines = 3
    IOFaults = FALSE
    TestFamilyIds <- MainFamilyIds
    TestCodes <- MainCodes

SPECIFICATION Spec

INVARIANT WellFormedCompiles

CHECK_DEADLOCK FALSE
