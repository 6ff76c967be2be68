\* Ids and codes wider than 16 bits are accepted and emitted.
CONSTANTS
    NoFamily = NoFamily
    Absent = Absent
    Previous = Previous
    Torn = Torn
    Running = Running
    Lower <- MCLower
    Upper <- MCUpper
    Lines <- WidthLines
    MaxLines = 3
    IOFaults = FALSE
    TestFamilyIds <- MainFamilyIds
    TestCodes <- MainCodes

SPECIFICATION Spec

INVARIANT EncodedRoundTrip

CHECK_DEADLOCK FALSE
