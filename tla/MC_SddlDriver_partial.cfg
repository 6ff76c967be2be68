\* A write_text that raises after the other file was written.
CONSTANTS
    NoFamily = NoFamily
    Absent = Absent
    Previous = Previous
    Torn = Torn
    Running = Running
    Lower <- MCLower
    Upper <- MCUpper
    Lines <- MainLines
    MaxLines = 2
    IOFaults = TRUE
    TestFamilyIds <- MainFamilyIds
    TestCodes <- MainCodes

SPECIFICATION Spec

INVARIANT NoPartialOutput

CHECK_DEADLOCK FALSE
