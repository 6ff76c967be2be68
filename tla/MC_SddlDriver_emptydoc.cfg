\* Documents of blank or comment lines only, the empty file included.
CONSTANTS
    NoFamily = NoFamily
    Absent = Absent
    Previous = Previous
    Torn = Torn
    Running = Running
    Lower <- MCLower
    Upper <- MCUpper
    Lines <- EmptyLines
    MaxLines = 1
    IOFaults = FALSE
    TestFamilyIds <- MainFamilyIds
    TestCodes <- MainCodes

SPECIFICATION Spec

INVARIANT EmptyHeaderCompiles

CHECK_DEADLOCK FALSE
