\* An opcode after a @family line that does not match is bound to the family before it.
CONSTANTS
    NoFamily = NoFamily
    Absent = Absent
    Previous = Previous
    Torn = Torn
    Running = Running
    Lower <- MCLower
    Upper <- MCUpper
    Lines <- AttributionLines
    MaxLines = 3
    IOFaults = FALSE
    TestFamilyIds <- MainFamilyIds
    TestCodes <- MainCodes

SPECIFICATION Spec

PROPERTY Attribution

CHECK_DEADLOCK FALSE
