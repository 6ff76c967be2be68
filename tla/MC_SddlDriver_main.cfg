\* Round trip of the generated headers on all documents of up to four
\* lines over MainLines, with file writes that may fail.
CONSTANTS
    NoFamily = NoFamily
    Absent = Absent
    Previous = Previous
    Torn = Torn
    Running = Running
    Lower <- MCLower
    Upper <- MCUpper
    Lines <- MainLines
    MaxLines = 4
    IOFaults = TRUE
    TestFamilyIds <- MainFamilyIds
    TestCodes <- MainCodes

SPECIFICATION Spec

INVARIANT OrderIndependence
INVARIANT DeclaredContext
INVARIANT RoundTrip
INVARIANT NoSilentCollision

\* main() returns: its final state has no successor.
CHECK_DEADLOCK FALSE
