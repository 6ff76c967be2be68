\* The parser implements the family-block semantics of SddlParseSpec on all
\* documents of up to four lines whose @family lines match a pattern, and the
\* specification's end-to-end scenario is among them.
CONSTANTS
    NoFamily = NoFamily
    Absent = Absent
    Previous = Previous
    Torn = Torn
    Running = Running
    Lower <- MCLower
    Upper <- MCUpper
    Lines <- MatchedLines
    MaxLines = 4
    IOFaults = FALSE
    TestFamilyIds <- MainFamilyIds
    TestCodes <- MainCodes

SPECIFICATION Spec

PROPERTY ParseRefinement
INVARIANT EndToEnd

\* main() returns: its final state has no successor.
CHECK_DEADLOCK FALSE
