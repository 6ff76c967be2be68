----------------------------- MODULE SddlDriver -----------------------------
(***************************************************************************)
(* main() of generate_c_headers.py: check that sddl2_opcodes.def exists,  *)
(* parse it (the loop of SddlParser), then generate and write             *)
(* sddl2_opcodes.h and sddl2_disasm_generated.h in that order.            *)
(*                                                                         *)
(* The .def file is chosen in Init among all documents of at most         *)
(* MaxLines lines over the line set Lines, or is absent.  The two output  *)
(* files start out holding what an earlier run left (Previous).  A        *)
(* write_text may raise (an open that fails leaves the file as it was, a  *)
(* write that fails after the truncating open leaves it Torn) when        *)
(* IOFaults is TRUE; the exception is not caught and the process exits    *)
(* with status 1.  Prints are left out.                                    *)
(***************************************************************************)
EXTENDS SddlParser, SddlDocument, FiniteSets

CONSTANTS
    Lines,        \* the abstract lines documents are made of
    MaxLines,     \* longest document considered
    Absent,       \* def_file.exists() is false
    Previous,     \* an output file as an earlier run left it
    Torn,         \* an output file truncated by a failed write
    Running,      \* exit status not yet determined
    IOFaults,     \* whether write_text may raise
    TestFamilyIds,  \* family halves of the instruction words looked up
    TestCodes       \* opcode halves of the instruction words looked up

ASSUME MaxLines \in Nat /\ IOFaults \in BOOLEAN

VARIABLES
    defFile,      \* the content of sddl2_opcodes.def, or Absent
    pc,           \* where main() is
    headerFile,   \* content of sddl2_opcodes.h
    disasmFile,   \* content of sddl2_disasm_generated.h
    exitCode      \* return value of main()

driverVars == <<defFile, pc, headerFile, disasmFile, exitCode>>

vars == <<parserVars, driverVars>>

Documents == BoundedSeq(Lines, MaxLines)

EmptyFamilies == [f \in {} |-> 0]

Init ==
    /\ defFile \in Documents \cup {Absent}
    /\ pc = "main"
    /\ headerFile = Previous
    /\ disasmFile = Previous
    /\ exitCode = Running
    /\ lines = <<>>
    /\ idx = 1
    /\ families = EmptyFamilies
    /\ opcodes = <<>>
    /\ currentFamily = NoFamily

\* `if not def_file.exists(): print(...); return 1`
MissingInput ==
    /\ pc = "main"
    /\ defFile = Absent
    /\ pc' = "done"
    /\ exitCode' = 1
    /\ UNCHANGED <<parserVars, defFile, headerFile, disasmFile>>

\* parse_def_file: read_text, split, and the initial empty model.
ReadDefFile ==
    /\ pc = "main"
    /\ defFile # Absent
    /\ lines' = defFile
    /\ idx' = 1
    /\ families' = EmptyFamilies
    /\ opcodes' = <<>>
    /\ currentFamily' = NoFamily
    /\ pc' = "parse"
    /\ UNCHANGED <<defFile, headerFile, disasmFile, exitCode>>

ParseStep ==
    /\ pc = "parse"
    /\ ParseLine
    /\ UNCHANGED driverVars

\* The loop is over: parse_def_file returns (families, opcodes).
ParseReturn ==
    /\ pc = "parse"
    /\ ~Parsing
    /\ pc' = "header"
    /\ UNCHANGED <<parserVars, defFile, headerFile, disasmFile, exitCode>>

\* c_header_output.write_text(generate_c_header(families, opcodes))
WriteHeaderOk ==
    /\ pc = "header"
    /\ headerFile' = GenerateHeader(families, opcodes)
    /\ pc' = "disasm"
    /\ UNCHANGED <<parserVars, defFile, disasmFile, exitCode>>

\* write_text raises: main() dies with a traceback and status 1.
WriteHeaderFails ==
    /\ pc = "header"
    /\ IOFaults
    /\ headerFile' \in {headerFile, Torn}
    /\ pc' = "done"
    /\ exitCode' = 1
    /\ UNCHANGED <<parserVars, defFile, disasmFile>>

\* c_disasm_header_output.write_text(...), the summary, `return 0`
WriteDisasmOk ==
    /\ pc = "disasm"
    /\ disasmFile' = GenerateDisasm(families, opcodes)
    /\ pc' = "done"
    /\ exitCode' = 0
    /\ UNCHANGED <<parserVars, defFile, headerFile>>

WriteDisasmFails ==
    /\ pc = "disasm"
    /\ IOFaults
    /\ disasmFile' \in {disasmFile, Torn}
    /\ pc' = "done"
    /\ exitCode' = 1
    /\ UNCHANGED <<parserVars, defFile, headerFile>>

Next ==
    \/ MissingInput
    \/ ReadDefFile
    \/ ParseStep
    \/ ParseReturn
    \/ WriteHeaderOk
    \/ WriteHeaderFails
    \/ WriteDisasmOk
    \/ WriteDisasmFails

Spec == Init /\ [][Next]_vars

-----------------------------------------------------------------------------
(***************************************************************************)
(* Properties                                                              *)
(***************************************************************************)

(***************************************************************************)
(* The open family and the family of every parsed opcode are keys of      *)
(* families, so the lookups families[family_name] of both generators      *)
(* (which walk by_family and family_order) never raise KeyError.           *)
(***************************************************************************)
DeclaredContext ==
    /\ currentFamily \in DOMAIN families \cup {NoFamily}
    /\ \A i \in 1..Len(opcodes) : opcodes[i].family \in DOMAIN families

(***************************************************************************)
(* Round trip: when main() returns 0 on a well-formed document that      *)
(* declares a family of family_order and whose opcode identifiers are     *)
(* distinct, the two headers on disk compile                              *)
(* together and SDDL2_instruction_name_impl returns, for every looked-up  *)
(* family and opcode, what name_of of the document is: the mnemonic, the   *)
(* family sentinel, or "?.?".  This is where the two generators' family   *)
(* filters, their sorting and their identifier derivation must agree.      *)
(***************************************************************************)
RoundTrip ==
    (/\ pc = "done" /\ exitCode = 0
     /\ WellFormed(defFile) /\ IdentsDistinct(defFile) /\ DeclaresListed(defFile))
    =>
    /\ Compiles(headerFile, disasmFile)
    /\ \A f \in TestFamilyIds, c \in TestCodes :
          InstructionName(headerFile, disasmFile, f, c) = SpecName(defFile, f, c)

(***************************************************************************)
(* No partial output: when main() ends, status 0 means both files hold    *)
(* what this run generated, and any other status means neither file was   *)
(* touched.                                                                *)
(***************************************************************************)
NoPartialOutput ==
    pc = "done" =>
        IF exitCode = 0
        THEN /\ headerFile = GenerateHeader(families, opcodes)
             /\ disasmFile = GenerateDisasm(families, opcodes)
        ELSE headerFile = Previous /\ disasmFile = Previous

(***************************************************************************)
(* Refinement: main() implements SddlParseSpec.  The model is built when  *)
(* parse_def_file returns; before that (and when the file is missing) the *)
(* abstract model is still empty.                                          *)
(***************************************************************************)
Returned == pc \in {"header", "disasm", "done"} /\ defFile # Absent

ParseAbs == INSTANCE SddlParseSpec WITH
    doc      <- IF defFile = Absent THEN <<>> ELSE defFile,
    parsed   <- Returned,
    families <- IF Returned THEN families ELSE EmptyFamilies,
    opcodes  <- IF Returned THEN opcodes ELSE <<>>

\* The parser builds exactly the model of the document's family blocks.
ParseRefinement == ParseAbs!Spec

(***************************************************************************)
(* Every opcode constant the header defines, packed into an instruction   *)
(* word with its family id and decoded by the generated disassembler,     *)
(* gives back its own mnemonic, whenever the pair compiles.                *)
(***************************************************************************)
EncodedRoundTrip ==
    (pc = "done" /\ exitCode = 0 /\ Compiles(headerFile, disasmFile)) =>
        \A i \in 1..Len(opcodes) :
            LET o == opcodes[i]
                w == InstructionWord(families[o.family], o.code)
            IN  (\E k \in 1..Len(FamilyOrder) : FamilyOrder[k] = o.family)
                => InstructionName(headerFile, disasmFile,
                                   WordFamily(w), WordOpcode(w))
                   = MnemonicText(o.mnemonic)

\* A well-formed document that declares a family of family_order yields a
\* pair of headers that compiles.
WellFormedCompiles ==
    (pc = "done" /\ exitCode = 0 /\ WellFormed(defFile) /\ DeclaresListed(defFile))
        => Compiles(headerFile, disasmFile)

(***************************************************************************)
(* A well-formed document without a family of family_order (an empty     *)
(* file, comments only, or only other families) also yields a pair of    *)
(* headers that compiles: generate_c_header opens enum sddl2_family      *)
(* whatever the document holds.                                           *)
(***************************************************************************)
EmptyHeaderCompiles ==
    (pc = "done" /\ exitCode = 0 /\ WellFormed(defFile) /\ ~DeclaresListed(defFile))
        => Compiles(headerFile, disasmFile)

(***************************************************************************)
(* Collisions never compile silently: when main() returns 0 and the pair  *)
(* it wrote compiles, no two opcodes of a family the headers list share a *)
(* code and no two listed families share an id.  Both generators emit    *)
(* one case per opcode and one per family, so a collision must show up   *)
(* as a duplicate case label rather than an opcode that loses its name.  *)
(***************************************************************************)
NoSilentCollision ==
    LET listed == Range(Listed(families))
    IN  (pc = "done" /\ exitCode = 0 /\ Compiles(headerFile, disasmFile)) =>
        /\ \A f, g \in listed : f # g => families[f] # families[g]
        /\ \A i, j \in 1..Len(opcodes) :
              /\ i # j
              /\ opcodes[i].family \in listed
              /\ opcodes[i].family = opcodes[j].family
              => opcodes[i].code # opcodes[j].code

\* Every reordering of a sequence.
Reorderings(s) ==
    {[k \in 1..Len(s) |-> s[p[k]]] : p \in Bijection(1..Len(s), 1..Len(s))}

\* No two parsed opcodes of one family share a code.
UniqueCodes(ops) ==
    \A j, k \in 1..Len(ops) :
        j # k /\ ops[j].family = ops[k].family => ops[j].code # ops[k].code

(***************************************************************************)
(* Order independence: when main() returns 0 and codes are unique within  *)
(* each family, the two headers on disk are what the generators give for  *)
(* every order of the parsed opcodes, so the order of the opcode lines in *)
(* the document does not show in the output (both generators sort each   *)
(* family's opcodes by code, gen.py 198 and 319).                         *)
(***************************************************************************)
OrderIndependence ==
    (pc = "done" /\ exitCode = 0 /\ UniqueCodes(opcodes)) =>
        \A p \in Reorderings(opcodes) :
            /\ GenerateHeader(families, p) = headerFile
            /\ GenerateDisasm(families, p) = disasmFile

(***************************************************************************)
(* Every opcode the parser appends is bound to the family whose @family   *)
(* line opens the block it sits in.                                        *)
(***************************************************************************)
Attribution ==
    [][Len(opcodes') = Len(opcodes) + 1 =>
          Last(opcodes').family = BlockName(lines, idx)]_vars

=============================================================================
