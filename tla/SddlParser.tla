----------------------------- MODULE SddlParser -----------------------------
(***************************************************************************)
(* The for loop of parse_def_file: one action per branch the loop body    *)
(* takes on a line.  A line of the .def file is abstracted to the branch  *)
(* it drives and the fields the regular expressions capture:              *)
(*   [kind |-> "blank"]                       empty or "#" after strip()  *)
(*   [kind |-> "family", name, id, form]      stripped starts "@family";  *)
(*        form "described": the pattern with the quoted description       *)
(*        matches; "bare": only the pattern without it matches;           *)
(*        "malformed": neither matches (e.g. a decimal id)                *)
(*   [kind |-> "opcode", indented, mnemonic, code, matches]   any other  *)
(*        line; indented: it starts with two spaces; matches: the opcode  *)
(*        pattern (mnemonic, hex code, params, quoted description)        *)
(*        matches it.                                                      *)
(* Hex literals are held as the integers int(x, 16) makes of them.        *)
(***************************************************************************)
EXTENDS Integers, Sequences

CONSTANT NoFamily   \* current_family = None

VARIABLES
    lines,          \* content.split("\n")
    idx,            \* position of the for loop in lines
    families,       \* family name -> id
    opcodes,        \* sequence of [mnemonic, family, code]
    currentFamily   \* current_family

parserVars == <<lines, idx, families, opcodes, currentFamily>>

Line == lines[idx]

Parsing == idx <= Len(lines)

\* Moving on to the next line with the parse state untouched.
Skip ==
    /\ idx' = idx + 1
    /\ UNCHANGED <<lines, families, opcodes, currentFamily>>

\* families[family_name] = (id, ...); current_family = family_name
Declare(l) ==
    /\ families' = [f \in DOMAIN families \cup {l.name} |->
                       IF f = l.name THEN l.id ELSE families[f]]
    /\ currentFamily' = l.name
    /\ idx' = idx + 1
    /\ UNCHANGED <<lines, opcodes>>

\* `if not stripped or stripped.startswith("#"): continue`
SkipBlank ==
    /\ Parsing
    /\ Line.kind = "blank"
    /\ Skip

\* The @family pattern with a quoted description matches.
FamilyDescribed ==
    /\ Parsing
    /\ Line.kind = "family"
    /\ Line.form = "described"
    /\ Declare(Line)

\* Only the @family pattern without a description matches.
FamilyBare ==
    /\ Parsing
    /\ Line.kind = "family"
    /\ Line.form = "bare"
    /\ Declare(Line)

\* Mutant: a @family line that does not match still opens its family.
FamilyUnmatchedOpens ==
    /\ Parsing
    /\ Line.kind = "family"
    /\ Line.form = "malformed"
    /\ currentFamily' = Line.name
    /\ idx' = idx + 1
    /\ UNCHANGED <<lines, families, opcodes>>

\* Neither @family pattern matches: the line is dropped and current_family
\* keeps its value.
FamilyUnmatched ==
    /\ Parsing
    /\ Line.kind = "family"
    /\ Line.form = "malformed"
    /\ Skip

\* Mutant: the indentation test is dropped (`elif current_family:`).
OpcodeAppendUnindented ==
    /\ Parsing
    /\ Line.kind = "opcode"
    /\ currentFamily # NoFamily
    /\ Line.matches
    /\ opcodes' = Append(opcodes, [mnemonic |-> Line.mnemonic,
                                   family   |-> currentFamily,
                                   code     |-> Line.code])
    /\ idx' = idx + 1
    /\ UNCHANGED <<lines, families, currentFamily>>

\* An indented line under an open family that matches the opcode pattern.
OpcodeAppend ==
    /\ Parsing
    /\ Line.kind = "opcode"
    /\ Line.indented
    /\ currentFamily # NoFamily
    /\ Line.matches
    /\ opcodes' = Append(opcodes, [mnemonic |-> Line.mnemonic,
                                   family   |-> currentFamily,
                                   code     |-> Line.code])
    /\ idx' = idx + 1
    /\ UNCHANGED <<lines, families, currentFamily>>

\* An indented line under an open family that the opcode pattern rejects.
OpcodeUnmatched ==
    /\ Parsing
    /\ Line.kind = "opcode"
    /\ Line.indented
    /\ currentFamily # NoFamily
    /\ ~Line.matches
    /\ Skip

\* `elif line.startswith("  ") and current_family` is false.
LineIgnored ==
    /\ Parsing
    /\ Line.kind = "opcode"
    /\ (~Line.indented \/ currentFamily = NoFamily)
    /\ Skip

ParseLine ==
    \/ SkipBlank
    \/ FamilyDescribed
    \/ FamilyBare
    \/ FamilyUnmatched
    \/ OpcodeAppend
    \/ OpcodeUnmatched
    \/ LineIgnored

=============================================================================
