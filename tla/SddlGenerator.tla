---------------------------- MODULE SddlGenerator ----------------------------
(***************************************************************************)
(* The two code generators of generate_c_headers.py as pure operators      *)
(* over the semantic model that parse_def_file returns, and the meaning   *)
(* of the C they emit.                                                     *)
(*                                                                         *)
(* The semantic model is                                                   *)
(*   families : a function from family name to family id                  *)
(*              (the dict {name: (id, description)}; descriptions are      *)
(*              comments in the output and are abstracted away),           *)
(*   opcodes  : a sequence of [mnemonic, family, code] in document order   *)
(*              (the list of tuples; params and descriptions only feed     *)
(*              comments and are abstracted away).                         *)
(* A mnemonic is a sequence of words: the text "push.zero" is             *)
(* <<"push", "zero">>.  Lower and Upper are str.lower and str.upper on    *)
(* the words and family names that occur.                                  *)
(*                                                                         *)
(* An emitted header is a record: the family enum and one opcode enum per *)
(* family, each a sequence of [name, value] enum constants.  An emitted    *)
(* disassembler is the sequence of outer switch cases, each with its       *)
(* inner cases and its default return.                                     *)
(***************************************************************************)
EXTENDS Integers, Sequences, SequencesExt

CONSTANTS Lower, Upper

\* family_order, written out identically in both generators.
FamilyOrder ==
    <<"PUSH", "MATH", "CMP", "LOGIC", "CONTROL", "LOAD", "STACK", "TYPE",
      "VAR", "EXPECT", "CALL", "SEGMENT">>

\* Concatenation of non-empty strings with a separator ("sep".join(ws)).
Join(ws, sep) ==
    FoldLeft(LAMBDA acc, w : IF acc = "" THEN w ELSE acc \o sep \o w, "", ws)

\* The mnemonic as it appears in the .def file and in the return statements.
MnemonicText(m) == Join(m, ".")

(***************************************************************************)
(* Identifier derivation: strip "<family>." when the lower-cased mnemonic  *)
(* starts with it, replace dots with underscores, upper-case.  Words hold  *)
(* no dot, so the prefix test is a test on the first word.                *)
(***************************************************************************)
\* Mutant: the prefix test compares without lower-casing.
CNameCaseSensitive(f, m) ==
    LET rest == IF Len(m) > 1 /\ m[1] = f THEN Tail(m) ELSE m
    IN  Join([i \in 1..Len(rest) |-> Upper[rest[i]]], "_")

CName(f, m) ==
    LET rest == IF Len(m) > 1 /\ Lower[m[1]] = Lower[f] THEN Tail(m) ELSE m
    IN  Join([i \in 1..Len(rest) |-> Upper[rest[i]]], "_")

OpIdent(f, m) == "SDDL2_OP_" \o f \o "_" \o CName(f, m)

FamIdent(f) == "SDDL2_FAMILY_" \o f

\* The "<family>.?" sentinel of a known family with an unknown opcode.
Sentinel(f) == Lower[f] \o ".?"

\* by_family[f]: the opcodes bound to f, in document order.
ByFamily(ops, f) == SelectSeq(ops, LAMBDA o : o.family = f)

(***************************************************************************)
(* sorted(..., key=lambda x: x[1]): Python's sort is stable, so opcodes   *)
(* with equal codes keep their document order.  Insertion after the last  *)
(* element whose code is not greater is a stable insertion sort.          *)
(***************************************************************************)
InsertByCode(s, o) ==
    InsertAt(s, SelectLastInSeq(s, LAMBDA p : p.code <= o.code) + 1, o)

\* Mutant: the opcodes are emitted in document order, without sorted().
SortedByCodeDocOrder(s) == s

SortedByCode(s) == FoldLeft(InsertByCode, <<>>, s)

\* [f for f in family_order if f in families]
Listed(fams) == SelectSeq(FamilyOrder, LAMBDA f : f \in DOMAIN fams)

\* The family_order entries that are keys of by_family.
WithOpcodes(ops) ==
    SelectSeq(FamilyOrder, LAMBDA f : \E i \in 1..Len(ops) : ops[i].family = f)

(***************************************************************************)
(* generate_c_header: the family enum over the listed families, then one  *)
(* opcode enum per listed family that has opcodes, sorted by code.        *)
(***************************************************************************)
GenerateHeader(fams, ops) ==
    LET fs == Listed(fams)
        es == WithOpcodes(ops)
        Enum(f) ==
            LET s == SortedByCode(ByFamily(ops, f))
            IN  [family |-> f,
                 consts |-> [j \in 1..Len(s) |->
                               [name |-> OpIdent(f, s[j].mnemonic),
                                value |-> s[j].code]]]
    IN  [families |-> [i \in 1..Len(fs) |->
                          [name |-> FamIdent(fs[i]), value |-> fams[fs[i]]]],
         enums    |-> [i \in 1..Len(es) |-> Enum(es[i])]]

\* Mutant: the disassembler walks only the families that have opcodes.
GenerateDisasmSkipEmpty(fams, ops) ==
    LET fs == WithOpcodes(ops)
        Case(f) ==
            LET s == SortedByCode(ByFamily(ops, f))
            IN  [label   |-> FamIdent(f),
                 cases   |-> [j \in 1..Len(s) |->
                                [label |-> OpIdent(f, s[j].mnemonic),
                                 ret   |-> MnemonicText(s[j].mnemonic)]],
                 default |-> Sentinel(f)]
    IN  [i \in 1..Len(fs) |-> Case(fs[i])]

(***************************************************************************)
(* Mutant: the disassembler keeps one case per code (a dict keyed on the  *)
(* opcode, last one wins) and one outer case per family id.               *)
(***************************************************************************)
GenerateDisasmByCode(fams, ops) ==
    LET OneCase(acc, c) ==
            IF acc # <<>> /\ Last(acc).code = c.code
            THEN Append(Front(acc), c) ELSE Append(acc, c)
        fs == FoldLeft(LAMBDA acc, f :
                 IF \E k \in 1..Len(acc) : fams[acc[k]] = fams[f]
                 THEN acc ELSE Append(acc, f), <<>>, Listed(fams))
        Case(f) ==
            LET s == FoldLeft(OneCase, <<>>, SortedByCode(ByFamily(ops, f)))
            IN  [label   |-> FamIdent(f),
                 cases   |-> [j \in 1..Len(s) |->
                                [label |-> OpIdent(f, s[j].mnemonic),
                                 ret   |-> MnemonicText(s[j].mnemonic)]],
                 default |-> Sentinel(f)]
    IN  [i \in 1..Len(fs) |-> Case(fs[i])]

(***************************************************************************)
(* generate_c_disasm_header: one outer case per listed family.  A family  *)
(* without opcodes returns its sentinel directly; that is the inner switch *)
(* with no cases.  Inner cases are sorted by code, labelled by the opcode  *)
(* enum constant and return the mnemonic text.                             *)
(***************************************************************************)
GenerateDisasm(fams, ops) ==
    LET fs == Listed(fams)
        Case(f) ==
            LET s == SortedByCode(ByFamily(ops, f))
            IN  [label   |-> FamIdent(f),
                 cases   |-> [j \in 1..Len(s) |->
                                [label |-> OpIdent(f, s[j].mnemonic),
                                 ret   |-> MnemonicText(s[j].mnemonic)]],
                 default |-> Sentinel(f)]
    IN  [i \in 1..Len(fs) |-> Case(fs[i])]

-----------------------------------------------------------------------------
(***************************************************************************)
(* The meaning of the emitted C: the enum constants of the header, when   *)
(* the pair compiles, and what SDDL2_instruction_name_impl returns.        *)
(***************************************************************************)

EnumConsts(h) ==
    h.families \o FlattenSeq([i \in 1..Len(h.enums) |-> h.enums[i].consts])

Defined(h, id) == \E i \in 1..Len(EnumConsts(h)) : EnumConsts(h)[i].name = id

ValueOf(h, id) ==
    LET cs == EnumConsts(h)
    IN  cs[SelectInSeq(cs, LAMBDA c : c.name = id)].value

\* No two labels of one switch resolve to the same value.
DistinctCases(h, labels) ==
    \A i, j \in 1..Len(labels) :
        i # j => ValueOf(h, labels[i]) # ValueOf(h, labels[j])

(***************************************************************************)
(* A C compiler accepts the pair when no enum constant is defined twice   *)
(* (enum constants share one name space), every case label is a defined   *)
(* constant, and no switch has two cases of the same value.  An enum     *)
(* needs at least one constant: C's enumerator-list is not optional.     *)
(***************************************************************************)
Compiles(h, d) ==
    LET cs == EnumConsts(h)
    IN  /\ h.families # <<>>
        /\ \A i \in 1..Len(h.enums) : h.enums[i].consts # <<>>
        /\ \A i, j \in 1..Len(cs) : i # j => cs[i].name # cs[j].name
        /\ \A i \in 1..Len(d) :
              /\ Defined(h, d[i].label)
              /\ \A j \in 1..Len(d[i].cases) : Defined(h, d[i].cases[j].label)
        /\ DistinctCases(h, [i \in 1..Len(d) |-> d[i].label])
        /\ \A i \in 1..Len(d) :
              DistinctCases(h, [j \in 1..Len(d[i].cases) |-> d[i].cases[j].label])

(***************************************************************************)
(* SDDL2_instruction_name_impl(uint16_t family, uint16_t opcode) of a     *)
(* pair that compiles.                                                     *)
(***************************************************************************)
InstructionName(h, d, family, opcode) ==
    LET k == SelectInSeq(d, LAMBDA c : ValueOf(h, c.label) = family)
    IN  IF k = 0
        THEN "?.?"
        ELSE LET j == SelectInSeq(d[k].cases,
                                  LAMBDA c : ValueOf(h, c.label) = opcode)
             IN  IF j = 0 THEN d[k].default ELSE d[k].cases[j].ret

(***************************************************************************)
(* The 32-bit instruction word (family id + opcode * 2^16) mod 2^32, held *)
(* as its low and high 16-bit halves: the decoder hands the two halves to *)
(* the lookup as uint16_t.                                                 *)
(***************************************************************************)
InstructionWord(fid, code) ==
    <<fid % 2^16, (code + fid \div 2^16) % 2^16>>

WordFamily(w) == w[1]

WordOpcode(w) == w[2]

=============================================================================
