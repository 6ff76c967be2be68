---------------------------- MODULE SddlDocument ----------------------------
(***************************************************************************)
(* What the specification of the generator says a .def document means,   *)
(* stated on the document itself and not on the parser's result: the      *)
(* grammar groups lines into family blocks, a well-formed document has    *)
(* unique family names and ids, codes unique within a family and 16-bit   *)
(* values, and name_of(family, opcode) is defined from the blocks.  The   *)
(* properties of SddlDriver compare the generated C against these.        *)
(***************************************************************************)
EXTENDS SddlGenerator

IsFamilyLine(l) == l.kind = "family"

IsOpcodeLine(l) == l.kind = "opcode"

(***************************************************************************)
(* family_block := family_decl opcode_decl*: the line that opens the      *)
(* block line i belongs to, 0 before the first @family line.  Every       *)
(* "@family" line opens a block, whether or not its pattern matches.      *)
(***************************************************************************)
BlockOf(doc, i) == SelectLastInSubSeq(doc, 1, i - 1, IsFamilyLine)

\* A line the grammar accepts.
Recognized(doc, i) ==
    \/ doc[i].kind = "blank"
    \/ IsFamilyLine(doc[i]) /\ doc[i].form # "malformed"
    \/ IsOpcodeLine(doc[i]) /\ doc[i].indented /\ doc[i].matches
       /\ BlockOf(doc, i) > 0

FamilyLines(doc) == {i \in 1..Len(doc) : IsFamilyLine(doc[i])}

OpcodeLines(doc) == {i \in 1..Len(doc) : IsOpcodeLine(doc[i])}

\* Some @family line declares a family of family_order.
DeclaresListed(doc) ==
    \E i \in FamilyLines(doc) : doc[i].name \in Range(FamilyOrder)

\* The family an opcode line's block declares.
BlockName(doc, i) == doc[BlockOf(doc, i)].name

(***************************************************************************)
(* The semantic model the specification's parser section builds: the     *)
(* declared families with the id of their last declaration, and the       *)
(* opcode lines that sit in the block of a declared family, in document   *)
(* order.  An opcode line in the block of an @family line that is not a   *)
(* family_decl is outside any family context and is dropped.              *)
(***************************************************************************)
Declarations(doc) == {i \in FamilyLines(doc) : doc[i].form # "malformed"}

SpecFamilies(doc) ==
    LET ds == Declarations(doc)
        LastDecl(n) == CHOOSE i \in ds : doc[i].name = n /\
                           \A j \in ds : doc[j].name = n => j <= i
    IN  [n \in {doc[i].name : i \in ds} |-> doc[LastDecl(n)].id]

InDeclaredBlock(doc, i) ==
    /\ IsOpcodeLine(doc[i]) /\ doc[i].indented /\ doc[i].matches
    /\ BlockOf(doc, i) \in Declarations(doc)

SpecOpcodes(doc) ==
    LET is == SetToSortSeq({i \in 1..Len(doc) : InDeclaredBlock(doc, i)}, <)
    IN  [k \in 1..Len(is) |-> [mnemonic |-> doc[is[k]].mnemonic,
                                family   |-> BlockName(doc, is[k]),
                                code     |-> doc[is[k]].code]]

(***************************************************************************)
(* A well-formed document in the sense of the data model: every line is   *)
(* recognized, family names and ids are unique, an opcode code is unique  *)
(* within its family, and every id and code fits in 16 bits.  Mnemonics   *)
(* are not required to be unique.                                          *)
(***************************************************************************)
WellFormed(doc) ==
    /\ \A i \in 1..Len(doc) : Recognized(doc, i)
    /\ \A i, j \in FamilyLines(doc) :
          i # j => doc[i].name # doc[j].name /\ doc[i].id # doc[j].id
    /\ \A i, j \in OpcodeLines(doc) :
          i # j /\ BlockOf(doc, i) = BlockOf(doc, j) => doc[i].code # doc[j].code
    /\ \A i \in FamilyLines(doc) : doc[i].id < 2^16
    /\ \A i \in OpcodeLines(doc) : doc[i].code < 2^16

\* The identifier rule of the specification gives distinct opcode
\* constants within each family.
IdentsDistinct(doc) ==
    \A i, j \in OpcodeLines(doc) :
        i # j /\ BlockOf(doc, i) = BlockOf(doc, j) =>
            CName(BlockName(doc, i), doc[i].mnemonic)
                # CName(BlockName(doc, j), doc[j].mnemonic)

(***************************************************************************)
(* name_of(family_id, opcode_id) of a well-formed document: the mnemonic  *)
(* of the opcode with that code in the canonical family with that id, the *)
(* "<family>.?" sentinel when the family has no such opcode, "?.?" when   *)
(* no canonical family has that id.                                        *)
(***************************************************************************)
SpecName(doc, fid, code) ==
    LET fams == {i \in FamilyLines(doc) :
                    doc[i].id = fid /\ \E k \in 1..Len(FamilyOrder) :
                                          FamilyOrder[k] = doc[i].name}
    IN  IF fams = {}
        THEN "?.?"
        ELSE LET b   == CHOOSE i \in fams : TRUE
                 ops == {i \in OpcodeLines(doc) :
                            BlockOf(doc, i) = b /\ doc[i].code = code}
             IN  IF ops = {}
                 THEN Sentinel(doc[b].name)
                 ELSE MnemonicText(doc[CHOOSE i \in ops : TRUE].mnemonic)

=============================================================================
