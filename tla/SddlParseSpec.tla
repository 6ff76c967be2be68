---------------------------- MODULE SddlParseSpec ----------------------------
(***************************************************************************)
(* What parsing promises, abstractly: in one step the model becomes the   *)
(* families and opcodes the grammar's family blocks define (SpecFamilies, *)
(* SpecOpcodes of SddlDocument).  SddlDriver is checked to implement it.  *)
(***************************************************************************)
EXTENDS SddlDocument

VARIABLES
    doc,        \* the document being parsed
    parsed,     \* whether the model has been built
    families,   \* family name -> id
    opcodes     \* sequence of [mnemonic, family, code]

absVars == <<doc, parsed, families, opcodes>>

Init ==
    /\ parsed = FALSE
    /\ families = [f \in {} |-> 0]
    /\ opcodes = <<>>

Build ==
    /\ ~parsed
    /\ parsed' = TRUE
    /\ families' = SpecFamilies(doc)
    /\ opcodes' = SpecOpcodes(doc)
    /\ UNCHANGED doc

Spec == Init /\ [][Build]_absVars

=============================================================================
