--------------------------- MODULE MC_SddlDriver ---------------------------
(***************************************************************************)
(* Instances of SddlDriver for TLC: small sets of .def lines, the case    *)
(* tables of the words they use, and the instruction words looked up.     *)
(***************************************************************************)
EXTENDS SddlDriver, TLC

Blank == [kind |-> "blank"]

Fam(n, i, form) == [kind |-> "family", name |-> n, id |-> i, form |-> form]

Op(m, c, indented, matches) ==
    [kind |-> "opcode", indented |-> indented, mnemonic |-> m, code |-> c,
     matches |-> matches]

\* str.lower and str.upper of the family names and mnemonic words used.
MCLower ==
    "PUSH" :> "push" @@ "MATH" :> "math" @@ "ODD" :> "odd" @@ "CMP" :> "cmp"
    @@ "push" :> "push" @@ "zero" :> "zero" @@ "one" :> "one"
    @@ "neg" :> "neg" @@ "Zero" :> "zero"

MCUpper ==
    "PUSH" :> "PUSH" @@ "MATH" :> "MATH" @@ "ODD" :> "ODD" @@ "CMP" :> "CMP"
    @@ "push" :> "PUSH" @@ "zero" :> "ZERO" @@ "one" :> "ONE"
    @@ "neg" :> "NEG" @@ "Zero" :> "ZERO"

(***************************************************************************)
(* Main instance: two canonical families, one family outside family_order *)
(* and a malformed @family line; opcodes with and without the family       *)
(* prefix (in either case), an unindented and an unmatched opcode line.   *)
(***************************************************************************)
MainLines ==
    { Blank,
      Fam("PUSH", 1, "described"), Fam("MATH", 2, "bare"),
      Fam("ODD", 3, "described"), Fam("CMP", 4, "malformed"),
      Fam("CMP", 2, "described"),
      Op(<<"push", "zero">>, 0, TRUE, TRUE), Op(<<"PUSH", "one">>, 1, TRUE, TRUE),
      Op(<<"neg">>, 0, TRUE, TRUE),
      Op(<<"neg">>, 1, FALSE, TRUE), Op(<<"neg">>, 1, TRUE, FALSE) }

MainFamilyIds == {0, 1, 2, 3, 4}

MainCodes == {0, 1, 2}

\* The main lines whose @family lines all match a pattern, and push.one.
MatchedLines ==
    (MainLines \ {Fam("CMP", 4, "malformed")}) \cup {Op(<<"push", "one">>, 1, TRUE, TRUE)}

\* The end-to-end scenario of the specification, opcodes in either order.
ScenarioDocs ==
    { <<Fam("PUSH", 1, "described"),
        Op(<<"push", "zero">>, 0, TRUE, TRUE), Op(<<"push", "one">>, 1, TRUE, TRUE)>>,
      <<Fam("PUSH", 1, "described"),
        Op(<<"push", "one">>, 1, TRUE, TRUE), Op(<<"push", "zero">>, 0, TRUE, TRUE)>> }

(***************************************************************************)
(* The specification's end-to-end scenario: @family PUSH 0x0001 with       *)
(* push.zero 0x0000 and push.one 0x0001 gives SDDL2_FAMILY_PUSH = 1, the   *)
(* constants SDDL2_OP_PUSH_ZERO = 0 and SDDL2_OP_PUSH_ONE = 1 in that      *)
(* order, and cases returning "push.zero" and "push.one" with the default  *)
(* "push.?", whichever order the opcode lines are written in.              *)
(***************************************************************************)
EndToEnd ==
    (pc = "done" /\ exitCode = 0 /\ defFile \in ScenarioDocs) =>
        LET zero == [name |-> "SDDL2_OP_PUSH_ZERO", value |-> 0]
            one  == [name |-> "SDDL2_OP_PUSH_ONE", value |-> 1]
        IN  /\ headerFile.families = <<[name |-> "SDDL2_FAMILY_PUSH", value |-> 1]>>
            /\ headerFile.enums = <<[family |-> "PUSH", consts |-> <<zero, one>>]>>
            /\ disasmFile =
                  <<[label   |-> "SDDL2_FAMILY_PUSH",
                     cases   |-> <<[label |-> zero.name, ret |-> "push.zero"],
                                   [label |-> one.name, ret |-> "push.one"]>>,
                     default |-> "push.?"]>>

\* A @family line that does not match, followed by its opcodes.
AttributionLines ==
    { Fam("PUSH", 1, "described"), Fam("MATH", 2, "malformed"),
      Op(<<"neg">>, 0, TRUE, TRUE) }

\* An opcode code written with more than 16 bits.
WidthLines ==
    { Fam("PUSH", 1, "described"),
      Op(<<"neg">>, 0, TRUE, TRUE), Op(<<"push", "zero">>, 65536, TRUE, TRUE) }

\* A document with no family of family_order: blank and comment lines.
EmptyLines == {Blank}

\* Two distinct mnemonics of one family with one derived identifier.
IdentLines ==
    { Fam("PUSH", 1, "described"),
      Op(<<"push", "zero">>, 0, TRUE, TRUE), Op(<<"Zero">>, 1, TRUE, TRUE) }

=============================================================================
