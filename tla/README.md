# TLA+ models of the SDDL2 opcode header generator

The code of this repository under `src/` is six Python files. One of them
carries the logic:
`src/internal-complibs/openzl-0.1.0/src/openzl/compress/graphs/sddl2/generate_c_headers.py`
(below, `gen.py`). It compiles the opcode definition file `sddl2_opcodes.def`
into two C headers that must stay consistent with each other: `sddl2_opcodes.h`
(family and opcode enums) and `sddl2_disasm_generated.h` (the lookup
`SDDL2_instruction_name_impl(family, opcode)` used by the disassembler). The
other files are benchmark glue and documentation configuration.

## 1. Inventory

| Component | Code | State | Operations |
|---|---|---|---|
| Line classifier and parser | `parse_def_file`, gen.py 19-90 | `current_family`, `families` (name -> (id, description)), `opcodes` (list in document order) | one loop iteration per line: skip blank/comment; `@family` with description; `@family` without description; `@family` that matches neither pattern; indented opcode line that matches; indented opcode line that does not; any other line |
| Semantic model | the dict and list returned by `parse_def_file` | built once, never mutated afterwards | read by both generators |
| Constant-header generator | `generate_c_header`, gen.py 93-226 | none (pure) | family enum over `family_order` filtered by `families`; opcode enums over `family_order` filtered by `by_family`, each sorted by code; identifier derivation |
| Disassembler generator | `generate_c_disasm_header`, gen.py 229-354 | none (pure) | outer `switch (family)` over `family_order` filtered by `families`; empty families return `"<family>.?"`; inner `switch (opcode)` sorted by code with a `"<family>.?"` default; outer default `"?.?"` |
| Generated C | the emitted text | enum constants | what a compiler accepts; what the lookup returns for a pair of `uint16_t` halves of the 32-bit instruction word |
| Driver | `main`, gen.py 357-389 | the `.def` file, the two output files, the exit status | missing-input exit 1; parse; write the header; write the disassembler; return 0 |
| Benchmark aggregation | `src/bench/aggregate_multiple.py` | list of per-run number vectors, the `ReplaceNumbers` index | run a command, extract numbers, minimum per position, substitute them back |
| Plotting, grid extraction, Sphinx configuration | the remaining four files | none | straight-line I/O and settings |

How the parts interact: strictly one way. `main` reads the file, calls the
parser, calls the two generators on the same model and writes their results
one after the other. The two generators share nothing at run time but must
agree: the disassembler's case labels are the header's enum constant names,
both derive those names with the same code written twice, and both keep their
own copy of `family_order`.

What is hard here is not concurrency (there is none: one sequential process
with no callbacks) but the coupling of two independently written generators
through derived names and values, a parser whose context survives lines it
drops, unvalidated numeric width, and two non-atomic writes that must both
happen. Correctness for each component:

* parser: every opcode is bound to the family whose block it sits in; the
  open family is always a declared family; ids and codes fit in 16 bits (the
  data model's invariant).
* generators together: for a well-formed document the pair compiles, and the
  lookup returns the mnemonic for every declared (family id, code), the
  family sentinel for an unknown code of a listed family, `"?.?"` otherwise;
  families outside `family_order` appear nowhere.
* driver: both files from this run on exit 0, neither touched otherwise.

The hazards `PROJECT.json` lists, each at its line: the malformed `@family`
line that leaves the previous family open (gen.py 59); unbounded hex values
(87); the non-injective identifier rule (206); the two sequential truncating
writes (375, 381); the duplicated filters of the two generators (311); the
family enum opened for a document without families (146); the `families[...]` lookups that rely on the parser (194);
duplicate codes or ids that emit duplicate case labels (338); and in the
benchmark aggregator (`aggregate_multiple.py`): a `NUMBER` word already in
the output (37), runs of different formats (95), `--runs 0` (96), numbers
that are two regex matches (20), minima rounded to three decimals (43),
and a benchmark that never exits (15).

## 2. Modules

| Module | Models | How |
|---|---|---|
| `SddlGenerator` | both generators, the identifier rule, the stable sort, and the meaning of the emitted C | pure operators. `GenerateHeader(fams, ops)` and `GenerateDisasm(fams, ops)` return the emitted structure (enum constants as `[name, value]`, switch cases as `[label, ret]`) with banners, comments and layout left out. `Compiles(h, d)` is what a C compiler accepts (no enum without a constant, no enum constant twice, every label defined, no duplicate case value); `InstructionName(h, d, f, o)` is what the emitted lookup returns. Mnemonics are sequences of words; `Lower`/`Upper` are `str.lower`/`str.upper` given as tables on the words used, so the identifier rule is computed on real strings. |
| `SddlParser` | the loop of `parse_def_file` | variables `lines`, `idx`, `families`, `opcodes`, `currentFamily`; one action per branch of the loop body. A line is abstracted to the branch it drives: `blank`, `family` with `form` `described`/`bare`/`malformed`, or `opcode` with `indented` and `matches` flags plus the captured mnemonic and code. |
| `SddlDocument` | the specification's meaning of a document (not code) | family blocks of the grammar, `WellFormed`, `IdentsDistinct`, `DeclaresListed`, and `SpecName(doc, fid, code)` = name_of. Used only by properties. |
| `SddlDriver` | `main` | composes the parser and the generators: variables `defFile`, `pc`, `headerFile`, `disasmFile`, `exitCode`; actions `MissingInput`, `ReadDefFile`, `ParseStep`, `ParseReturn`, `WriteHeaderOk/Fails`, `WriteDisasmOk/Fails`. `Init` picks the `.def` content among all documents of at most `MaxLines` lines over `Lines`, or `Absent`. The output files start as `Previous`; a failing `write_text` either leaves the file (open failed) or leaves it `Torn` (failed after the truncating open), and the uncaught exception ends the process with status 1. |
| `SddlParseSpec` | what parsing promises (the specification's grammar, not code) | variables `doc`, `parsed`, `families`, `opcodes`; one step `Build` sets the model to `SpecFamilies(doc)` (each declared family with the id of its last declaration) and `SpecOpcodes(doc)` (the matching indented opcode lines of the blocks of declared families, in document order), both defined in `SddlDocument`. |
| `BenchAggregate` | `aggregate_multiple.py` | variables `warmups`, `runs` (the arguments), `numpy` (whether the installed numpy rejects ragged rows, as numpy >= 1.24 does, or makes an object array of them), `pc`, `i`, `exampleOutput`, `numbers`, `printed`, `status`. Actions: `WarmupRun`, `WarmupsDone`, `RunFails` (either assertion of `run_command`), `CollectFirst` (keeps the output as the template), `CollectNext`, and `Aggregate`, the whole tail of the script (`np.asarray`/`np.min`, the assertion, both `re.sub` calls, the print) with its outcome computed by `Aggregated`. A run's stdout is a sequence of regex-level tokens: a number match (value in ten-thousandths, count of decimals) or digit-free text; `Render` is the `str(int(x))` / `f"{x:.3f}"` conversion, which rounds to the nearest thousandth. A fourth decimal of exactly 5 rounds by the float's binary value, which the model does not keep, so `Aggregate` chooses the direction for each such value (`TieValues`). |
| `MC_SddlDriver`, `MC_BenchAggregate` | instances | line sets, case tables, looked-up words; benchmark outputs |

The properties of `BenchAggregate`:

* `TypeOK`.
* `MinimumOfRuns`: on exit 0 there is one row per run, and the printed text
  is the first run's output with its k-th number replaced by the least k-th
  number over all runs: that number itself when it has at most three
  decimals, otherwise a three-decimal number within half a thousandth of it
  (the `.3f` rounding of line 43, stated independently of `Render`).
* `Completion`: when at least one run was made, every run succeeded and all
  runs printed the same count of numbers, the script exits 0.
* `NoOutputReported`: with `--runs 0` the script stops at its assertion "No
  output was collected.".
* `QuantityMinimum`: each printed quantity (a plain number, or mantissa `e`
  exponent) is the least value that quantity took over the runs.

`EndToEnd`, in `MC_SddlDriver`: the end-to-end scenario of the
specification (§8) yields exactly `SDDL2_FAMILY_PUSH = 1`,
`SDDL2_OP_PUSH_ZERO = 0`, `SDDL2_OP_PUSH_ONE = 1` in that order, the cases
returning `"push.zero"` and `"push.one"`, and the default `"push.?"`, for
both orders of the opcode lines; this pins the identifier rule's prefix
stripping, which is case-insensitive in the code.

The properties, in `SddlDriver`:

* `OrderIndependence`: on exit 0, when codes are unique within each family,
  the two files are what the generators give for every reordering of the
  parsed opcodes (both generators sort each family by code; gen.py 198 and
  326), so the order of the opcode lines does not show in the output.
* `DeclaredContext`: the open family and the family of every parsed opcode
  are keys of `families` (why gen.py 194 and 316 never raise `KeyError`).
* `RoundTrip`: on exit 0 for a well-formed document that declares a
  family of `family_order` and has distinct identifiers, the files on disk compile together and the lookup agrees with
  the specification's name_of on every looked-up (family, opcode) pair. This
  is where the two generators' filters, sorts and identifier derivation must
  agree and where the canonical-order filter and sentinels are checked.
* `NoPartialOutput`: at the end, exit 0 means both files hold this run's
  output and any other status means both are untouched.
* `EncodedRoundTrip`: every emitted opcode, packed into an instruction word
  and decoded by the generated lookup, gives back its mnemonic.
* `WellFormedCompiles`: a well-formed document that declares a family of
  `family_order` gives a pair that compiles.
* `EmptyHeaderCompiles`: so does a well-formed document without one (an
  empty file, comments only).
* `NoSilentCollision`: on exit 0, if the pair compiles then no two opcodes
  of a listed family share a code and no two listed families share an id.
  The specification leaves collisions open; the code's answer is one case
  per opcode and per family, so a collision is a duplicate case label and
  a compile error, never a lookup that quietly returns one of two names.
* `ParseRefinement`: `main()` implements `SddlParseSpec` under the mapping
  that shows the parser's model once `parse_def_file` has returned and the
  empty model before; every other step of the driver is a stuttering step.
* `Attribution` (action property): each appended opcode is bound to the
  family whose `@family` line opens its block.

## 3. Runs

| Run | cfg | Expect | What it shows |
|---|---|---|---|
| roundtrip | `MC_SddlDriver_main.cfg` | pass | `OrderIndependence`, `DeclaredContext`, `RoundTrip`, `NoSilentCollision` over all 16,105 documents of up to 4 lines made of 11 kinds of line, plus the missing file, with writes that may fail (207,757 states, about ten seconds). |
| refinement | `MC_SddlDriver_refinement.cfg` | pass | `ParseRefinement` and `EndToEnd` on all documents of up to 4 lines over the main lines minus the malformed `@family` line, plus the scenario's `push.one` (143,337 states). With that line included the refinement fails: that is the attribution finding. |
| aggregate | `MC_BenchAggregate_main.cfg` | pass | `TypeOK`, `MinimumOfRuns`, `Completion` with 0 or 1 warmups and 0 to 3 runs, each run printing one of four outputs of one format (a decimal, a negative number, and `1.0006` and `1.0005`, whose fourth decimals are rounded away, one of them a tie) or an output without numbers or failing (1,102 states). The outputs share one format, so the two numpy behaviours, both enumerated, do not differ here; the ragged run is where they do. |
| attribution | `MC_SddlDriver_attribution.cfg` | violation | `PUSH` block, then `@family MATH` that matches no pattern, then `neg`: `neg` is bound to `PUSH`. |
| width | `MC_SddlDriver_width.cfg` | violation | `push.zero 0x10000` under `PUSH` is emitted; the word for it decodes to `"push.?"`. |
| idents | `MC_SddlDriver_idents.cfg` | violation | `push.zero` and `Zero` under `PUSH`: `SDDL2_OP_PUSH_ZERO` defined twice. |
| emptydoc | `MC_SddlDriver_emptydoc.cfg` | violation | an empty `.def` file (or a single blank or comment line): exit 0 with `enum sddl2_family {}`, which C rejects (`EmptyHeaderCompiles`). |
| partial | `MC_SddlDriver_partial.cfg` | violation | a failing write leaves a torn or mismatched pair of headers while the run exits 1. |
| ragged | `MC_BenchAggregate_ragged.cfg` | violation | runs printing `1.5 ... 9` and `2 ... 1 ... 5` under numpy < 1.24: exit 0 printing `9` where the other run printed `1` (`MinimumOfRuns`). |
| numberword | `MC_BenchAggregate_numberword.cfg` | violation | one run printing `NUMBER of items: 3`: `IndexError` after every run succeeded (`Completion`). |
| noruns | `MC_BenchAggregate_noruns.cfg` | violation | `--runs 0`: `ValueError` from `np.min` instead of the script's own assertion (`NoOutputReported`). |
| scientific | `MC_BenchAggregate_scientific.cfg` | violation | runs printing `9e-05` and `1e-04`: the script prints `1e-5` (`QuantityMinimum`). |

Bounds. `MainLines` has: a blank line; `@family PUSH 0x1 "..."`,
`@family MATH 0x2` (no description), `@family ODD 0x3 "..."` (not in
`family_order`), `@family CMP 4` (matches no pattern), `@family CMP 0x2 "..."` (the id of
`MATH`, and a second declaration of `CMP`); opcode lines
`push.zero 0x0`, `PUSH.one 0x1` (prefix in another case), `neg 0x0`, an
unindented `neg`, and an indented line the opcode pattern rejects. Four lines
are enough for a family with two opcodes out of code order followed by a
second family, for an empty family beside a non-empty one, for a family
redeclared, and for opcodes before any family. Looked-up words use family ids
0..4 (0 and 4 never declared successfully) and codes 0..2 (2 never declared),
so both sentinels are reached.

For the aggregator, three runs with three distinct outputs are enough for the
minimum of a position to come from a run other than the first, and for the
two positions' minima to come from different runs; 0 runs and a warmup reach
the empty aggregate and a failure during the warmups.

Fairness: none is assumed, and no property is a liveness property. Both
programs are sequential, and their loops are `for` loops over a range or
over the lines of the file, which end once every call returns. The one
progress question is whether a benchmark process returns:
`subprocess.run` has no timeout, so a hung benchmark blocks the aggregator
forever and nothing in the code recovers. That is listed as a hazard (line
15), not checked. A terminal state is a real stop in both programs, which
is why the cfgs say `CHECK_DEADLOCK FALSE`.

Mutants: each passing property is shown to catch a plausible bug in the code
it is about: a malformed `@family`
line that opens its family (`DeclaredContext`), a disassembler that walks only
families with opcodes and so loses the empty-family sentinel (`RoundTrip`),
an opcode branch without the indentation test (`ParseRefinement`), a
generator without `sorted()` (`OrderIndependence`), a prefix test that compares without lower-casing (`EndToEnd`), a
disassembler that keeps one case per code and per family id, last one wins
(`NoSilentCollision`);
in the aggregator, the first run's pair unpacked the wrong way round
(`TypeOK`), the first run's numbers not appended (`MinimumOfRuns`), the
fourth decimal truncated instead of rounded (`MinimumOfRuns`),
and `ReplaceNumbers` starting its index at 1 (`Completion`).

## 4. What is not modelled

* Regular-expression matching is abstracted to which pattern matches; the
  grammar's corner cases (empty dot segments in a mnemonic, a quote inside a
  description) are not enumerated.
* Descriptions, parameter lists, banners, comments and layout only change
  comment text of the output.
* The plotting and grid scripts and the Sphinx configurations: straight-line
  I/O and settings, no behaviour to check.
* In the aggregator: argument parsing errors (argparse exits 2), the progress
  prints, and numbers with more than four decimals (the model's unit is a
  ten-thousandth, one decimal past the printed form, which is enough for
  the rounding to happen); a benchmark whose text differs between runs while its count of
  numbers does not is the same to the script and is not separately checked.

## 5. Plan

Done: steps 1-4 below. Step 5 is left: what a rerun repairs depends on the
build rule that invokes the generator, which is not in this repository.

1. `SddlGenerator`, `SddlParser`, `SddlDriver` with the round-trip run and
   the four violation runs (the core: the consistency of the two generated
   headers).
2. Abstract specification of the parser: a module `SddlParseSpec` whose
   single step maps a document to its model by the family-block grammar,
   with the parser shown to implement it under a refinement mapping
   (`INSTANCE ... WITH`) for documents whose `@family` lines all match; its
   failure on the others is the attribution finding stated as refinement.
3. Order determinism of the generators (the header and the lookup are the
   same for every document order of the same opcodes when codes are
   unique), now `OrderIndependence` of the driver, and the identifier rule
   against the example of the specification (`EndToEnd`). The sort itself is
   Python's built-in stable `sorted()`, so it is not checked against a
   reference.
4. `BenchAggregate`: `aggregate_multiple.py` as a sequence of runs with
   varying numbers of extracted values, the per-position minimum, and the
   `ReplaceNumbers` substitution, with properties on the aggregated text and
   the two hazards listed for it.
5. More of the driver: a crash between the two writes followed by a rerun
   (the build system regenerating), to state what a later successful run
   repairs.
