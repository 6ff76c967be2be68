--------------------------- MODULE BenchAggregate ---------------------------
(***************************************************************************)
(* bench/aggregate_multiple.py: run a benchmark command Warmups times,    *)
(* then Runs times, extract every number of each run's stdout, take the   *)
(* minimum of each position over the runs, and print the first run's      *)
(* output with its numbers replaced by those minima.                      *)
(*                                                                         *)
(* A run's stdout is a sequence of tokens at the level of the number      *)
(* regex -?\d+(?:\.\d+)?:                                                 *)
(*   [kind |-> "num", val, dec]   one match; val is its value in units   *)
(*                                of 1/Scale, dec its count of decimals   *)
(*   [kind |-> "text", word]      text between matches, without digits;   *)
(*                                word "NUMBER" is text containing it.    *)
(* Failed is a run whose return code is not 0.  The numpy version decides *)
(* what np.asarray does with rows of different lengths: "rejects" raises  *)
(* ValueError (numpy >= 1.24), "objects" builds an object array whose      *)
(* minimum is the least row in list order (older numpy).                   *)
(***************************************************************************)
EXTENDS Integers, Sequences, SequencesExt, FiniteSetsExt

CONSTANTS
    Outputs,        \* the stdout texts a successful process may print
    Failed,         \* a process that exits with a non-zero return code
    WarmupArgs,     \* values of --warmups
    RunArgs,        \* values of --runs
    NumpyBuilds,    \* subset of {"rejects", "objects"}
    None            \* example_output = None; no printed output

VARIABLES
    warmups, runs,  \* args.warmups, args.runs
    numpy,          \* how the installed numpy treats ragged rows
    pc,             \* where the script is
    i,              \* index of the loop in progress
    exampleOutput,  \* example_output
    numbers,        \* numbers: one row of extracted values per run
    printed,        \* aggregated_output, once printed
    status          \* "running", "Ok" (exit 0), or the exception that ends the script

\* Values are held in ten-thousandths: one decimal more than the printed form.
Scale == 10000

vars == <<warmups, runs, numpy, pc, i, exampleOutput, numbers, printed, status>>

Word(w) == [kind |-> "text", word |-> w]

IsNum(t) == t.kind = "num"

\* [float(n) for n in re.findall(number_regex, out)]
FindNumbers(out) ==
    LET ns == SelectSeq(out, IsNum) IN [k \in 1..Len(ns) |-> ns[k].val]

\* run_command's two assertions: return code 0 and at least one number.
Succeeds(out) == out # Failed /\ FindNumbers(out) # <<>>

\* Python's list comparison a < b.
RECURSIVE ListLess(_, _)
ListLess(a, b) ==
    IF a = <<>> \/ b = <<>> THEN a = <<>> /\ b # <<>>
    ELSE IF Head(a) # Head(b) THEN Head(a) < Head(b)
         ELSE ListLess(Tail(a), Tail(b))

Ragged(rows) == \E r, s \in 1..Len(rows) : Len(rows[r]) # Len(rows[s])

\* np.min(np.asarray(rows), axis=0) on rows of equal length.
ColumnMin(rows) ==
    [k \in 1..Len(rows[1]) |-> Min({rows[r][k] : r \in 1..Len(rows)})]

\* The same on an object array of lists: np.minimum reduces with <.
LeastRow(rows) ==
    FoldLeft(LAMBDA m, r : IF ListLess(r, m) THEN r ELSE m, rows[1], Tail(rows))

\* re.sub(number_regex, "NUMBER", example_output)
Template(out) == [k \in DOMAIN out |-> IF IsNum(out[k]) THEN Word("NUMBER") ELSE out[k]]

\* Mutant: the fourth decimal is cut off instead of rounded.
RenderTruncated(v, up) ==
    IF v % Scale = 0 THEN [kind |-> "num", val |-> v, dec |-> 0]
    ELSE [kind |-> "num", val |-> v - (v % 10), dec |-> 3]

(***************************************************************************)
(* str(int(x)) when x.is_integer(), else f"{x:.3f}": x rounded to the     *)
(* nearest thousandth.  Whether a fourth decimal of exactly 5 rounds up   *)
(* depends on the binary value of the float, which the model does not     *)
(* keep: up[v] gives that outcome for each such value v.                  *)
(***************************************************************************)
Render(v, up) ==
    LET r == v % 10
        rounded == v - r + (IF r > 5 \/ (r = 5 /\ up[v]) THEN 10 ELSE 0)
    IN  IF v % Scale = 0 THEN [kind |-> "num", val |-> v, dec |-> 0]
        ELSE [kind |-> "num", val |-> rounded, dec |-> 3]

\* The values whose fourth decimal is 5 among the rows.
TieValues(rows) ==
    {v \in UNION {Range(rows[r]) : r \in DOMAIN rows} : v % 10 = 5}

(***************************************************************************)
(* re.sub("NUMBER", ReplaceNumbers(mins), template) with self.index       *)
(* starting at start: each NUMBER is replaced by the next minimum, and    *)
(* reading past the end raises IndexError (ok is FALSE).                  *)
(***************************************************************************)
ReplaceNumbers(template, mins, up, start) ==
    LET Step(acc, t) ==
            CASE ~acc.ok                -> acc
              [] t # Word("NUMBER")     -> [acc EXCEPT !.out = Append(@, t)]
              [] acc.index >= Len(mins) -> [acc EXCEPT !.ok = FALSE]
              [] OTHER -> [acc EXCEPT !.out = Append(@, Render(mins[acc.index + 1], up)),
                                      !.index = @ + 1]
    IN  FoldLeft(Step, [ok |-> TRUE, out |-> <<>>, index |-> start], template)

\* Mutant: self.index starts at 1.
SubstituteFromOne(template, mins, up) == ReplaceNumbers(template, mins, up, 1)

Substitute(template, mins, up) == ReplaceNumbers(template, mins, up, 0)

(***************************************************************************)
(* The lines after the loop: np.asarray and np.min, the assertion that    *)
(* some output was collected, the two substitutions and the print; the    *)
(* result is the exit status and the printed text.                        *)
(***************************************************************************)
Aggregated(rows, example, build, up) ==
    LET mins == IF Ragged(rows) THEN LeastRow(rows) ELSE ColumnMin(rows)
        text == Substitute(Template(example), mins, up)
    IN  CASE rows = <<>> \/ (Ragged(rows) /\ build = "rejects")
                                -> [status |-> "ValueError", printed |-> None]
          [] example = None     -> [status |-> "NoOutput", printed |-> None]
          [] ~text.ok           -> [status |-> "IndexError", printed |-> None]
          [] OTHER              -> [status |-> "Ok", printed |-> text.out]

Init ==
    /\ warmups \in WarmupArgs
    /\ runs \in RunArgs
    /\ numpy \in NumpyBuilds
    /\ pc = "warmup"
    /\ i = 0
    /\ exampleOutput = None
    /\ numbers = <<>>
    /\ printed = None
    /\ status = "running"

\* Either loop is at an iteration: for i in range(n).
Iterating == \/ pc = "warmup" /\ i < warmups
             \/ pc = "collect" /\ i < runs

\* run_command(args.command) during the warmups.
WarmupRun ==
    /\ pc = "warmup" /\ i < warmups
    /\ \E out \in Outputs : Succeeds(out)
    /\ i' = i + 1
    /\ UNCHANGED <<warmups, runs, numpy, pc, exampleOutput, numbers, printed, status>>

WarmupsDone ==
    /\ pc = "warmup" /\ i >= warmups
    /\ pc' = "collect"
    /\ i' = 0
    /\ UNCHANGED <<warmups, runs, numpy, exampleOutput, numbers, printed, status>>

\* A run fails one of run_command's assertions: the script ends.
RunFails ==
    /\ Iterating
    /\ \E out \in Outputs \cup {Failed} : ~Succeeds(out)
    /\ pc' = "done"
    /\ status' = "RunFailed"
    /\ UNCHANGED <<warmups, runs, numpy, i, exampleOutput, numbers, printed>>

\* Mutant: the pair is unpacked the wrong way round (text, values = ...).
CollectFirstSwapped ==
    /\ pc = "collect" /\ i < runs /\ exampleOutput = None
    /\ \E out \in Outputs :
          /\ Succeeds(out)
          /\ exampleOutput' = FindNumbers(out)
          /\ numbers' = Append(numbers, out)
    /\ i' = i + 1
    /\ UNCHANGED <<warmups, runs, numpy, pc, printed, status>>

\* Mutant: the first run's numbers are not appended.
CollectFirstDropped ==
    /\ pc = "collect" /\ i < runs /\ exampleOutput = None
    /\ \E out \in Outputs : Succeeds(out) /\ exampleOutput' = out
    /\ i' = i + 1
    /\ UNCHANGED <<warmups, runs, numpy, pc, numbers, printed, status>>

\* values, text = run_command(..., return_output=True)
CollectFirst ==
    /\ pc = "collect" /\ i < runs /\ exampleOutput = None
    /\ \E out \in Outputs :
          /\ Succeeds(out)
          /\ exampleOutput' = out
          /\ numbers' = Append(numbers, FindNumbers(out))
    /\ i' = i + 1
    /\ UNCHANGED <<warmups, runs, numpy, pc, printed, status>>

\* numbers.append(run_command(args.command))
CollectNext ==
    /\ pc = "collect" /\ i < runs /\ exampleOutput # None
    /\ \E out \in Outputs :
          Succeeds(out) /\ numbers' = Append(numbers, FindNumbers(out))
    /\ i' = i + 1
    /\ UNCHANGED <<warmups, runs, numpy, pc, exampleOutput, printed, status>>

Aggregate ==
    /\ pc = "collect" /\ i >= runs
    /\ pc' = "done"
    /\ \E up \in [TieValues(numbers) -> BOOLEAN] :
          LET res == Aggregated(numbers, exampleOutput, numpy, up)
          IN  status' = res.status /\ printed' = res.printed
    /\ UNCHANGED <<warmups, runs, numpy, i, exampleOutput, numbers>>

Next ==
    \/ WarmupRun
    \/ WarmupsDone
    \/ RunFails
    \/ CollectFirst
    \/ CollectNext
    \/ Aggregate

Spec == Init /\ [][Next]_vars

-----------------------------------------------------------------------------
(***************************************************************************)
(* Properties                                                              *)
(***************************************************************************)

TypeOK ==
    /\ pc \in {"warmup", "collect", "done"}
    /\ i \in Nat
    /\ exampleOutput \in Outputs \cup {None}
    /\ numbers \in Seq(Seq(Int))
    /\ status \in {"running", "Ok", "RunFailed", "ValueError", "NoOutput", "IndexError"}

Dist(a, b) == IF a >= b THEN a - b ELSE b - a

\* The least value at position k over the rows that have one.
PositionMin(rows, k) ==
    Min({rows[r][k] : r \in {r \in 1..Len(rows) : k <= Len(rows[r])}})

(***************************************************************************)
(* The aggregate is the per-position minimum (the help text: "aggregate   *)
(* all numbers in the output"): on exit 0 one row was collected per run,  *)
(* and the printed output is the first run's output with its k-th number  *)
(* replaced by the least k-th number of all runs: that very number when   *)
(* it has at most three decimals, otherwise a number of three decimals no *)
(* more than half a thousandth from it (the .3f form at line 43 rounds).  *)
(***************************************************************************)
MinimumOfRuns ==
    (pc = "done" /\ status = "Ok") =>
        LET shown == FindNumbers(printed)
        IN  /\ Len(numbers) = runs
            /\ Template(printed) = Template(exampleOutput)
            /\ Len(shown) = Len(FindNumbers(exampleOutput))
            /\ \A k \in 1..Len(shown) :
                  LET m == PositionMin(numbers, k)
                  IN  IF m % 10 = 0 THEN shown[k] = m
                      ELSE /\ shown[k] % 10 = 0
                           /\ 2 * Dist(shown[k], m) <= 10

(***************************************************************************)
(* When at least one run was made, every run succeeded and all runs       *)
(* printed the same count of numbers, the script prints its aggregate and *)
(* exits 0.                                                                *)
(***************************************************************************)
Completion ==
    (pc = "done" /\ status # "RunFailed" /\ runs >= 1 /\ ~Ragged(numbers))
        => status = "Ok"

(***************************************************************************)
(* With --runs 0 (or less) the script stops at its own assertion "No      *)
(* output was collected." after the loops.                                 *)
(***************************************************************************)
NoOutputReported ==
    (pc = "done" /\ runs <= 0 /\ status # "RunFailed") => status = "NoOutput"

(***************************************************************************)
(* Quantities: a number printed in scientific notation ("9e-05") is two   *)
(* matches of the regex, a mantissa and an exponent, around the text "e". *)
(* Groups(out) lists, for each quantity of out, the position of its       *)
(* mantissa among the matches and of its exponent (0 for a plain number). *)
(* A quantity [m, e] is worth m * 10^e units of 1/Scale.                  *)
(***************************************************************************)
RECURSIVE GroupsFrom(_, _, _)
GroupsFrom(out, j, k) ==
    IF j > Len(out) THEN <<>>
    ELSE IF IsNum(out[j]) /\ j + 2 <= Len(out) /\ out[j + 1] = Word("e")
            /\ IsNum(out[j + 2]) /\ out[j + 2].dec = 0
         THEN <<[m |-> k + 1, e |-> k + 2]>> \o GroupsFrom(out, j + 3, k + 2)
    ELSE IF IsNum(out[j]) THEN <<[m |-> k + 1, e |-> 0]>> \o GroupsFrom(out, j + 1, k + 1)
    ELSE GroupsFrom(out, j + 1, k)

Quantity(row, g) == [m |-> row[g.m], e |-> IF g.e = 0 THEN 0 ELSE row[g.e] \div Scale]

QLeq(a, b) ==
    LET lo == IF a.e < b.e THEN a.e ELSE b.e
    IN  a.m * 10^(a.e - lo) <= b.m * 10^(b.e - lo)

(***************************************************************************)
(* Each quantity the script prints is the least value that quantity took  *)
(* over the runs, when all runs printed in the first run's format.         *)
(***************************************************************************)
QuantityMinimum ==
    (pc = "done" /\ status = "Ok") =>
        \A g \in ToSet(GroupsFrom(exampleOutput, 1, 0)) :
            LET shown == Quantity(FindNumbers(printed), g)
            IN  /\ \A r \in 1..Len(numbers) : QLeq(shown, Quantity(numbers[r], g))
                /\ \E r \in 1..Len(numbers) : QLeq(Quantity(numbers[r], g), shown)

=============================================================================
