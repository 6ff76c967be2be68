------------------------- MODULE MC_BenchAggregate -------------------------
(***************************************************************************)
(* Instances of BenchAggregate: benchmark outputs as token sequences.     *)
(***************************************************************************)
EXTENDS BenchAggregate, TLC

N(v, d) == [kind |-> "num", val |-> v, dec |-> d]

\* "time 1.5 ms, delta 3": two numbers, the first with d decimals.
Timed(a, d, b) == <<Word("time "), N(a, d), Word(" ms, delta "), N(b, 0)>>

\* Successful outputs of one format, and one that prints no number;
\* "1.0006" and "1.0005" have a fourth decimal that .3f rounds away.
MainOutputs ==
    {Timed(15000, 1, 30000), Timed(20000, 0, -10000), Timed(10006, 4, 30000),
     Timed(10005, 4, 20000), <<Word("error")>>}

\* Two runs that print two and three numbers.
RaggedOutputs ==
    {Timed(15000, 1, 90000), Timed(20000, 0, 10000) \o <<Word(" n "), N(50000, 0)>>}

\* An output whose text contains the word NUMBER.
WordOutputs == {<<Word("NUMBER"), Word(" of items: "), N(30000, 0)>>}

\* "time 9e-05 s" and "time 1e-04 s": printf %g of small times.
Sci(m, e) == <<Word("time "), N(m, 0), Word("e"), N(e, 0), Word(" s")>>

SciOutputs == {Sci(90000, -50000), Sci(10000, -40000)}

=============================================================================
