---------------------------- MODULE ChartScripts ----------------------------
(***************************************************************************)
(* What each plotting script of the repository asks pyplot to draw, with   *)
(* the measurement tables abstracted to what the checks tell apart: how    *)
(* the figure is obtained (plt.figure(1) + plt.clf() or plt.subplots),     *)
(* its figsize, the axes it creates in creation order, for every series    *)
(* the lengths of the x and y lists handed to plot/errorbar, the number    *)
(* of fixed x ticks and the lengths of every set_xticklabels call, and     *)
(* the file passed to plt.savefig.  The y values themselves are modelled   *)
(* only in ErrorBarLoop, where a property is about them.                   *)
(***************************************************************************)
EXTENDS Naturals, Sequences

\* One series handed to ax.plot or ax.errorbar: its legend label and the
\* lengths of the x list and of the y list.
Series(name, nx, ny) == [name |-> name, nx |-> nx, ny |-> ny]

\* A series of an ax.plot script: `for c, t in entries` appends c to
\* replica_no and t to throughput, so both lists have one item per entry.
Unzipped(name, n) == Series(name, n, n)

\* An axes: its series, the number of locations given to set_xticks (0 when
\* set_xticks is never called) and the length of every set_xticklabels call.
Axis(series, ticks, labels) == [series |-> series, ticks |-> ticks, labels |-> labels]

\* The axes of a plt.figure(1) script: x ticks are left to the locator.
PlotAxis(series) == Axis(series, 0, <<>>)

\* mode "figure1": plt.figure(1, figsize); plt.clf(); f.add_subplot(1, 1, 1)
\* mode "subplots": plt.subplots(rows, 1, figsize), then ax.twinx() if any.
\* No script creates more axes than two subplots and one twin.
MaxAxes == 3

Chart(mode, size, axes, out) ==
    [mode |-> mode, size |-> size, axes |-> axes, out |-> out]

-----------------------------------------------------------------------------
(* Plausible faults of the scripts, used by the mutation checks.           *)

\* proposers.py with one x tick label dropped from the hidden-label tuple.
proposers_short_labels ==
    Chart("subplots", <<6, 6>>,
          << Axis(<< Series("Throughput", 13, 13) >>, 13, <<13, 12>>),
             Axis(<< Series("Safe Rate", 13, 13) >>, 13, <<13>>) >>,
          "proposers.pdf")

\* The 6w-tps copy of phalanx-hs-n10-faulty.py still saving under the name
\* of the copy it was made from.
n10_6wtps_faulty_same_out ==
    Chart("figure1", <<8, 4>>,
          << PlotAxis(<< Unzipped("Safe-Rate", 11), Unzipped("Front-Attacked-Rate", 11),
                         Unzipped("Front-Attacked-Rate(Risk)", 11),
                         Unzipped("Front-Attacked-Rate(Safe)", 11) >>) >>,
          "front-attack-rate-overload.pdf")

\* scalability.py with the twin-axes block copied for ax[1] as well.
scalability_docs_second_twin ==
    Chart("subplots", <<6, 6>>,
          << Axis(<< Series("Throughput", 12, 12) >>, 12, <<12, 12>>),
             Axis(<< Series("Safe Rate", 12, 12) >>, 12, <<12>>),
             Axis(<< Series("Block Rate", 12, 12) >>, 12, <<12, 12>>),
             Axis(<< Series("Block Rate", 12, 12) >>, 12, <<12, 12>>) >>,
          "scalability.pdf")

-----------------------------------------------------------------------------
(* The scripts.                                                            *)

attack ==
    Chart("figure1", <<6, 3>>,
          << PlotAxis(<< Unzipped("safe rate", 11), Unzipped("attacked rate", 11) >>) >>,
          "attacked.pdf")

multi_evaluation ==
    Chart("figure1", <<8, 4>>,
          << PlotAxis([i \in 1..10 |->
                 Unzipped(<<"Phalanx-HS", "HS", "Phalanx-TCHS", "TCHS", "Phalanx-SL",
                            "SL", "Phalanx-FHS", "FHS", "Phalanx-LBFT", "LBFT">>[i], 4)]) >>,
          "multi_evaluation.pdf")

\* errorbar(replica_no, thru): x is replica_no (4 items), y one per entry.
proposers_tps ==
    Chart("subplots", <<6, 3>>,
          << Axis(<< Series("Throughput", 4, 4) >>, 4, <<>>),
             Axis(<< Series("Block Rate", 4, 4) >>, 4, <<4, 4>>) >>,
          "proposers_tps.pdf")

tps_faulty_reliable ==
    Chart("figure1", <<6, 3>>,
          << PlotAxis(<< Unzipped("Safe-Rate", 4) >>) >>,
          "front-attack-rate-tps.pdf")

\* Axes in creation order: ax[0], ax[1] (plt.subplots), then ax[0].twinx().
scalability_docs ==
    Chart("subplots", <<6, 6>>,
          << Axis(<< Series("Throughput", 12, 12) >>, 12, <<12, 12>>),
             Axis(<< Series("Safe Rate", 12, 12) >>, 12, <<12>>),
             Axis(<< Series("Block Rate", 12, 12) >>, 12, <<12, 12>>) >>,
          "scalability.pdf")

scalability_fmax_latency ==
    Chart("figure1", <<6, 3>>,
          << PlotAxis(<< Unzipped("Generate-Ordering-Log", 7), Unzipped("Commit-Ordering-Log", 7),
                         Unzipped("Commit-Command-Info", 7) >>) >>,
          "scalability_fmax_latency.pdf")

\* Two series in `thru`; the loop rebinds the name thru, but Python keeps
\* iterating the original list, so both are drawn.  Each iteration sets the
\* tick labels twice and one more call follows the loop.
adversarial_comparison ==
    Chart("subplots", <<6, 4>>,
          << Axis(<< Series("Phalanx strategy", 12, 12),
                     Series("Timestamp-based strategy", 12, 12) >>,
                  12, <<12, 12, 12, 12, 12>>) >>,
          "adversarial-comparison.pdf")

adversarial ==
    Chart("figure1", <<6, 4>>,
          << PlotAxis(<< Unzipped("phalanx reordered rate", 12),
                         Unzipped("timestamp-based reordered rate", 12) >>) >>,
          "adversarial.pdf")

evaluation ==
    Chart("figure1", <<6, 3>>,
          << PlotAxis(<< Unzipped("HS1000", 12), Unzipped("HS4000", 12),
                         Unzipped("Phalanx-HS1000", 12) >>) >>,
          "evaluation.pdf")

proposers ==
    Chart("subplots", <<6, 6>>,
          << Axis(<< Series("Throughput", 13, 13) >>, 13, <<13, 13>>),
             Axis(<< Series("Safe Rate", 13, 13) >>, 13, <<13>>) >>,
          "proposers.pdf")

proposers_new ==
    Chart("subplots", <<6, 6>>,
          << Axis(<< Series("Throughput", 4, 4) >>, 4, <<4, 4>>),
             Axis(<< Series("Safe Rate", 4, 4) >>, 4, <<4>>),
             Axis(<< Series("Block Rate", 4, 4) >>, 4, <<4, 4>>) >>,
          "proposers_new.pdf")

n10_faulty ==
    Chart("figure1", <<8, 4>>,
          << PlotAxis(<< Unzipped("Safe-Rate", 11), Unzipped("Front-Attacked-Rate", 11),
                         Unzipped("Front-Attacked-Rate(Risk)", 11),
                         Unzipped("Front-Attacked-Rate(Safe)", 11) >>) >>,
          "front-attack-rate-overload.pdf")

n10_6wtps_faulty ==
    Chart("figure1", <<8, 4>>,
          << PlotAxis(<< Unzipped("Safe-Rate", 11), Unzipped("Front-Attacked-Rate", 11),
                         Unzipped("Front-Attacked-Rate(Risk)", 11),
                         Unzipped("Front-Attacked-Rate(Safe)", 11) >>) >>,
          "front-attack-rate-6w.pdf")

scalability_f1 ==
    Chart("subplots", <<6, 6>>,
          << Axis(<< Series("Throughput", 7, 7) >>, 7, <<7, 7>>),
             Axis(<< Series("Attacked Rate", 7, 7) >>, 7, <<7>>),
             Axis(<< Series("Block Rate", 7, 7) >>, 7, <<7, 7>>) >>,
          "scalability_f1.pdf")

\* Every script by name (a record is a function from the field names).
Catalog ==
    [attack |-> attack, multi_evaluation |-> multi_evaluation,
     proposers_tps |-> proposers_tps, tps_faulty_reliable |-> tps_faulty_reliable,
     scalability_docs |-> scalability_docs,
     scalability_fmax_latency |-> scalability_fmax_latency,
     adversarial_comparison |-> adversarial_comparison, adversarial |-> adversarial,
     evaluation |-> evaluation, proposers |-> proposers, proposers_new |-> proposers_new,
     n10_faulty |-> n10_faulty, n10_6wtps_faulty |-> n10_6wtps_faulty,
     scalability_f1 |-> scalability_f1]
=============================================================================
