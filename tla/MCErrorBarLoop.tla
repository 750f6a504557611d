--------------------------- MODULE MCErrorBarLoop ---------------------------
(* ErrorBarLoop over the lists the scripts iterate, and over every small    *)
(* list of the same shape.                                                 *)
EXTENDS ErrorBarLoop

\* adversarial-comparison.py, `thru` (per cent, in thousandths), x replicaNo.
AdversarialThru ==
    [xlen |-> 12,
     series |->
       << [name |-> "Phalanx strategy",
           entries |-> << <<0, 0>>, <<0, 0>>, <<0, 0>>, <<0, 0>>, <<0, 28>>, <<0, 35>>,
                          <<0, 40>>, <<90, 30>>, <<160, 310>>, <<100, 280>>,
                          <<320, 460>>, <<590, 780>> >>],
          [name |-> "Timestamp-based strategy",
           entries |-> << <<0, 0>>, <<400, 1900>>, <<4200, 3900>>, <<3400, 5200>>,
                          <<5800, 7640>>, <<6700, 8280>>, <<7570, 10140>>,
                          <<12000, 14000>>, <<20600, 18890>>, <<16870, 17870>>,
                          <<16700, 15100>>, <<21900, 19800>> >>] >>]

\* proposers.py, `thru` (10^4 tx/s, in ten-thousandths), x proposer_no.
ProposersThru ==
    [xlen |-> 13,
     series |->
       << [name |-> "Throughput",
           entries |-> << <<225672, 223672>>, <<390164, 391564>>, <<482321, 485491>>,
                          <<552511, 557511>>, <<624261, 622607>>, <<699104, 700507>>,
                          <<722813, 728293>>, <<780622, 782642>>, <<824251, 823872>>,
                          <<894231, 896321>>, <<1012412, 1010927>>,
                          <<1244214, 1242193>>, <<1252141, 1259091>> >>] >>]

\* proposers.py, `cpu_rate` (per cent, in tenths), x proposer_no.
ProposersSafeRate ==
    [xlen |-> 13,
     series |->
       << [name |-> "Safe Rate",
           entries |-> << <<555, 555>>, <<981, 981>>, <<934, 934>>, <<921, 921>>,
                          <<912, 912>>, <<907, 902>>, <<772, 776>>, <<664, 662>>,
                          <<521, 527>>, <<479, 471>>, <<442, 452>>, <<549, 559>>,
                          <<312, 302>> >>] >>]

MCRealTables == {AdversarialThru, ProposersThru, ProposersSafeRate}

\* Every list of one or two series of one or two items with values 0..1.
SmallEntries == UNION {[1..n -> (0..1) \X (0..1)] : n \in 1..2}
MCSmallTables ==
    UNION {{[xlen |-> n,
             series |-> [k \in 1..m |-> [name |-> <<"s", k>>, entries |-> es[k]]]] :
               es \in [1..m -> {e \in SmallEntries : Len(e) = n}]} :
           n \in 1..2, m \in 1..2}

MCTables == MCRealTables \cup MCSmallTables
=============================================================================
