----------------------------- MODULE MCSeriesLoop ---------------------------
(***************************************************************************)
(* SeriesLoop over every series loop of the repository, with the tables  *)
(* as they are in the scripts.  Values are in hundredths, rounded down;   *)
(* x values of the line charts are integers already.  No value lies      *)
(* within 0.01 of a y-limit, so rounding changes no comparison with one.  *)
(***************************************************************************)
EXTENDS SeriesLoop

\* attack.py: `bsize` (lines 3-30), set_ylim([0, 100]) at line 46.
attack_bsize ==
    [kind |-> "pairs", x |-> <<>>, ylim |-> <<0, 10000>>,
     series |-> <<[name |-> "safe rate",
         entries |-> <<<<0, 8053>>, <<1, 6731>>, <<2, 4829>>, <<3, 2682>>, <<4, 1628>>, <<5, 1056>>, <<6, 711>>, <<7, 828>>, <<8, 723>>, <<9, 613>>, <<10, 524>>>>],
        [name |-> "attacked rate",
         entries |-> <<<<0, 0>>, <<1, 0>>, <<2, 0>>, <<3, 0>>, <<4, 197>>, <<5, 324>>, <<6, 978>>, <<7, 1925>>, <<8, 4034>>, <<9, 6186>>, <<10, 7311>>>>]>>]

\* multi_evaluation.py: `bsize` (lines 3-64), set_ylim([0, 150]) at line 80.
multi_evaluation_bsize ==
    [kind |-> "pairs", x |-> <<>>, ylim |-> <<0, 15000>>,
     series |-> <<[name |-> "Phalanx-HS",
         entries |-> <<<<4, 11631>>, <<6, 11294>>, <<8, 10704>>, <<10, 9130>>>>],
        [name |-> "HS",
         entries |-> <<<<4, 2012>>, <<6, 1736>>, <<8, 1510>>, <<10, 1370>>>>],
        [name |-> "Phalanx-TCHS",
         entries |-> <<<<4, 12412>>, <<6, 11436>>, <<8, 11310>>, <<10, 9570>>>>],
        [name |-> "TCHS",
         entries |-> <<<<4, 2112>>, <<6, 1736>>, <<8, 1610>>, <<10, 1470>>>>],
        [name |-> "Phalanx-SL",
         entries |-> <<<<4, 3112>>, <<6, 1036>>, <<8, 5210>>, <<10, 8470>>>>],
        [name |-> "SL",
         entries |-> <<<<4, 1512>>, <<6, 636>>, <<8, 810>>, <<10, 1270>>>>],
        [name |-> "Phalanx-FHS",
         entries |-> <<<<4, 12412>>, <<6, 11636>>, <<8, 11210>>, <<10, 9170>>>>],
        [name |-> "FHS",
         entries |-> <<<<4, 2212>>, <<6, 1736>>, <<8, 1610>>, <<10, 1570>>>>],
        [name |-> "Phalanx-LBFT",
         entries |-> <<<<4, 3712>>, <<6, 1136>>, <<8, 4410>>, <<10, 8370>>>>],
        [name |-> "LBFT",
         entries |-> <<<<4, 1112>>, <<6, 636>>, <<8, 810>>, <<10, 1270>>>>]>>]

\* scalability_fmax_latency.py: `bsize` (lines 3-31), set_ylim([0, 120]) at line 47.
fmax_latency_bsize ==
    [kind |-> "pairs", x |-> <<>>, ylim |-> <<0, 12000>>,
     series |-> <<[name |-> "Generate-Ordering-Log",
         entries |-> <<<<4, 2112>>, <<5, 2412>>, <<6, 2636>>, <<7, 2936>>, <<8, 3310>>, <<9, 4310>>, <<10, 4470>>>>],
        [name |-> "Commit-Ordering-Log",
         entries |-> <<<<4, 2612>>, <<5, 3612>>, <<6, 4436>>, <<7, 5536>>, <<8, 6910>>, <<9, 8410>>, <<10, 10570>>>>],
        [name |-> "Commit-Command-Info",
         entries |-> <<<<4, 1812>>, <<5, 2312>>, <<6, 2636>>, <<7, 2736>>, <<8, 3910>>, <<9, 5910>>, <<10, 6270>>>>]>>]

\* phalanx-hs-n10-tps-faulty.py: `bsize` (lines 3-10), set_ylim([0, 100]) at line 26.
tps_faulty_bsize ==
    [kind |-> "pairs", x |-> <<>>, ylim |-> <<0, 10000>>,
     series |-> <<[name |-> "Safe-Rate",
         entries |-> <<<<25, 7713>>, <<50, 4372>>, <<75, 2310>>, <<93, 1052>>>>]>>]

\* adversarial.py: `bsize` (lines 3-32), set_ylim([0, 100]) at line 48.
adversarial_bsize ==
    [kind |-> "pairs", x |-> <<>>, ylim |-> <<0, 10000>>,
     series |-> <<[name |-> "phalanx reordered rate",
         entries |-> <<<<0, 0>>, <<1, 0>>, <<2, 0>>, <<3, 0>>, <<4, 0>>, <<5, 0>>, <<6, 0>>, <<7, 9>>, <<8, 16>>, <<9, 10>>, <<10, 32>>, <<11, 59>>>>],
        [name |-> "timestamp-based reordered rate",
         entries |-> <<<<0, 0>>, <<1, 40>>, <<2, 420>>, <<3, 340>>, <<4, 480>>, <<5, 570>>, <<6, 557>>, <<7, 1200>>, <<8, 2060>>, <<9, 1687>>, <<10, 1670>>, <<11, 2190>>>>]>>]

\* evaluation.py: `bsize` (lines 3-45), set_ylim([0, 70]) at line 61.
evaluation_bsize ==
    [kind |-> "pairs", x |-> <<>>, ylim |-> <<0, 7000>>,
     series |-> <<[name |-> "HS1000",
         entries |-> <<<<4, 2129>>, <<5, 1739>>, <<6, 1663>>, <<7, 1558>>, <<8, 1556>>, <<9, 1491>>, <<10, 1491>>, <<11, 1448>>, <<12, 1403>>, <<13, 1415>>, <<14, 1366>>, <<15, 1308>>>>],
        [name |-> "HS4000",
         entries |-> <<<<4, 3212>>, <<5, 2753>>, <<6, 2636>>, <<7, 2618>>, <<8, 2710>>, <<9, 2621>>, <<10, 2570>>, <<11, 2543>>, <<12, 2465>>, <<13, 2568>>, <<14, 2452>>, <<15, 2333>>>>],
        [name |-> "Phalanx-HS1000",
         entries |-> <<<<4, 5487>>, <<5, 5321>>, <<6, 5017>>, <<7, 5559>>, <<8, 5501>>, <<9, 5901>>, <<10, 6065>>, <<11, 5914>>, <<12, 5634>>, <<13, 5969>>, <<14, 5646>>, <<15, 5401>>>>]>>]

\* phalanx-hs-n10-faulty.py: `bsize` (lines 3-56), set_ylim([0, 100]) at line 72.
n10_faulty_bsize ==
    [kind |-> "pairs", x |-> <<>>, ylim |-> <<0, 10000>>,
     series |-> <<[name |-> "Safe-Rate",
         entries |-> <<<<0, 2029>>, <<1, 1117>>, <<2, 628>>, <<3, 523>>, <<4, 413>>, <<5, 245>>, <<6, 196>>, <<7, 157>>, <<8, 228>>, <<9, 204>>, <<10, 227>>>>],
        [name |-> "Front-Attacked-Rate",
         entries |-> <<<<0, 0>>, <<1, 42>>, <<2, 237>>, <<3, 558>>, <<4, 1461>>, <<5, 2654>>, <<6, 4845>>, <<7, 5525>>, <<8, 6134>>, <<9, 6186>>, <<10, 6743>>>>],
        [name |-> "Front-Attacked-Rate(Risk)",
         entries |-> <<<<0, 0>>, <<1, 42>>, <<2, 237>>, <<3, 558>>, <<4, 1441>>, <<5, 2612>>, <<6, 4773>>, <<7, 4773>>, <<8, 6030>>, <<9, 6069>>, <<10, 6584>>>>],
        [name |-> "Front-Attacked-Rate(Safe)",
         entries |-> <<<<0, 0>>, <<1, 0>>, <<2, 0>>, <<3, 0>>, <<4, 19>>, <<5, 42>>, <<6, 71>>, <<7, 61>>, <<8, 104>>, <<9, 158>>, <<10, 158>>>>]>>]

\* phalanx-hs-n10-faulty.py: `bsize` (lines 3-56), set_ylim([0, 100]) at line 72.
n10_6wtps_bsize ==
    [kind |-> "pairs", x |-> <<>>, ylim |-> <<0, 10000>>,
     series |-> <<[name |-> "Safe-Rate",
         entries |-> <<<<0, 8053>>, <<1, 6731>>, <<2, 4829>>, <<3, 2682>>, <<4, 1628>>, <<5, 1056>>, <<6, 711>>, <<7, 828>>, <<8, 723>>, <<9, 613>>, <<10, 524>>>>],
        [name |-> "Front-Attacked-Rate",
         entries |-> <<<<0, 0>>, <<1, 0>>, <<2, 0>>, <<3, 0>>, <<4, 197>>, <<5, 324>>, <<6, 978>>, <<7, 1925>>, <<8, 4034>>, <<9, 6186>>, <<10, 7311>>>>],
        [name |-> "Front-Attacked-Rate(Risk)",
         entries |-> <<<<0, 0>>, <<1, 0>>, <<2, 0>>, <<3, 0>>, <<4, 141>>, <<5, 312>>, <<6, 973>>, <<7, 1973>>, <<8, 3930>>, <<9, 5769>>, <<10, 6722>>>>],
        [name |-> "Front-Attacked-Rate(Safe)",
         entries |-> <<<<0, 0>>, <<1, 0>>, <<2, 0>>, <<3, 0>>, <<4, 19>>, <<5, 42>>, <<6, 55>>, <<7, 61>>, <<8, 104>>, <<9, 358>>, <<10, 589>>>>]>>]

\* proposers_tps.py: `thru` (lines 10-18), set_ylim([0, 40]) at line 28.
proposers_tps_thru ==
    [kind |-> "first", x |-> <<4, 8, 12, 16>>, ylim |-> <<0, 4000>>,
     series |-> <<[name |-> "Throughput",
         entries |-> <<<<2387, 54878441>>, <<2621, 53216305>>, <<2817, 50174208>>, <<2959, 55593246>>>>]>>]

\* Fault used by the mutation checks: a second block-rate series entered in
\* real_block, which the loop draws on a second twin axes.
proposers_tps_real_two_series ==
    [kind |-> "values", x |-> <<4, 8, 12, 16>>, ylim |-> <<1000, 3000>>,
     series |-> <<[name |-> "Block Rate",
         entries |-> <<1877, 2115, 2328, 2663>>],
                  [name |-> "Commit Rate",
         entries |-> <<1877, 2115, 2328, 2663>>]>>]

\* proposers_tps.py: `real_block` (lines 30-37), set_ylim([10, 30]) at line 48.
proposers_tps_real ==
    [kind |-> "values", x |-> <<4, 8, 12, 16>>, ylim |-> <<1000, 3000>>,
     series |-> <<[name |-> "Block Rate",
         entries |-> <<1877, 2115, 2328, 2663>>]>>]

\* scalability.py: `thru` (lines 10-26), set_ylim([0, 65]) at line 36.
scalability_thru ==
    [kind |-> "first", x |-> <<4, 5, 6, 7, 8, 9, 10, 11, 12, 13, 14, 15>>, ylim |-> <<0, 6500>>,
     series |-> <<[name |-> "Throughput",
         entries |-> <<<<5487, 54878441>>, <<5321, 53216305>>, <<5017, 50174208>>, <<5559, 55593246>>, <<5501, 55012104>>, <<5901, 59014375>>, <<6065, 60652001>>, <<5914, 59143603>>, <<5634, 56343054>>, <<5969, 59694430>>, <<5646, 56460855>>, <<5401, 54018999>>>>]>>]

\* scalability.py: `real_block` (lines 40-55), set_ylim([0, 6]) at line 66.
scalability_real ==
    [kind |-> "values", x |-> <<4, 5, 6, 7, 8, 9, 10, 11, 12, 13, 14, 15>>, ylim |-> <<0, 600>>,
     series |-> <<[name |-> "Block Rate",
         entries |-> <<177, 215, 228, 263, 292, 352, 382, 418, 442, 478, 509, 563>>]>>]

\* scalability.py: `cpu_rate` (lines 70-85), set_ylim([0, 100]) at line 96.
scalability_cpu ==
    [kind |-> "first", x |-> <<4, 5, 6, 7, 8, 9, 10, 11, 12, 13, 14, 15>>, ylim |-> <<0, 10000>>,
     series |-> <<[name |-> "Safe Rate",
         entries |-> <<<<9012, 5550>>, <<9844, 9810>>, <<9943, 9340>>, <<7620, 9210>>, <<8915, 9120>>, <<9871, 9020>>, <<9622, 7760>>, <<9740, 6620>>, <<9803, 5270>>, <<9523, 4710>>, <<9530, 4520>>, <<9525, 5590>>>>]>>]

\* proposers_new.py: `thru` (lines 10-18), set_ylim([0, 40]) at line 28.
proposers_new_thru ==
    [kind |-> "first", x |-> <<4, 8, 12, 16>>, ylim |-> <<0, 4000>>,
     series |-> <<[name |-> "Throughput",
         entries |-> <<<<2387, 54878441>>, <<2621, 53216305>>, <<2817, 50174208>>, <<2959, 55593246>>>>]>>]

\* proposers_new.py: `real_block` (lines 32-39), set_ylim([10, 30]) at line 50.
proposers_new_real ==
    [kind |-> "values", x |-> <<4, 8, 12, 16>>, ylim |-> <<1000, 3000>>,
     series |-> <<[name |-> "Block Rate",
         entries |-> <<1877, 2115, 2328, 2663>>]>>]

\* proposers_new.py: `cpu_rate` (lines 54-61), set_ylim([0, 100]) at line 72.
proposers_new_cpu ==
    [kind |-> "first", x |-> <<4, 8, 12, 16>>, ylim |-> <<0, 10000>>,
     series |-> <<[name |-> "Safe Rate",
         entries |-> <<<<8112, 5550>>, <<7144, 9810>>, <<6343, 9340>>, <<5820, 9210>>>>]>>]

\* scalability_f1.py: `thru` (lines 10-21), set_ylim([0, 130]) at line 31.
scalability_f1_thru ==
    [kind |-> "first", x |-> <<4, 5, 6, 7, 8, 9, 10>>, ylim |-> <<0, 13000>>,
     series |-> <<[name |-> "Throughput",
         entries |-> <<<<11387, 54878441>>, <<11221, 53216305>>, <<11517, 50174208>>, <<11959, 55593246>>, <<10401, 55012104>>, <<9201, 59014375>>, <<8365, 60652001>>>>]>>]

\* scalability_f1.py: `real_block` (lines 35-45), set_ylim([0, 20]) at line 56.
scalability_f1_real ==
    [kind |-> "values", x |-> <<4, 5, 6, 7, 8, 9, 10>>, ylim |-> <<0, 2000>>,
     series |-> <<[name |-> "Block Rate",
         entries |-> <<577, 815, 1028, 1263, 1492, 1652, 1782>>]>>]

\* scalability_f1.py: `cpu_rate` (lines 60-70), set_ylim([0, 10]) at line 81.
scalability_f1_cpu ==
    [kind |-> "first", x |-> <<4, 5, 6, 7, 8, 9, 10>>, ylim |-> <<0, 1000>>,
     series |-> <<[name |-> "Attacked Rate",
         entries |-> <<<<412, 5550>>, <<194, 9810>>, <<63, 9340>>, <<80, 9210>>, <<55, 9120>>, <<31, 9020>>, <<42, 7760>>>>]>>]

MCLoops == {attack_bsize, multi_evaluation_bsize, fmax_latency_bsize, tps_faulty_bsize, adversarial_bsize, evaluation_bsize, n10_faulty_bsize, n10_6wtps_bsize, proposers_tps_thru, proposers_tps_real, scalability_thru, scalability_real, scalability_cpu, proposers_new_thru, proposers_new_real, proposers_new_cpu, scalability_f1_thru, scalability_f1_real, scalability_f1_cpu}
=============================================================================
