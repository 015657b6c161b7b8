----------------------------- MODULE MCPlayerDb -----------------------------
(***************************************************************************)
(* PlayerDb for TLC: one thread per player, the code's price list, and     *)
(* first profiles one match away from every limit.                         *)
(***************************************************************************)
EXTENDS PlayerDb, TLC

MCUserOf == [t \in Threads |-> t]

MCCoinPrices ==
    [skin_index \in Skins |-> <<0, 100, 150, 200, 250, 300>>[skin_index + 1]]

\* Threads, and with them their players, are alike but for the established.
Symmetry == Permutations(Threads \ Established)

MCInitialProfiles ==
    {[level |-> 254, progression |-> 800, money |-> 65400,
      owned |-> {0, 1}, selected |-> 1],
     [level |-> 1, progression |-> 950, money |-> 150,
      owned |-> {0}, selected |-> 0]}
=============================================================================
