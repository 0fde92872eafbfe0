-------------------------- MODULE MC_TargetsLoader --------------------------
(* Keys of targets_const for TLC: "1", "1x" and "bad", in std::map order; *)
(* std::stoul reads "1x" as 1 and throws on "bad".                        *)
EXTENDS TargetsLoader

CONSTANTS k1, k1x, kbad

MCKeyRank == [k \in Keys |-> CASE k = k1 -> 1 [] k = k1x -> 2 [] k = kbad -> 3]

MCStoul == [k \in Keys |-> CASE k = k1 -> 1 [] k = k1x -> 1 [] k = kbad -> Throws]

=============================================================================
