----------------------------- MODULE MCCampaign -----------------------------
(* Values for the constants of Campaign: a layer set of two modules with   *)
(* one file stem, as backend::serial::u64::field and field of layer L2.    *)
EXTENDS Campaign
CONSTANTS inner, outer

Pair == <<inner, outer>>
SameStem == [m \in {inner, outer} |-> "field"]
BothDrivers == {"launch", "layer"}
LayerOnly == {"layer"}
SomeTotals == {1}
OneCost == {1}
==============================================================================
