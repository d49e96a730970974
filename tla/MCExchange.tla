----------------------------- MODULE MCExchange -----------------------------
(***************************************************************************)
(* The two layers of a diagnostic exchange in one run, both with peers     *)
(* that answer in time: the ISO-TP link between two stations, and the      *)
(* client with the ECU.  They share no state, and a behaviour is one of a  *)
(* single layer while the other rests in its initial state.                *)
(***************************************************************************)
EXTENDS MCIsoTp, MCUdsExchange

VARIABLE layer      \* the layer this behaviour is one of

LayersInit == layer \in {"link", "client"} /\ Init /\ ExchangeInit

PromptLayersNext ==
    \/ layer = "link" /\ PromptNext /\ UNCHANGED <<layer, exchangeVars>>
    \/ layer = "client" /\ PromptExchangeNext /\ UNCHANGED <<layer, vars>>

PromptLayersSpec == LayersInit /\ [][PromptLayersNext]_<<layer, vars, exchangeVars>>
=============================================================================
