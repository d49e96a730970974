------------------------------ MODULE MCIsoTp ------------------------------
(* Small instances of IsoTp for TLC: the per-station constants as pairs. *)
EXTENDS IsoTp

CONSTANTS TesterBlock, EcuBlock, TesterSends, EcuSends

MCBlockSize == [s \in Station |-> IF s = Tester THEN TesterBlock ELSE EcuBlock]
MCMaxSends == [s \in Station |-> IF s = Tester THEN TesterSends ELSE EcuSends]
=============================================================================
