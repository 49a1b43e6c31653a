------------------------------ MODULE MCProbes ------------------------------
(* Payloads of nine bytes: "not paired" fits with all its fields; with the  *)
(* machine's title they are full before the last field.                     *)
EXTENDS Probes

MCTitles == [k \in {"start", "unpaired", Machine} |->
               CASE k = "start" -> <<>> [] k = "unpaired" -> <<1>> [] OTHER -> <<2, 1, 2, 2>>]
MCProvider == <<3>>
MCSerial == <<4, 0>>
=============================================================================
