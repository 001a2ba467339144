---------------------------- MODULE MCPipeline -----------------------------
(* The pipeline with one adapter, three levels of sound and a click; the   *)
(* configurations give the values.                                         *)
EXTENDS Pipeline

MCDevice == [usb_id |-> "08bb:2902", card_name |-> "CODEC"]
MCLower == [id \in {"", "08bb:2902"} |-> id]
MCBackoff == <<1>>

============================================================================
