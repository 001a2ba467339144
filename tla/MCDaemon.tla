------------------------------ MODULE MCDaemon ------------------------------
(* A household of one room, and what people save from the dashboard, from  *)
(* scripts and by leaving fields blank.                                    *)
EXTENDS Daemon, TLC

Kitchen == [vinyl_zones |-> {"Kitchen"}]

MCBodies ==
  { [sonos |-> Kitchen],
    [sonos |-> Kitchen, detect |-> Null, stream |-> [bitrate |-> 128],
      device |-> [usb_id |-> "046D:0825"]],
    [sonos |-> Kitchen, detect |-> [highpass_hz |-> Null]],
    [sonos |-> Kitchen, detect |-> [music_on_db |-> -55]],
    [sonos |-> Kitchen, stream |-> [port |-> Null]],
    [sonos |-> Kitchen, stream |-> [prot |-> 8000]],
    [sonos |-> Kitchen, stream |-> Scalar],
    [sonos |-> [vinyl_zones |-> {}]],
    Text, Scalar }

MCInstalled == { Card("08bb:2902", "CODEC", TRUE), Card("", "PCH", TRUE) }

MCLower ==
  [id \in {"", "08bb:2902", "046d:0825", "046D:0825"} |->
     IF id = "046D:0825" THEN "046d:0825" ELSE id]

MCBackoff == <<1, 2>>

============================================================================
