------------------------- MODULE MCWebrtcTransfer -------------------------
EXTENDS WebrtcTransfer

(* A NAL unit that is a frame and one that is not, both in fragments, and  *)
(* between them one of which the payloader makes no packet.                *)
MCInput == << [type |-> "idr", payloads |-> 2],
              [type |-> "aud", payloads |-> 0],
              [type |-> "sei", payloads |-> 2] >>
=============================================================================
