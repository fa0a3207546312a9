------------------------------- MODULE MCLink -------------------------------
(***************************************************************************)
(* Sizes for Link: the client's messages are all header, the server's have *)
(* a payload; neither socket takes a whole message.                        *)
(***************************************************************************)
EXTENDS Link

MCPayloadSize == [e \in End |-> IF e = "client" THEN 0 ELSE 1]

MCRoom == [e \in End |-> IF e = "client" THEN 1 ELSE 2]
=============================================================================
