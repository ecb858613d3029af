--------------------------- MODULE MCNipCaServer ---------------------------
(* The standalone CA server, with nine certificates issued before. *)
EXTENDS NipCaServer

CONSTANTS h1, p1, y1, y2

ServerSpec == ServerInit /\ [][ServerNext]_serverVars
=============================================================================
