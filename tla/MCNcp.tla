------------------------------- MODULE MCNcp -------------------------------
(* A model-checking instance of Ncp. *)
EXTENDS Ncp

CONSTANTS c1, h1, h2

Hello(encodings, min_version, nps_version, size) ==
  [encodings |-> encodings, min_version |-> min_version, nps_version |-> nps_version, size |-> size,
   protocols |-> {"ncp", "nwp"}, max_frame_payload |-> 2, max_streams |-> 1, ext |-> TRUE]

MCHellos == {Hello(<<"vector", "json", "msgpack">>, 1, 2, 1), Hello(<<"msgpack">>, None, 3, 1),
             Hello(<<"json", "msgpack">>, 3, 3, 1), Hello(<<"json">>, 1, 1, 2)}

Server(encodings, payload) ==
  [encodings |-> encodings, min_version |-> 1, nps_version |-> 2, protocols |-> {"ncp", "nwp", "nop"},
   max_frame_payload |-> payload, max_streams |-> 2, ext |-> FALSE]

MCDeployments ==
  {[h \in Hosts |-> IF h = h1 THEN Server({"msgpack", "json", "vector"}, 1) ELSE Server({"msgpack"}, 3)]}
=============================================================================
