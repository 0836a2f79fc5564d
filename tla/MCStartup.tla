----------------------------- MODULE MCStartup -----------------------------
(* A table of three files, up to five --debug options among three names and *)
(* two other options.  Ports have two values, and 4 is 1 on as many bits.   *)
EXTENDS Startup
ThreeNames == 1..3
SomePorts == {0, 1, 4}
=============================================================================
