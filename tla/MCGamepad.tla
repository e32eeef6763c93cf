----------------------------- MODULE MCGamepad -----------------------------
(* Small instances of Gamepad: the patches that browsers send.  WebSockets, *)
(* gamepad channels and endpoints are interchangeable.                      *)
EXTENDS Gamepad, TLC

SomePatches == {[enabled |-> TRUE], [mode |-> "auto", estop |-> TRUE]}
Interchangeable ==
    Permutations(Sockets) \cup Permutations(Channels) \cup Permutations(Urls)
=============================================================================
