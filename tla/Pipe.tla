-------------------------------- MODULE Pipe --------------------------------
(***************************************************************************)
(* What a proxied WebSocket promises: its far end receives the messages of *)
(* the browser in the order in which they were sent, none of them twice    *)
(* and none left out before another, and only once both ends speak one     *)
(* protocol.  The k-th message that the browser sends is the number k.     *)
(***************************************************************************)
EXTENDS Naturals, Sequences

CONSTANTS Protocols,  \* what the far end may choose
          Agreed      \* those under which it and the browser understand another

VARIABLES spoken,     \* what the far end has chosen, "unknown" before
          sent,       \* messages of the browser
          received    \* messages the far end has received

Init == spoken = "unknown" /\ sent = 0 /\ received = <<>>

Chooses == /\ spoken = "unknown"
           /\ spoken' \in Protocols
           /\ UNCHANGED <<sent, received>>

Sends == sent' = sent + 1 /\ UNCHANGED <<spoken, received>>

Delivers == /\ spoken \in Agreed
            /\ Len(received) < sent
            /\ received' = Append(received, Len(received) + 1)
            /\ UNCHANGED <<spoken, sent>>

Next == Chooses \/ Sends \/ Delivers

Spec == Init /\ [][Next]_<<spoken, sent, received>>
=============================================================================
