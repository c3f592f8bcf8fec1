--------------------------- MODULE MCMessageQueue ---------------------------
(* MessageQueue on small instances: one message the user acts on, and one  *)
(* that rests where a UID of the first one would name it.                  *)
EXTENDS MessageQueue, TLC

CONSTANT Other

\* The other message is in the archive and nothing is asked of it.
OtherRests ==
    /\ server[Other].box = "Archive"
    /\ \A i \in DOMAIN queue : MessageOf(queue[i].target) # Other
=============================================================================
