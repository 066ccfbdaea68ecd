---------------------------- MODULE MCLifecycle -----------------------------
(* Instances of Lifecycle for TLC. *)
EXTENDS Lifecycle

CONSTANTS svc, hand

OneByHand == {hand}

\* starts and teardowns next to each other, where whoever listens goes on to
\* serve; everything that can happen to the service and the daemon next to it
\* while probes of a live daemon are answered; and all of it when they may not be
TogetherAndByHand ==
    LET troubles == {"engine", "http", "accept", "crash", "reboot", "stop"} IN
    {{"engine", "teardown"}, troubles, troubles \cup {"queue"}}
=============================================================================
