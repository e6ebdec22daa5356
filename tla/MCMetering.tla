----------------------------- MODULE MCMetering -----------------------------
(* One session; the user's own calls on one thread, the desktop's and      *)
(* those that end the session on the other; and as many metering threads   *)
(* as are alive when one is on its way out and a new one has begun.        *)
EXTENDS Metering

CONSTANTS user, other

MCServes == [c \in Callers |-> IF c = user THEN {"start", "pause", "resume"}
                                          ELSE {"attach", "end"}]

MCNoResume == [c \in Callers |-> IF c = user THEN {"start", "pause"} ELSE {"attach"}]
=============================================================================
