---------------------------- MODULE ConnectionLife ----------------------------
(****************************************************************************)
(* What the status of a connection promises over its life, whatever the     *)
(* protocol: a connection comes up from "connecting", or from               *)
(* "reconnecting"; once it has failed or ended it only comes back by        *)
(* announcing a retry, if its client retries at all; and a connection the   *)
(* user deleted stays down, unless the DELETE came while the connection was *)
(* being made and there was nothing to end yet.  Every proxy implements     *)
(* this specification; only AMQP has such a DELETE.                         *)
(****************************************************************************)
EXTENDS Naturals

VARIABLES
    status,    \* session.status
    deleted,   \* the user deleted the connection
    missed,    \* it is still being made, and was when the user deleted it
    retries    \* its client reconnects by itself

lifeVars == <<status, deleted, missed, retries>>

Init ==
    /\ status = "connecting" /\ deleted = FALSE /\ missed = FALSE
    /\ retries \in BOOLEAN

ComeUp ==
    /\ (~deleted /\ status \in {"connecting", "reconnecting"}) \/ missed
    /\ status' = "connected" /\ missed' = FALSE
    /\ UNCHANGED <<deleted, retries>>

Retry ==
    /\ retries /\ ~deleted /\ status \in {"error", "disconnected"}
    /\ status' = "reconnecting"
    /\ UNCHANGED <<deleted, missed, retries>>

\* An ended connection has no error left to report, unless it was the DELETE
\* that called it ended before it was.
Fail ==
    /\ status # "disconnected" \/ deleted
    /\ status' = "error" /\ missed' = FALSE
    /\ UNCHANGED <<deleted, retries>>

End == status' = "disconnected" /\ UNCHANGED <<deleted, missed, retries>>

Delete ==
    /\ status' = "disconnected" /\ deleted' = TRUE
    /\ missed' \in BOOLEAN
    /\ missed' => missed \/ status = "connecting"
    /\ UNCHANGED retries

Next == ComeUp \/ Retry \/ Fail \/ End \/ Delete

Spec == Init /\ [][Next]_lifeVars

==============================================================================
