---------------------------- MODULE RequestLife ----------------------------
(***************************************************************************)
(* What one streaming request promises the rest of the gateway, whatever   *)
(* its goroutines and channels do (internal/glmclient/chat.go:28-37): the  *)
(* upstream stream lives inside the slot of the queue, it may be resumed   *)
(* while the slot is held, a conversation is deleted only if it was never  *)
(* resumed, and the answer ends only when the slot is free again.          *)
(***************************************************************************)
VARIABLES slot,      \* "none", "held", "released"
          upstream,  \* "none", "open", "closed"
          answer,    \* "pending", "streaming", "ended", "error", "aborted"
          resumed,   \* continue_stream has succeeded
          deleted    \* a deletion of the conversation was started

lifeVars == <<slot, upstream, answer, resumed, deleted>>

LifeInit ==
    /\ slot = "none" /\ upstream = "none" /\ answer = "pending"
    /\ resumed = FALSE /\ deleted = FALSE

Admitted ==
    /\ slot = "none" /\ answer = "pending"
    /\ slot' = "held"
    /\ UNCHANGED <<upstream, answer, resumed, deleted>>

Refused ==
    /\ slot = "none" /\ answer = "pending"
    /\ answer' = "error"
    /\ UNCHANGED <<slot, upstream, resumed, deleted>>

Opened ==
    /\ slot = "held" /\ upstream = "none" /\ answer = "pending"
    /\ upstream' = "open" /\ answer' = "streaming"
    /\ UNCHANGED <<slot, resumed, deleted>>

NotOpened ==
    /\ slot = "held" /\ upstream = "none" /\ answer = "pending"
    /\ slot' = "released" /\ answer' = "error"
    /\ UNCHANGED <<upstream, resumed, deleted>>

(* A panic before the stream is open: gin answers, the slot is lost. *)
Panicked ==
    /\ slot = "held" /\ upstream = "none" /\ answer = "pending"
    /\ answer' = "error"
    /\ UNCHANGED <<slot, upstream, resumed, deleted>>

Closed ==
    /\ upstream = "open"
    /\ upstream' = "closed"
    /\ UNCHANGED <<slot, answer, resumed, deleted>>

Resumed ==
    /\ slot = "held" /\ upstream = "closed" /\ answer = "streaming"
    /\ upstream' = "open" /\ resumed' = TRUE
    /\ UNCHANGED <<slot, answer, deleted>>

Returned ==
    /\ slot = "held" /\ upstream = "closed"
    /\ slot' = "released" /\ deleted' = ~resumed
    /\ UNCHANGED <<upstream, answer, resumed>>

Ended ==
    /\ answer = "streaming" /\ slot = "released"
    /\ answer' = "ended"
    /\ UNCHANGED <<slot, upstream, resumed, deleted>>

Aborted ==
    /\ answer = "streaming"
    /\ answer' = "aborted"
    /\ UNCHANGED <<slot, upstream, resumed, deleted>>

LifeNext == \/ Admitted \/ Refused \/ Opened \/ NotOpened \/ Panicked
            \/ Closed \/ Resumed \/ Returned \/ Ended \/ Aborted

LifeSpec == LifeInit /\ [][LifeNext]_lifeVars
=============================================================================
