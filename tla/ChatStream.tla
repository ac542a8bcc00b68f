----------------------------- MODULE ChatStream -----------------------------
(***************************************************************************)
(* One streaming chat request: StreamChatCompletion with its producer      *)
(* goroutine (internal/glmclient/chat.go), the goroutine of iterSSEEvents  *)
(* that reads the body (client.go), and the HTTP handler that drains the   *)
(* producer's channel (internal/server/server.go).  The request queue, the *)
(* account failover and the accumulator are seen from here only by their   *)
(* results; modules of their own model them.                               *)
(*                                                                         *)
(* GLM's events are numbered in the order the body delivers them, over all *)
(* connections of the request.  An event has a kind: "text" makes the      *)
(* accumulator emit a chunk, "bare" is a text without an id, "error" is    *)
(* skipped (raiseForEventError), "end" makes it finish.                    *)
(***************************************************************************)
EXTENDS Integers, Sequences

CONSTANTS OutCap,      \* capacity of the channel to the handler (32)
          EventCap,    \* capacity of the channel of parsed events (32)
          MaxRetries,  \* GLM_STREAM_CONTINUE_MAX_RETRIES
          MaxEvents    \* bound: events GLM sends in a behaviour

ASSUME StreamAssumption ==
    /\ OutCap \in Nat \ {0} /\ EventCap \in Nat \ {0}
    /\ MaxRetries \in Nat /\ MaxEvents \in Nat

VARIABLES
    hasModel,    \* the payload's "model" is a string
    client,      \* "loyal" stays to the end, "restless" may leave, "gone" has left
    handler,     \* "calling" StreamChatCompletion, "copying" chunks, or how it returned
    lease,       \* "none", "held", "released"
    stage,       \* what the producer (before it starts: StreamChatCompletion) does next
    attempt,     \* continue_stream requests that succeeded
    todo,        \* chunks the producer is about to send
    historyID,   \* drainStream's historyID; 0 is the empty string
    body,        \* "none", "open" or "closed": the body of the current response
    canceled,    \* drainStream's own context is cancelled
    reader,      \* "none", "reading", "ended": goroutine of iterSSEEvents
    hand,        \* event the reader is sending, or NoEvent
    events,      \* channel of parsed events
    scanErr,     \* what the reader reports: "nil" or "broken"
    out,         \* channel of chunks
    outClosed,
    deletions,   \* DeleteConversation goroutines started
    sent,        \* events delivered by GLM
    lastID,      \* id of the last event with an id on this connection
    over,        \* GLM has sent an end event on this connection
    shown,       \* text events GLM sent before the end, in order
    received     \* chunks the handler wrote to the client

callVars   == <<hasModel, client, handler, lease>>
prodVars   == <<stage, attempt, todo, historyID>>
readerVars == <<body, canceled, reader, hand, events, scanErr>>
outVars    == <<out, outClosed, deletions, received>>
glmVars    == <<sent, lastID, over, shown>>
vars == <<callVars, prodVars, readerVars, outVars, glmVars>>

Kinds == {"text", "bare", "error", "end"}
Events == [n : 1 .. MaxEvents, kind : Kinds]
NoEvent == [n |-> 0, kind |-> "none"]
Final == 0                       \* the chunks of Finalize, [DONE] last
Chunks == 0 .. MaxEvents
Stages == {"queued", "opening", "draining", "sending", "finishing", "broken",
           "cleanup", "closing", "closed", "refused", "panicked"}

Init ==
    /\ hasModel \in BOOLEAN /\ client \in {"loyal", "restless"}
    /\ handler = "calling" /\ lease = "none"
    /\ stage = "queued" /\ attempt = 0 /\ todo = <<>> /\ historyID = 0
    /\ body = "none" /\ canceled = FALSE /\ reader = "none" /\ hand = NoEvent
    /\ events = <<>> /\ scanErr = "nil"
    /\ out = <<>> /\ outClosed = FALSE /\ deletions = 0 /\ received = <<>>
    /\ sent = 0 /\ lastID = 0 /\ over = FALSE /\ shown = <<>>

-----------------------------------------------------------------------------
(* The handler's goroutine, up to the start of the producer.               *)

Acquire ==
    /\ stage = "queued"
    /\ \/ stage' = "opening" /\ lease' = "held" /\ handler' = handler
       \/ stage' = "refused" /\ lease' = lease /\ handler' = "error"
    /\ UNCHANGED <<hasModel, client, attempt, todo, historyID, readerVars, outVars, glmVars>>

(* openChatStream returns a response, and the producer starts to drain it. *)
OpenChatStream ==
    /\ stage = "opening" /\ hasModel /\ client # "gone"
    /\ stage' = "draining" /\ handler' = "copying"
    /\ body' = "open" /\ reader' = "reading"
    /\ UNCHANGED <<hasModel, client, lease, attempt, todo, historyID, canceled, hand, events,
                   scanErr, outVars, glmVars>>

\* Bug: the error path forgets the lease.
OpenFailsKeepingLease ==
    /\ stage = "opening" /\ hasModel
    /\ stage' = "refused" /\ handler' = "error"
    /\ UNCHANGED <<hasModel, client, lease, attempt, todo, historyID, readerVars, outVars, glmVars>>

(* openChatStream fails, always when the request's context is cancelled. *)
OpenFails ==
    /\ stage = "opening" /\ hasModel
    /\ stage' = "refused" /\ handler' = "error" /\ lease' = "released"
    /\ UNCHANGED <<hasModel, client, attempt, todo, historyID, readerVars, outVars, glmVars>>

(* The type assertion on payload["model"] panics, and gin recovers. *)
OpenPanics ==
    /\ stage = "opening" /\ ~hasModel
    /\ stage' = "panicked" /\ handler' = "error"
    /\ UNCHANGED <<hasModel, client, lease, attempt, todo, historyID, readerVars, outVars, glmVars>>

-----------------------------------------------------------------------------
(* The reader goroutine.                                                   *)

(* It parses the next event and starts to send it.  Lines the scanner has  *)
(* buffered still arrive after the body is closed.                         *)
ReadEvent ==
    /\ reader = "reading" /\ hand = NoEvent /\ sent < MaxEvents
    /\ \E k \in Kinds :
         /\ hand' = [n |-> sent + 1, kind |-> k]
         /\ sent' = sent + 1
         /\ lastID' = IF k = "bare" THEN lastID ELSE sent + 1
         /\ over' = (over \/ k = "end")
         /\ shown' = IF k \in {"text", "bare"} /\ ~over THEN Append(shown, sent + 1) ELSE shown
    /\ UNCHANGED <<callVars, prodVars, body, canceled, reader, events, scanErr, outVars>>

PassEvent ==
    /\ hand # NoEvent /\ Len(events) < EventCap
    /\ events' = Append(events, hand) /\ hand' = NoEvent
    /\ UNCHANGED <<callVars, prodVars, body, canceled, reader, scanErr, outVars, glmVars>>

(* The body ends, or the read fails: the connection broke, the request's   *)
(* context was cancelled, or the body was closed under the reader.         *)
ReadEnds ==
    /\ reader = "reading" /\ hand = NoEvent
    /\ reader' = "ended"
    /\ \/ scanErr' = "nil" /\ body = "open"
       \/ scanErr' = IF canceled THEN "nil" ELSE "broken"
    /\ UNCHANGED <<callVars, prodVars, body, canceled, hand, events, outVars, glmVars>>

-----------------------------------------------------------------------------
(* The producer goroutine.                                                 *)

\* Bug of drainStream: an event that is skipped does not count as the last one.
TakeEventSkipsID ==
    /\ stage = "draining" /\ events # <<>>
    /\ LET e == Head(events)
       IN  /\ historyID' = IF e.kind \in {"bare", "error"} THEN historyID ELSE e.n
           /\ todo' = IF e.kind = "error" THEN <<>>
                        ELSE IF e.kind = "end" THEN <<Final>> ELSE <<e.n>>
           /\ stage' = IF e.kind = "error" THEN "draining"
                         ELSE IF e.kind = "end" THEN "finishing" ELSE "sending"
    /\ events' = Tail(events)
    /\ UNCHANGED <<callVars, attempt, body, canceled, reader, hand, scanErr, outVars, glmVars>>

(* drainStream takes an event. *)
TakeEvent ==
    /\ stage = "draining" /\ events # <<>>
    /\ LET e == Head(events)
       IN  /\ historyID' = IF e.kind = "bare" THEN historyID ELSE e.n
           /\ todo' = CASE e.kind = "error" -> <<>>
                        [] e.kind = "end" -> <<Final>>
                        [] OTHER -> <<e.n>>
           /\ stage' = CASE e.kind = "error" -> "draining"
                         [] e.kind = "end" -> "finishing"
                         [] OTHER -> "sending"
    /\ events' = Tail(events)
    /\ UNCHANGED <<callVars, attempt, body, canceled, reader, hand, scanErr, outVars, glmVars>>

(* A chunk goes into out; the producer blocks while out is full. *)
SendChunk ==
    /\ stage \in {"sending", "finishing"} /\ todo # <<>> /\ Len(out) < OutCap
    /\ out' = Append(out, Head(todo)) /\ todo' = Tail(todo)
    /\ stage' = IF stage = "sending" THEN "draining" ELSE stage
    /\ UNCHANGED <<callVars, attempt, historyID, readerVars, outClosed, deletions, received,
                   glmVars>>

\* Bugs of the end of drainStream: the read error is looked at before the channel is empty; one
\* retry too many.
StreamEndsEarly ==
    /\ stage = "draining" /\ reader = "ended"
    /\ body' = "closed" /\ canceled' = TRUE /\ events' = <<>>
    /\ IF scanErr = "broken" /\ historyID # 0 /\ attempt < MaxRetries
         THEN stage' = "broken" /\ todo' = todo
         ELSE stage' = "finishing" /\ todo' = <<Final>>
    /\ UNCHANGED <<callVars, attempt, historyID, reader, hand, scanErr, outVars, glmVars>>

StreamEndsOffByOne ==
    /\ stage = "draining" /\ events = <<>> /\ reader = "ended"
    /\ body' = "closed" /\ canceled' = TRUE
    /\ IF scanErr = "broken" /\ historyID # 0 /\ attempt <= MaxRetries
         THEN stage' = "broken" /\ todo' = todo
         ELSE stage' = "finishing" /\ todo' = <<Final>>
    /\ UNCHANGED <<callVars, attempt, historyID, reader, hand, events, scanErr, outVars, glmVars>>

(* The channel of events is closed and empty: drainStream returns.  The    *)
(* producer finishes, or resumes when the stream broke, an id is known and *)
(* the retries are not used up.                                            *)
StreamEnds ==
    /\ stage = "draining" /\ events = <<>> /\ reader = "ended"
    /\ body' = "closed" /\ canceled' = TRUE
    /\ IF scanErr = "broken" /\ historyID # 0 /\ attempt < MaxRetries
         THEN stage' = "broken" /\ todo' = todo
         ELSE stage' = "finishing" /\ todo' = <<Final>>
    /\ UNCHANGED <<callVars, attempt, historyID, reader, hand, events, scanErr, outVars, glmVars>>

(* continue_stream answers: drainStream starts over on the new body. *)
ContinueStream ==
    /\ stage = "broken" /\ client # "gone"
    /\ stage' = "draining" /\ attempt' = attempt + 1 /\ historyID' = 0
    /\ body' = "open" /\ canceled' = FALSE /\ reader' = "reading" /\ scanErr' = "nil"
    /\ lastID' = 0
    /\ UNCHANGED <<callVars, todo, hand, events, outVars, sent, over, shown>>

ContinueFails ==
    /\ stage = "broken"
    /\ stage' = "finishing" /\ todo' = <<Final>>
    /\ UNCHANGED <<callVars, attempt, historyID, readerVars, outVars, glmVars>>

\* Bug of the way out: the body of a finished stream stays open.
FinishedBodyOpen ==
    /\ stage = "finishing" /\ todo = <<>>
    /\ stage' = "cleanup"
    /\ UNCHANGED <<callVars, attempt, todo, historyID, readerVars, outVars, glmVars>>

(* The last chunk is out: drainStream or the loop returns. *)
Finished ==
    /\ stage = "finishing" /\ todo = <<>>
    /\ stage' = "cleanup"
    /\ body' = "closed" /\ canceled' = TRUE
    /\ UNCHANGED <<callVars, attempt, todo, historyID, reader, hand, events, scanErr, outVars,
                   glmVars>>

(* The deferred function: delete the conversation unless it was resumed,   *)
(* then return the lease.                                                  *)
CleanUp ==
    /\ stage = "cleanup"
    /\ stage' = "closing"
    /\ deletions' = IF attempt = 0 THEN deletions + 1 ELSE deletions
    /\ lease' = "released"
    /\ UNCHANGED <<hasModel, client, handler, attempt, todo, historyID, readerVars, out,
                   outClosed, received, glmVars>>

(* The deferred close(out). *)
CloseOut ==
    /\ stage = "closing"
    /\ stage' = "closed" /\ outClosed' = TRUE
    /\ UNCHANGED <<callVars, attempt, todo, historyID, readerVars, out, deletions, received,
                   glmVars>>

-----------------------------------------------------------------------------
(* The handler's loop over the channel, and the client.                    *)

CopyChunk ==
    /\ handler = "copying" /\ out # <<>>
    /\ received' = Append(received, Head(out)) /\ out' = Tail(out)
    /\ UNCHANGED <<callVars, prodVars, readerVars, outClosed, deletions, glmVars>>

CopyEnds ==
    /\ handler = "copying" /\ out = <<>> /\ outClosed
    /\ handler' = "done"
    /\ UNCHANGED <<hasModel, client, lease, prodVars, readerVars, outVars, glmVars>>

(* select takes ctx.Done(), whatever the channel holds. *)
CopyAborts ==
    /\ handler = "copying" /\ client = "gone"
    /\ handler' = "aborted"
    /\ UNCHANGED <<hasModel, client, lease, prodVars, readerVars, outVars, glmVars>>

ClientLeaves ==
    /\ client = "restless" /\ handler \in {"calling", "copying"}
    /\ client' = "gone"
    /\ UNCHANGED <<hasModel, handler, lease, prodVars, readerVars, outVars, glmVars>>

-----------------------------------------------------------------------------
Call == Acquire \/ OpenChatStream \/ OpenFails \/ OpenPanics
Reader == ReadEvent \/ PassEvent \/ ReadEnds
Producer == \/ TakeEvent \/ SendChunk \/ StreamEnds \/ ContinueStream \/ ContinueFails
            \/ Finished \/ CleanUp \/ CloseOut
Handler == CopyChunk \/ CopyEnds \/ CopyAborts

Next == Call \/ Reader \/ Producer \/ Handler \/ ClientLeaves

Spec == Init /\ [][Next]_vars

(* Goroutines that can run do, and GLM sends, ends or breaks its streams.  *)
(* The client owes nothing: it may leave, or stay without being told to.   *)
Fairness == WF_vars(Call) /\ WF_vars(Reader) /\ WF_vars(Producer) /\ WF_vars(Handler)
FairSpec == Spec /\ Fairness

-----------------------------------------------------------------------------
TypeOK ==
    /\ hasModel \in BOOLEAN /\ client \in {"loyal", "restless", "gone"}
    /\ handler \in {"calling", "copying", "done", "aborted", "error"}
    /\ lease \in {"none", "held", "released"}
    /\ stage \in Stages /\ attempt \in 0 .. MaxRetries
    /\ todo \in Seq(Chunks) /\ Len(todo) <= 1 /\ historyID \in Chunks
    /\ body \in {"none", "open", "closed"} /\ canceled \in BOOLEAN
    /\ reader \in {"none", "reading", "ended"} /\ hand \in Events \union {NoEvent}
    /\ events \in Seq(Events) /\ Len(events) <= EventCap /\ scanErr \in {"nil", "broken"}
    /\ out \in Seq(Chunks) /\ Len(out) <= OutCap /\ outClosed \in BOOLEAN
    /\ deletions \in 0 .. 1 /\ received \in Seq(Chunks)
    /\ sent \in Chunks /\ lastID \in Chunks /\ over \in BOOLEAN /\ shown \in Seq(Chunks)

(* What the handler wrote when the channel was closed is every text event  *)
(* read up to the end, in order, across interruptions, and one Final.      *)
AnswerComplete == handler = "done" => received = Append(shown, Final)

(* A broken stream is resumed from the last event with an id that the      *)
(* connection delivered, and only when every event read before the break   *)
(* has been taken (chat.go:130-160, 96-102).                               *)
ResumesFromLastEvent ==
    [][attempt' > attempt =>
         historyID = lastID /\ events = <<>> /\ hand = NoEvent]_vars

(* A client that stays gets its answer to the end, or an error, and the    *)
(* slot is free again (chat.go:39-112, server.go:243-254).                 *)
LoyalClientServed ==
    (client = "loyal" /\ hasModel) ~>
        (handler \in {"done", "error"} /\ lease # "held")

-----------------------------------------------------------------------------
Life == INSTANCE RequestLife WITH
            slot <- lease,
            upstream <- body,
            answer <- CASE handler = "calling" -> "pending"
                        [] handler = "copying" -> "streaming"
                        [] handler = "done" -> "ended"
                        [] OTHER -> handler,
            resumed <- attempt > 0,
            deleted <- deletions > 0

(* The goroutines of a request keep its promises (chat.go:39-112): no body *)
(* is open without the slot, across resumptions; the client sees the end   *)
(* only when the slot is free; no resumed conversation is deleted.         *)
ImplementsRequestLife == Life!LifeSpec
=============================================================================
