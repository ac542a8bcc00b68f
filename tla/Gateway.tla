------------------------------ MODULE Gateway ------------------------------
(***************************************************************************)
(* The gateway as a whole: chat and image requests over one request queue, *)
(* the deletions they leave behind, and the process that serves them and   *)
(* is told to stop.  The queue is its contract, AdmissionSlots; a request  *)
(* is the sequence of its phases, each of which may fail, wait for GLM or  *)
(* find its client gone.  ChatStream has the goroutines and channels of    *)
(* one stream, AccountFailover the attempts behind one opening.            *)
(***************************************************************************)
EXTENDS Integers, FiniteSets

CONSTANTS Slots,          \* GLM_MAX_CONCURRENCY
          Requests,       \* bound: requests of a behaviour, numbered by arrival
          SingleAccount,  \* one account with a refresh token: a busy GLM is waited for
          BusyMaxRetries, \* GLM_BUSY_MAX_RETRIES
          MaxRetries,     \* GLM_STREAM_CONTINUE_MAX_RETRIES
          Traffic,        \* bound: what kinds the requests may be of, in order of arrival
          MaxGone         \* bound: clients that leave in a behaviour

Kinds == {"chat", "image", "modelless"}

ASSUME GatewayAssumption ==
    /\ Slots \in Nat \ {0} /\ Requests \subseteq Nat
    /\ SingleAccount \in BOOLEAN /\ BusyMaxRetries \in Nat
    /\ MaxRetries \in Nat /\ MaxGone \in Nat
    /\ Traffic \subseteq [Requests -> Kinds]

VARIABLES
    arrived, waiting, holding,  \* the queue, as in AdmissionSlots
    kind,      \* "chat", "image", or "modelless": a chat whose "model" is no string
    stage,     \* the phase a request is in
    client,    \* "here" or "gone"
    upstream,  \* "none", "open" or "closed": the body of GLM's response
    waits,     \* busy retries of the operation in progress
    resumes,   \* continue_stream requests that succeeded
    answer,    \* "none", or how the HTTP handler returned
    deletion,  \* the goroutine of DeleteConversation was started
    process,   \* "starting", "serving", "closed" (to new requests), "exited"
    signal     \* "none", "draining" (in Shutdown), "spent": the goroutine that waits for it

queueVars   == <<arrived, waiting, holding>>
callVars    == <<kind, client, waits, resumes>>
resultVars  == <<upstream, answer, deletion>>
processVars == <<process, signal>>
vars == <<queueVars, stage, callVars, resultVars, processVars>>

Queue == INSTANCE AdmissionSlots

Stages == {"new", "queued", "admitted", "opening", "reading", "resuming", "finishing",
           "stuck", "cleanup", "releasing", "closing", "over"}
Answers == {"none", "timeout", "error", "panic", "full", "cut"}

Init ==
    /\ Queue!AbsInit
    /\ kind \in Traffic
    /\ stage = [r \in Requests |-> "new"]
    /\ client = [r \in Requests |-> "here"]
    /\ upstream = [r \in Requests |-> "none"]
    /\ waits = [r \in Requests |-> 0] /\ resumes = [r \in Requests |-> 0]
    /\ answer = [r \in Requests |-> "none"] /\ deletion = [r \in Requests |-> FALSE]
    /\ process = "starting" /\ signal = "none"

(* os.Exit ends every goroutine where it stands. *)
Alive == process # "exited"

Goto(r, s) == Alive /\ stage' = [stage EXCEPT ![r] = s]
Answered(r, a) == answer' = [answer EXCEPT ![r] = a]

-----------------------------------------------------------------------------
(* Into the queue and out of it.  Whether the client is still there plays  *)
(* no part.                                                                *)

Arrive ==
    /\ process = "serving"
    /\ Queue!Arrive
    /\ Goto(arrived, "queued")
    /\ UNCHANGED <<callVars, resultVars, processVars>>

Admit(r) ==
    /\ Queue!Admit(r)
    /\ Goto(r, IF kind[r] = "image" THEN "opening" ELSE "admitted")
    /\ UNCHANGED <<callVars, resultVars, processVars>>

GiveUp(r) ==
    /\ Queue!GiveUp(r)
    /\ Goto(r, "over") /\ Answered(r, "timeout")
    /\ UNCHANGED <<callVars, upstream, deletion, processVars>>

-----------------------------------------------------------------------------
(* openChatStream and openImageStream, with the slot held.                 *)

(* The assertion on payload["model"] panics; gin.Recovery answers. *)
OpenPanics(r) ==
    /\ stage[r] = "admitted" /\ kind[r] = "modelless"
    /\ Goto(r, "over") /\ Answered(r, "panic")
    /\ UNCHANGED <<queueVars, callVars, upstream, deletion, processVars>>

(* The attachments are fetched and uploaded one by one; a failed one is dropped. *)
Upload(r) ==
    /\ stage[r] = "admitted" /\ kind[r] = "chat"
    /\ Goto(r, "opening")
    /\ UNCHANGED <<queueVars, callVars, resultVars, processVars>>

Open(r) ==
    /\ stage[r] = "opening" /\ client[r] = "here"
    /\ Goto(r, "reading")
    /\ upstream' = [upstream EXCEPT ![r] = "open"]
    /\ UNCHANGED <<queueVars, callVars, answer, deletion, processVars>>

(* Every error returns the lease, and so does a context that was cancelled. *)
OpenFails(r) ==
    /\ stage[r] = "opening"
    /\ Queue!Leave(r)
    /\ Goto(r, "over") /\ Answered(r, "error")
    /\ UNCHANGED <<callVars, upstream, deletion, processVars>>

\* Bug: the retries of a busy GLM are not counted.
BusyRetryEndless(r) ==
    /\ Alive /\ SingleAccount
    /\ stage[r] \in {"opening", "resuming"} /\ kind[r] = "chat" /\ client[r] = "here"
    /\ waits' = [waits EXCEPT ![r] = 1 - @]
    /\ UNCHANGED <<queueVars, kind, stage, client, resumes, resultVars, processVars>>

(* GLM answers 429 to the only account: sleep, then ask again.  With       *)
(* several accounts the error is left to the failover, and so to OpenFails *)
(* or Open.                                                                *)
BusyRetry(r) ==
    /\ Alive /\ SingleAccount
    /\ stage[r] \in {"opening", "resuming"} /\ kind[r] = "chat" /\ client[r] = "here"
    /\ waits[r] < BusyMaxRetries
    /\ waits' = [waits EXCEPT ![r] = @ + 1]
    /\ UNCHANGED <<queueVars, kind, stage, client, resumes, resultVars, processVars>>

-----------------------------------------------------------------------------
(* The stream.                                                             *)

\* Bug: one resumption too many.
BreakOffByOne(r) ==
    /\ stage[r] = "reading" /\ kind[r] = "chat" /\ resumes[r] <= MaxRetries
    /\ Goto(r, "resuming")
    /\ upstream' = [upstream EXCEPT ![r] = "closed"]
    /\ waits' = [waits EXCEPT ![r] = 0]
    /\ UNCHANGED <<queueVars, kind, client, resumes, answer, deletion, processVars>>

(* A chat's stream breaks with an id known and retries left. *)
Break(r) ==
    /\ stage[r] = "reading" /\ kind[r] = "chat" /\ resumes[r] < MaxRetries
    /\ Goto(r, "resuming")
    /\ upstream' = [upstream EXCEPT ![r] = "closed"]
    /\ waits' = [waits EXCEPT ![r] = 0]
    /\ UNCHANGED <<queueVars, kind, client, resumes, answer, deletion, processVars>>

ContinueStream(r) ==
    /\ stage[r] = "resuming" /\ client[r] = "here"
    /\ Goto(r, "reading")
    /\ upstream' = [upstream EXCEPT ![r] = "open"]
    /\ resumes' = [resumes EXCEPT ![r] = @ + 1]
    /\ UNCHANGED <<queueVars, kind, client, waits, answer, deletion, processVars>>

ContinueFails(r) ==
    /\ stage[r] = "resuming"
    /\ Goto(r, "finishing")
    /\ UNCHANGED <<queueVars, callVars, resultVars, processVars>>

(* An event that ends the answer leaves the body open for now; after its   *)
(* last event a chat's drainStream closes it, an image request does not.   *)
StreamEnds(r) ==
    /\ stage[r] = "reading"
    /\ Goto(r, "finishing")
    /\ \/ UNCHANGED upstream
       \/ kind[r] = "chat" /\ upstream' = [upstream EXCEPT ![r] = "closed"]
    /\ UNCHANGED <<queueVars, callVars, answer, deletion, processVars>>

(* Nobody drains the channel of a client that has left: once it is full    *)
(* the producer waits for good.                                            *)
Block(r) ==
    /\ stage[r] \in {"reading", "finishing"} /\ kind[r] = "chat" /\ client[r] = "gone"
    /\ Goto(r, "stuck")
    /\ UNCHANGED <<queueVars, callVars, resultVars, processVars>>

(* The last chunks are in the channel and drainStream has closed the body, *)
(* or the images response is built, downloads included.                    *)
Finish(r) ==
    /\ stage[r] = "finishing"
    /\ Goto(r, "cleanup")
    /\ upstream' = [upstream EXCEPT ![r] = IF kind[r] = "chat" THEN "closed" ELSE @]
    /\ UNCHANGED <<queueVars, callVars, answer, deletion, processVars>>

-----------------------------------------------------------------------------
(* The deferred clean-up, a step at a time.                                *)

\* Bugs: the body of an image response is left to the garbage collector; a
\* resumed conversation is deleted as well.
CleanUpChatsOnly(r) ==
    /\ stage[r] = "cleanup"
    /\ Goto(r, "releasing")
    /\ upstream' = [upstream EXCEPT ![r] = IF kind[r] = "chat" THEN "closed" ELSE @]
    /\ deletion' = [deletion EXCEPT ![r] = (resumes[r] = 0)]
    /\ UNCHANGED <<queueVars, callVars, answer, processVars>>

CleanUpDeletes(r) ==
    /\ stage[r] = "cleanup"
    /\ Goto(r, "releasing")
    /\ upstream' = [upstream EXCEPT ![r] = "closed"]
    /\ deletion' = [deletion EXCEPT ![r] = TRUE]
    /\ UNCHANGED <<queueVars, callVars, answer, processVars>>

(* The body is closed, and the conversation goes to a goroutine that       *)
(* deletes it, unless it was resumed ...                                   *)
CleanUp(r) ==
    /\ stage[r] = "cleanup"
    /\ Goto(r, "releasing")
    /\ upstream' = [upstream EXCEPT ![r] = "closed"]
    /\ deletion' = [deletion EXCEPT ![r] = (resumes[r] = 0)]
    /\ UNCHANGED <<queueVars, callVars, answer, processVars>>

(* ... the lease is returned ... *)
Return(r) ==
    /\ stage[r] = "releasing"
    /\ Queue!Leave(r)
    /\ Goto(r, "closing")
    /\ UNCHANGED <<callVars, resultVars, processVars>>

(* ... and the handler gets the end of the channel or the images response. *)
Respond(r) ==
    /\ stage[r] = "closing"
    /\ Goto(r, "over")
    /\ IF answer[r] = "none"
         THEN Answered(r, IF client[r] = "here" THEN "full" ELSE "cut")
         ELSE UNCHANGED answer
    /\ UNCHANGED <<queueVars, callVars, upstream, deletion, processVars>>

ClientLeaves(r) ==
    /\ Alive /\ stage[r] # "new" /\ answer[r] = "none" /\ client[r] = "here"
    /\ Cardinality({q \in Requests : client[q] = "gone"}) < MaxGone
    /\ client' = [client EXCEPT ![r] = "gone"]
    /\ UNCHANGED <<queueVars, kind, stage, waits, resumes, resultVars, processVars>>

(* A chat's handler stops copying; its producer goes on. *)
Abort(r) ==
    /\ Alive /\ kind[r] = "chat" /\ client[r] = "gone" /\ answer[r] = "none"
    /\ stage[r] \in {"reading", "resuming", "finishing", "stuck", "cleanup", "releasing",
                     "closing"}
    /\ Answered(r, "cut")
    /\ UNCHANGED <<queueVars, stage, callVars, upstream, deletion, processVars>>

-----------------------------------------------------------------------------
(* The process: main and the goroutine that waits for a signal.            *)

Run ==
    /\ process = "starting"
    /\ process' = "serving"
    /\ UNCHANGED <<signal, queueVars, stage, callVars, resultVars>>

(* A signal: http.Server.Shutdown closes the listeners, then waits for the *)
(* handlers.  Before Run there is no server to shut down, and it returns   *)
(* at once.                                                                *)
Shutdown ==
    /\ Alive /\ signal = "none"
    /\ IF process = "serving"
         THEN process' = "closed" /\ signal' = "draining"
         ELSE signal' = "spent" /\ UNCHANGED process
    /\ UNCHANGED <<queueVars, stage, callVars, resultVars>>

(* The handlers have returned, or ten seconds have passed.  The goroutine  *)
(* ends: no later signal is read.                                          *)
ShutdownReturns ==
    /\ Alive /\ signal = "draining"
    /\ signal' = "spent"
    /\ UNCHANGED <<process, queueVars, stage, callVars, resultVars>>

(* ListenAndServe has returned ErrServerClosed: os.Exit(1). *)
Exit ==
    /\ process = "closed"
    /\ process' = "exited"
    /\ UNCHANGED <<signal, queueVars, stage, callVars, resultVars>>

-----------------------------------------------------------------------------
Opening(r) == OpenPanics(r) \/ Upload(r) \/ Open(r) \/ OpenFails(r) \/ BusyRetry(r)
Streaming(r) == \/ Break(r) \/ ContinueStream(r) \/ ContinueFails(r)
                \/ StreamEnds(r) \/ Block(r) \/ Finish(r)
Leaving(r) == CleanUp(r) \/ Return(r) \/ Respond(r)
Progress(r) == Admit(r) \/ Opening(r) \/ Streaming(r) \/ Leaving(r) \/ Abort(r)

Request(r) == Progress(r) \/ GiveUp(r) \/ ClientLeaves(r)
Process == Run \/ Shutdown \/ ShutdownReturns \/ Exit

Next == Arrive \/ (\E r \in Requests : Request(r)) \/ Process

Spec == Init /\ [][Next]_vars

(* Goroutines that can run do, the queue admits who may be admitted        *)
(* (RequestQueue!EveryTicketServed), GLM answers, ends or breaks what it   *)
(* began.  Arrivals, clients, time-outs and signals owe nothing.           *)
Fairness == \A r \in Requests : WF_vars(Progress(r))
FairSpec == Spec /\ Fairness

-----------------------------------------------------------------------------
TypeOK ==
    /\ arrived \in Nat /\ waiting \subseteq Requests /\ holding \subseteq Requests
    /\ kind \in [Requests -> Kinds]
    /\ stage \in [Requests -> Stages]
    /\ client \in [Requests -> {"here", "gone"}]
    /\ upstream \in [Requests -> {"none", "open", "closed"}]
    /\ waits \in [Requests -> 0 .. BusyMaxRetries]
    /\ resumes \in [Requests -> 0 .. MaxRetries]
    /\ answer \in [Requests -> Answers]
    /\ deletion \in [Requests -> BOOLEAN]
    /\ process \in {"starting", "serving", "closed", "exited"}
    /\ signal \in {"none", "draining", "spent"}

(* GLM never sees more open streams than GLM_MAX_CONCURRENCY allows, of    *)
(* chats and images together, whatever breaks, resumes, panics, stalls or  *)
(* is abandoned (chat.go:66-76, image.go:71-76).                           *)
UpstreamBounded == Cardinality({r \in Requests : upstream[r] = "open"}) <= Slots

(* Until a producer is stuck with a client that has left, a payload lacks  *)
(* its model, a request has waited too long or the process is stopped,     *)
(* every request that arrives is answered and its slot is free again:      *)
(* while GLM is busy (chat.go:343-372), after failures, and when clients   *)
(* leave the queue, an opening stream or an image (server.go:208-275).     *)
Disturbed ==
    \/ signal # "none"
    \/ \E q \in Requests : stage[q] = "stuck" \/ answer[q] \in {"timeout", "panic"}
EveryRequestAnswered ==
    \A r \in Requests :
        stage[r] = "queued" ~> (answer[r] # "none" /\ r \notin holding) \/ Disturbed

Life(r) == INSTANCE RequestLife WITH
    slot <- CASE r \in holding -> "held"
              [] stage[r] \in {"new", "queued"} \/ answer[r] = "timeout" -> "none"
              [] OTHER -> "released",
    upstream <- upstream[r],
    answer <- CASE answer[r] = "full" -> "ended"
                [] answer[r] = "cut" -> "aborted"
                [] answer[r] \in {"timeout", "error", "panic"} -> "error"
                [] stage[r] \in {"new", "queued", "admitted", "opening"} -> "pending"
                [] OTHER -> "streaming",
    resumed <- resumes[r] > 0,
    deleted <- deletion[r] /\ r \notin holding

(* Chat and image requests alike live inside their slot, delete only what  *)
(* was never resumed, and end when the slot is free: RequestLife, which    *)
(* ChatStream implements too (chat.go:28-37, image.go:43-50).              *)
RequestsKeepPromises ==
    /\ \A r \in Requests : Life(r)!LifeInit
    /\ [][\A r \in Requests : [Life(r)!LifeNext]_(Life(r)!lifeVars)]_vars
=============================================================================
