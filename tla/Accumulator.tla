---------------------------- MODULE Accumulator ----------------------------
(***************************************************************************)
(* GLMEventAccumulator (internal/translator/translator.go:1004-1690).      *)
(*                                                                         *)
(* GLM writes an answer as parts, named by logic ids, that grow side by    *)
(* side.  An event carries some of the parts, each as a snapshot of all    *)
(* there is of it or, with if_increase_push, as the fragment that is new.  *)
(* The accumulator keeps the parts, works out what of each is new for the  *)
(* client, passes the text through the tool parser (ToolParser), collects  *)
(* the calls GLM makes itself, and ends the answer once.  What it sends is *)
(* a step of ClientChunks in each of its own.                              *)
(*                                                                         *)
(* A logic id is its rank in the alphabetical order of all ids.  The two   *)
(* kinds of output, "text" and "think", are treated alike by the code and  *)
(* share their definitions here.                                           *)
(***************************************************************************)
EXTENDS ToolParser, ClientChunks

CONSTANTS Answers,      \* an answer has, for each part, the pieces [type, text]
          PartCount,    \* that GLM writes one after the other
          MaxEvents     \* bound: how many events arrive

ASSUME AnswerAssumption == /\ \A a \in Answers : DOMAIN a = 1..PartCount
                           /\ PartCount \in Nat \ {0} /\ MaxEvents \in Nat

LogicIDs == 1..PartCount
OutputKinds == {"text", "think"}

VARIABLES
  partsByLogicID,       \* content of each known part: items [type, text]
  rendered,             \* cachedPartTexts and cachedPartReasonings: the parts that
                        \* show something of the kind, and what
  sent,                 \* partTextSent ("text") and partReasoningSent ("think");
                        \* their domains are the known ids of the kind
  serverSideToolCalls,  \* ids of the calls GLM made itself
  status,               \* what the last ConsumeEvent returned, if it ends the answer
  fed,                  \* history: the deltas of either kind, joined
  given,                \* history: of them, what belongs to each part
  answer,               \* environment: what GLM is writing
  progress,             \* environment: the pieces of each part that were sent
  inOrder,              \* history: no part grew once a later one had begun
  disturbed,            \* history: parts that did not get what GLM wrote (Disturbs)
  events                \* how many events arrived

accVars == <<partsByLogicID, rendered, sent, serverSideToolCalls>>
historyVars == <<fed, given, progress, inOrder, disturbed>>
vars == <<parserVars, chunkVars, accVars, historyVars, status, answer, events>>

-----------------------------------------------------------------------------
(***************************************************************************)
(* Content of parts.                                                       *)
(***************************************************************************)
Types == {"text", "think", "code", "execution_output", "image", "tool_calls"}
Growing == {"text", "think"}

AppendTo(content, i, item) == [content EXCEPT ![i].text = @ \o item.text]

MergeItemApart(content, item) ==        \* mutant: every fragment is its own item
  Append(content, item)

\* Fragments of text and reasoning are appended to the last item of their
\* type, wherever it stands; if either side is empty the fragment is all that
\* is left.
MergeItem(content, item) ==
  LET same == {i \in DOMAIN content : content[i].type = item.type}
  IN  IF item.type \in Growing /\ same # {}
      THEN AppendTo(content, Max(same), item)
      ELSE Append(content, item)

mergeIncrementalPart(existing, fragment) ==
  IF existing = <<>> \/ fragment = <<>> THEN fragment
  ELSE FoldLeft(MergeItem, existing, fragment)

Blank == {"nl", "sp"}
TrimSpace(text) ==
  LET solid == {i \in DOMAIN text : text[i] \notin Blank}
  IN  IF solid = {} THEN <<>> ELSE SubSeq(text, Min(solid), Max(solid))

JoinedBy(texts, separator) ==
  FoldLeft(LAMBDA all, t : IF all = <<>> THEN t ELSE all \o separator \o t, <<>>,
           SelectSeq(texts, LAMBDA t : t # <<>>))

NoURL == "nourl"

\* The text of an image item is the sequence of its URLs, any of which may be
\* missing.
ItemText(item, kind) ==
  CASE kind = "text" /\ item.type = "code" ->
         <<Fence, "python", "nl">> \o item.text \o <<"nl", Fence>>
    [] kind = "text" /\ item.type = "execution_output" -> item.text
    [] kind = "text" /\ item.type = "image" ->
         JoinedBy([i \in DOMAIN item.text |->
                     IF item.text[i] = NoURL THEN <<>> ELSE <<"image", item.text[i]>>],
                  <<"nl">>)
    [] item.type = kind -> item.text
    [] OTHER -> <<>>

\* renderFullOutput: a part, and all parts that show something.
RenderedPart(content, kind) ==
  TrimSpace(JoinedBy([i \in DOMAIN content |-> ItemText(content[i], kind)], <<"nl">>))

Rendered(parts, kind) ==
  [p \in {q \in DOMAIN parts : RenderedPart(parts[q], kind) # <<>>} |->
     RenderedPart(parts[p], kind)]

PartSeparator == <<"nl", "nl">>

\* cachedFullText and cachedFullReasoning.
FullOutput(texts) ==
  JoinedBy([p \in LogicIDs |-> IF p \in DOMAIN texts THEN texts[p] ELSE <<>>], PartSeparator)

-----------------------------------------------------------------------------
(***************************************************************************)
(* computeDeltas, for one kind: texts is what is rendered now.             *)
(***************************************************************************)
PartDelta(texts, kind, p) ==
  CASE p \notin DOMAIN texts -> <<>>
    [] p \in DOMAIN texts \ DOMAIN sent[kind] -> texts[p]
    [] OTHER -> From(texts[p], sent[kind][p] + 1)

SetOffInEvent(texts, kind, p) ==        \* mutant: forgets the earlier events
  /\ p \in DOMAIN texts \ DOMAIN sent[kind]
  /\ \E q \in DOMAIN texts \ DOMAIN sent[kind] : q < p

\* A part that shows for the first time is set off from any part before it.
SetOff(texts, kind, p) ==
  /\ p \in DOMAIN texts \ DOMAIN sent[kind]
  /\ \/ DOMAIN sent[kind] # {}
     \/ \E q \in DOMAIN texts : q < p

Delta(texts, kind) ==
  FlattenSeq([p \in LogicIDs |->
    (IF SetOff(texts, kind, p) THEN PartSeparator ELSE <<>>) \o PartDelta(texts, kind, p)])

SentAfter(texts, kind) ==
  [p \in DOMAIN sent[kind] \cup DOMAIN texts |->
     IF p \in DOMAIN texts THEN Len(texts[p]) ELSE sent[kind][p]]

-----------------------------------------------------------------------------
(***************************************************************************)
(* What GLM sends.                                                         *)
(***************************************************************************)
\* GLM's own pieces as content: pieces of one growing type in a row are one item.
Written(pieces) ==
  FoldLeft(LAMBDA content, piece :
             IF /\ content # <<>> /\ Last(content).type = piece.type
                /\ piece.type \in Growing
             THEN AppendTo(content, Len(content), piece)
             ELSE Append(content, piece),
           <<>>, pieces)

\* An event: new says how many pieces GLM has written of each of its parts since
\* the last one.  A snapshot holds all pieces so far; a fragment only the new
\* ones, and there may be none.
PiecesLeft(p) == Len(answer[p]) - progress[p]

Events ==
  {e \in [new : UNION {[ids -> 0..Max({PiecesLeft(p) : p \in LogicIDs})] :
                       ids \in SUBSET LogicIDs},
          increase : BOOLEAN] :
     \A p \in DOMAIN e.new :
       /\ e.new[p] <= PiecesLeft(p)
       /\ e.increase => e.new[p] \in {0, 1, PiecesLeft(p)}}

ContentOf(e, p) ==
  Written(SubSeq(answer[p], IF e.increase THEN progress[p] + 1 ELSE 1, progress[p] + e.new[p]))

\* Not code: where mergeIncrementalPart departs from what GLM wrote.  Text or
\* reasoning that goes on after an item of another type is put into the item
\* before that; and a part which an empty fragment has emptied starts anew.
Disturbs(e, p) ==
  LET known == partsByLogicID[p]
      fragment == ContentOf(e, p)
      Before(i) == known \o SubSeq(fragment, 1, i - 1)
  IN  /\ e.increase /\ p \in DOMAIN partsByLogicID /\ fragment # <<>>
      /\ \/ known = <<>> /\ progress[p] > 0
         \/ \E i \in DOMAIN fragment :
              /\ fragment[i].type \in Growing
              /\ Before(i) # <<>> /\ Last(Before(i)).type # fragment[i].type
              /\ \E k \in DOMAIN Before(i) : Before(i)[k].type = fragment[i].type

-----------------------------------------------------------------------------
(***************************************************************************)
(* ConsumeEvent.                                                           *)
(***************************************************************************)
PartsAfter(e) ==
  [p \in DOMAIN partsByLogicID \cup DOMAIN e.new |->
     CASE p \notin DOMAIN e.new -> partsByLogicID[p]
       [] p \in DOMAIN e.new /\ (p \notin DOMAIN partsByLogicID \/ ~e.increase) ->
            ContentOf(e, p)
       [] OTHER -> mergeIncrementalPart(partsByLogicID[p], ContentOf(e, p))]

\* The calls GLM made itself, as their ids; one called finish does not count.
ServerCalls(e) ==
  LET items == FlattenSeq([p \in LogicIDs |->
                 IF p \in DOMAIN e.new
                 THEN SelectSeq(ContentOf(e, p), LAMBDA i : i.type = "tool_calls")
                 ELSE <<>>])
  IN  SelectSeq([i \in DOMAIN items |-> items[i].text], LAMBDA id : id # <<"finish">>)

RecordedAgain(calls, ids) ==            \* mutant: the ids known are not looked up
  calls \o SelectSeq(ids, LAMBDA id : id # <<>>)

Recorded(calls, ids) ==
  FoldLeft(LAMBDA known, id : IF id = <<>> \/ Contains(known, id) THEN known
                              ELSE Append(known, id),
           calls, ids)

ConsumeEvent(e, ending) ==
  LET native == ServerCalls(e)
      delta == [kind \in OutputKinds |-> Delta(rendered'[kind], kind)]
      visible == IF native # <<>> THEN <<>> ELSE Visible(delta["text"])
  IN
  /\ ~finalized /\ status = "" /\ events < MaxEvents
  /\ ~toolCallCompleted
  /\ partsByLogicID' = PartsAfter(e)
  /\ rendered' = [kind \in OutputKinds |-> Rendered(partsByLogicID', kind)]
  /\ serverSideToolCalls' = Recorded(serverSideToolCalls, native)
  /\ sent' = [kind \in OutputKinds |-> SentAfter(rendered'[kind], kind)]
  /\ IF native # <<>> THEN toolCallCompleted' = TRUE /\ UNCHANGED <<PendingText, ToolCalls>>
                      ELSE ConsumeText(delta["text"])
  /\ SendChunks(delta["think"] # <<>>, visible # <<>>)
  /\ status' = ending
  /\ fed' = [kind \in OutputKinds |-> fed[kind] \o delta[kind]]
  /\ given' = [kind \in OutputKinds |-> [p \in LogicIDs |->
                  given[kind][p] \o PartDelta(rendered'[kind], kind, p)]]
  /\ progress' = [p \in LogicIDs |-> progress[p] + (IF p \in DOMAIN e.new THEN e.new[p] ELSE 0)]
  /\ inOrder' = (inOrder /\ \A p, q \in LogicIDs :
                   p < q /\ progress'[p] > progress[p] => progress[q] = 0)
  /\ disturbed' = disturbed \cup {p \in DOMAIN e.new : Disturbs(e, p)}
  /\ events' = events + 1
  /\ UNCHANGED answer

\* Once a call is complete an event only ends the answer, in drainStream.
ConsumeAfterCall ==
  /\ ~finalized /\ status = "" /\ events < MaxEvents
  /\ toolCallCompleted
  /\ status' = "tool_call_complete"
  /\ events' = events + 1
  /\ UNCHANGED <<parserVars, chunkVars, accVars, historyVars, answer>>

\* extractReasoningToolCalls: calls that the model wrote into its reasoning.
ReasoningToolCalls == ParseToolCallsFromText(FullOutput(rendered["think"]))

\* After an event that ends the answer, or at any point where the stream does
\* (chat.go:106, 143-152).  SanitizeToolCalls (1306, 1443) drops no call here:
\* every one of them was made by BuildToolCall, of a name and an object.
Finalize ==
  LET server == Len(serverSideToolCalls)
      json == IF ToolCalls' = 0 /\ server = 0 THEN ReasoningToolCalls ELSE ToolCalls'
  IN
  /\ FlushText
  /\ FinishChunks(server + json)
  /\ UNCHANGED <<accVars, historyVars, status, answer, events>>

-----------------------------------------------------------------------------
Init ==
  /\ ParserInit /\ ChunksInit
  /\ answer \in Answers
  /\ partsByLogicID = <<>>
  /\ rendered = [kind \in OutputKinds |-> <<>>]
  /\ sent = [kind \in OutputKinds |-> <<>>]
  /\ serverSideToolCalls = <<>>
  /\ status = ""
  /\ fed = [kind \in OutputKinds |-> <<>>]
  /\ given = [kind \in OutputKinds |-> [p \in LogicIDs |-> <<>>]]
  /\ progress = [p \in LogicIDs |-> 0]
  /\ inOrder = TRUE /\ disturbed = {} /\ events = 0

Next == \/ \E e \in Events, ending \in {"", "finish"} : ConsumeEvent(e, ending)
        \/ ConsumeAfterCall
        \/ Finalize

Spec == Init /\ [][Next]_vars

-----------------------------------------------------------------------------
TypeOK ==
  /\ DOMAIN partsByLogicID \subseteq LogicIDs
  /\ \A p \in DOMAIN partsByLogicID : \A i \in DOMAIN partsByLogicID[p] :
       partsByLogicID[p][i].type \in Types
  /\ \A kind \in OutputKinds :
       DOMAIN rendered[kind] \subseteq DOMAIN sent[kind] \cap DOMAIN partsByLogicID
  /\ status \in {"", "finish", "tool_call_complete"}
  /\ {emittedRole, finalized, inOrder, toolCallCompleted} \subseteq BOOLEAN
  /\ ToolCalls > 0 => toolCallCompleted
  /\ progress \in [LogicIDs -> Nat] /\ events \in 0..MaxEvents
  /\ disturbed \subseteq DOMAIN partsByLogicID

\* What GLM has written of a part so far.
WrittenSoFar(p) == Written(SubSeq(answer[p], 1, progress[p]))
WrittenOutput(kind) == FullOutput(Rendered([p \in LogicIDs |-> WrittenSoFar(p)], kind))

\* However snapshots, fragments and empty updates mix, and in whatever order
\* the parts come, the deltas of a part add up to its text as GLM wrote it:
\* nothing is left out and nothing comes twice (translator.go:1463-1526,
\* 1536-1580).  Only a disturbed part is not said to: one by fragments, whose
\* text goes on after code, say, or after an empty fragment.  There the length
\* sent so far cuts the text in the wrong place and a piece of it is lost.
DeltasRebuildParts ==
  \A kind \in OutputKinds, p \in LogicIDs \ disturbed :
    given[kind][p] = RenderedPart(WrittenSoFar(p), kind)

\* All deltas together are as long as the whole output: each part is set off
\* once, the first not at all.  They are that output when no part grew after
\* a later one had begun; what comes after that is sent as it comes, not in
\* the order of the logic ids (translator.go:1547-1559).
DeltasRebuildOutput ==
  disturbed = {} =>
    \A kind \in OutputKinds :
      /\ Len(fed[kind]) = Len(WrittenOutput(kind))
      /\ inOrder => fed[kind] = WrittenOutput(kind)

\* An empty update in incremental mode leaves the part without content until
\* the next snapshot (translator.go:1480-1483).
Emptied(p) == p \in DOMAIN partsByLogicID /\ partsByLogicID[p] = <<>>

\* The calls GLM made itself in what has been read of the answer, and whether
\* one of them had no id.
OwnCalls == {answer[p][i].text : <<p, i>> \in
               {w \in LogicIDs \X (1..Max({Len(answer[q]) : q \in LogicIDs})) :
                  w[2] <= progress[w[1]] /\ answer[w[1]][w[2]].type = "tool_calls"}}
OwnIDs == OwnCalls \ {<<>>, <<"finish">>}
NamelessCall == <<>> \in OwnCalls

\* The items in the closed blocks of a text or, where those have none, in the
\* block that breaks off; and the objects of a text that has no block.
BlockItems(text, closed) ==
  {i \in DOMAIN text :
     /\ text[i] = "call" /\ InFunctionCalls(text, i)
     /\ closed <=> \E k \in i..Len(text) : Stands(FunctionCallsEndMarker, text, k)}
ItemsOf(text) == Cardinality(IF BlockItems(text, TRUE) # {} THEN BlockItems(text, TRUE)
                             ELSE BlockItems(text, FALSE))
ObjectsOf(text) == Cardinality({i \in DOMAIN text : Balanced(text, i)})

\* Every call reaches the client once, and none is made up, whichever events
\* brought its pieces (translator.go:1214-1234, 1304-1329): all the calls GLM
\* made itself, if it made any; else those in the text; else those it only
\* thought.  One form shuts out the next: calls in the text are lost beside a
\* call of GLM's own in the same event, even beside one without an id.
\* Reasoning is what GLM wrote, unless fragments have disturbed or emptied it.
CallsReachClient ==
  finalized /\ {"tool_code", "tool_result"} \cap ToSet(fed["text"]) = {} =>
    LET calls == Cardinality(Fields({"tool_calls"}))
        text == IF NamelessCall THEN 0 ELSE ItemsOf(fed["text"])
        thought == WrittenOutput("think")
    IN  CASE OwnIDs # {} -> calls = Cardinality(OwnIDs)
          [] OwnIDs = {} /\ text > 0 -> calls = text
          [] OwnIDs = {} /\ text = 0 ->
               disturbed = {} /\ (\A p \in LogicIDs : ~Emptied(p)) =>
                 calls = IF ItemCalls(thought) > 0 THEN ItemCalls(thought)
                         ELSE ObjectsOf(thought)
=============================================================================
