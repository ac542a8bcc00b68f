---------------------------- MODULE ImageAnswer ----------------------------
(***************************************************************************)
(* The response to an image request: buildImagesResponse                   *)
(* (internal/glmclient/image.go:206-274).                                  *)
(*                                                                         *)
(* GenerateImages feeds the events of the cogview answer to the same       *)
(* accumulator as a chat, and then reads the images from the parts the     *)
(* accumulator holds.  A part counts when its latest update called it      *)
(* finished, which is how GLM marks the update that completes it.          *)
(***************************************************************************)
EXTENDS Accumulator

CONSTANT MaxImages      \* the most images one request may ask for (10 in the code)

ASSUME MaxImagesAssumption == MaxImages \in Nat \ {0}

coercePositiveInt(value, default, maximum) ==
  IF value < 1 THEN default ELSE Min({value, maximum})

GetOrderedParts == SetToSortSeq(DOMAIN partsByLogicID, <)

Finished(p) == progress[p] = Len(answer[p])

TakeURLsOfItem(data, item, n) ==        \* mutant: the count is only looked at between items
  IF Len(data) >= n THEN data ELSE data \o SelectSeq(item.text, LAMBDA url : url # NoURL)

\* Each of the three loops stops once there are n images.
TakeURLs(data, item, n) ==
  FoldLeft(LAMBDA taken, url : IF Len(taken) >= n \/ url = NoURL THEN taken
                               ELSE Append(taken, url),
           data, item.text)

TakePart(data, p, n) ==
  FoldLeft(LAMBDA taken, item : IF item.type = "image" THEN TakeURLs(taken, item, n)
                                ELSE taken,
           data, IF Finished(p) THEN partsByLogicID[p] ELSE <<>>)

\* The URLs in the response; with none of them it is an error 502.
buildImagesResponse(requested) ==
  LET n == coercePositiveInt(requested, 1, MaxImages)
  IN  FoldLeft(LAMBDA taken, p : TakePart(taken, p, n), <<>>, GetOrderedParts)

-----------------------------------------------------------------------------
URLsOf(pieces) ==
  SelectSeq(FlattenSeq([i \in DOMAIN pieces |->
              IF pieces[i].type = "image" THEN pieces[i].text ELSE <<>>]),
            LAMBDA url : url # NoURL)

ImagesGiven ==
  FlattenSeq([p \in LogicIDs |->
    IF Finished(p) /\ ~Emptied(p) THEN URLsOf(answer[p]) ELSE <<>>])

\* At any point where the stream may end, and in whatever mixture of snapshots
\* and fragments the parts came, the response holds the images of the finished
\* parts as GLM wrote them, in the order of the logic ids and not in that of
\* their arrival, none twice and none missing but those beyond the count
\* (image.go:217-261, translator.go:1418-1426).  A part that an empty fragment
\* has emptied shows none, and one that then went on by fragments only the
\* later ones (translator.go:1480-1483): of them nothing is said.
ImagesReachClient ==
  ~toolCallCompleted /\ (\A p \in disturbed : URLsOf(answer[p]) = <<>>) =>
    \A requested \in 0..MaxImages + 1 :
      LET count == IF requested = 0 THEN 1 ELSE Min({requested, MaxImages})
      IN  buildImagesResponse(requested) =
            SubSeq(ImagesGiven, 1, Min({count, Len(ImagesGiven)}))
=============================================================================
