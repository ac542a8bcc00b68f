------------------------------ MODULE MCGateway ------------------------------
(***************************************************************************)
(* The gateway on small instances, and the statement about its end that    *)
(* one run refutes.                                                        *)
(***************************************************************************)
EXTENDS Gateway, Sequences

MCRequests == 0 .. 2
MCTraffic == {<<"chat", "image", "chat">>, <<"modelless", "image", "modelless">>}
FromZero(q) == [r \in 0 .. Len(q) - 1 |-> q[r + 1]]
ThreeRequests == {FromZero(q) : q \in MCTraffic}

OneRequest == {0}
OneChat == {[r \in OneRequest |-> "chat"]}

(* main.go:58 and server.go:76 announce a graceful shutdown, for which     *)
(* main.go:65 allows ten seconds: the process does not end while Shutdown  *)
(* still waits for a handler (main.go:72-75).                              *)
GracefulShutdown ==
    process = "exited" /\ signal = "draining" =>
        \A r \in Requests : stage[r] = "new" \/ answer[r] # "none"
=============================================================================
