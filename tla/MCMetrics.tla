----------------------------- MODULE MCMetrics ------------------------------
(* TLC instance of Metrics: one node in two runs and one dashboard.           *)
EXTENDS Metrics

CONSTANTS n1, d1

\* The collector reads nothing of pushes and dashboards, nor they of it: each
\* is explored while the other stands still.
OnePartAtATime ==
    \/ listing = None /\ nameToId = {} /\ resourceCache = {}
    \/ /\ now = 1 /\ requests = {} /\ history = <<>>
       /\ \A n \in Nodes : flushes[n] = 0 /\ data[n] = 0
       /\ \A d \in Dashboards : board[d] = Blank
=============================================================================
