---------------------------- MODULE MCContextWindow ----------------------------
(* A small instance of ContextWindow: hashes of three digits, most of which  *)
(* share the first, so that abbreviations collide and prefixes that were not *)
(* handed out name entries too.                                              *)
EXTENDS ContextWindow

MCResultsOf == [t \in {"mcp", "search", "status"} |->
                  CASE t = "mcp" -> {<<1, 1, 1>>}
                    [] t = "search" -> {<<1, 1, 2>>}
                    [] t = "status" -> {<<2, 1, 1>>}]

MCFileHash == (0 :> <<1, 1, 3>>) @@ (1 :> <<1, 2, 1>>)

Compactions == [keepFirst |-> 1, keepLast |-> 2, blockSize |-> 2, sumKeepLast |-> 1,
                ratio |-> [distant |-> 4, middle |-> 3, recent |-> 3], summarizer |-> TRUE]

Using(names) == {[name |-> n, cfg |-> Compactions] : n \in names}

(* Replies of one call, of several calls, and of a lone batch of calls.      *)
One(t) == [calls |-> <<t>>, several |-> FALSE, batch |-> FALSE]
Several(ts) == [calls |-> ts, several |-> TRUE, batch |-> FALSE]
Batch(ts) == [calls |-> ts, several |-> FALSE, batch |-> TRUE]

(* Trajectories that are compacted and resumed.                              *)
Long == [keepLastN |-> 0, threshold |-> 0, evictAfter |-> 0, evictStatus |-> FALSE,
         dedup |-> FALSE, defence |-> TRUE, reads |-> FALSE, bound |-> 4,
         replies |-> {One("read"), Several(<<"mcp", "status">>), Batch(<<"mcp", "read">>)},
         strategies |-> Using({"hierarchical"})]

(* Results that expire, change, are stored by other agents and read back.    *)
Shared == [Long EXCEPT !.reads = TRUE, !.bound = 0, !.strategies = {}, !.replies = {}]

(* Long enough for the summaries of the hierarchical strategy (six steps).   *)
Longer == [Long EXCEPT !.bound = 6, !.replies = {Several(<<"mcp", "status", "read">>), Batch(<<"mcp", "read">>)}]

MCConfigs == {[Long EXCEPT !.keepLastN = 1, !.strategies = Using({"sliding_window"})],
              Longer,
              [Long EXCEPT !.evictAfter = 2, !.dedup = TRUE, !.evictStatus = TRUE,
                           !.strategies = Using({"summarization"})],
              [Long EXCEPT !.keepLastN = 1, !.threshold = 60, !.dedup = TRUE],
              Shared}
=============================================================================
