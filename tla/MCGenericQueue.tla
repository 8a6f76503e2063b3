--------------------------- MODULE MCGenericQueue ---------------------------
\* Model-checking instance of GenericQueue: a search queue with a backlog
\* search (b1), a second request for the same segment (b2), a daily search
\* and a search of high priority.
EXTENDS GenericQueue

CONSTANTS b1, b2, daily, manual

MCPriorityOf ==
  [i \in Item |-> IF i = manual THEN HIGH ELSE IF i = daily THEN NORMAL ELSE LOW]

\* SearchQueue.is_in_queue: a backlog item skips an equal one, in either order.
MCShadow ==
  [i \in Item |-> IF i \in {b1, b2} THEN (Item \cap {b1, b2}) \ {i} ELSE {}]

=============================================================================
