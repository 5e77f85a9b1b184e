---------------------------- MODULE MCAuditSink ----------------------------
EXTENDS AuditSink, TLC
MCTopic == <<"p1", "nul", "none", "p2">>
MCPayloads == {"p1", "p2", "nul"}
MCHash(h, p) == <<h, p>>

\* The keys of p1 come back in another order.
MCJsonb(p) == IF p = "p1" THEN "p1, reordered" ELSE p
=============================================================================
