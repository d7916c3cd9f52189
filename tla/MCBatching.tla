----------------------------- MODULE MCBatching -----------------------------
(* All payloads of a manifest and up to four lines of three lengths, blank   *)
(* ones included, and limits that bind in either order.                    *)
EXTENDS Batching

MCPayloads == UNION {{<<2>> \o y : y \in [1..n -> {0, 1, 3}]} : n \in 0..4}

Limit(l, b) == [lines |-> l, bytes |-> b]
MCLimits == {Limit(1, 9), Limit(2, 4), Limit(2, 6), Limit(3, 3), Limit(9, 5)}
=============================================================================
