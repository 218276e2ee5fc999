------------------------------- MODULE MCServer -------------------------------
(***************************************************************************)
(* An instance of Server for TLC.                                          *)
(***************************************************************************)
EXTENDS Server

CONSTANTS c1, c2

MCClients == {c1, c2}

Ch(uid, fta) == [uid |-> uid, fta |-> fta]

\* A channel is added; it leaves, and another one is free to air now, which
\* the hash does not see when both happen in one turn; that one leaves.
MCLists == <<{Ch(1, TRUE), Ch(2, FALSE)}, {Ch(1, TRUE), Ch(2, FALSE), Ch(3, FALSE)},
             {Ch(1, TRUE), Ch(2, TRUE)}, {Ch(1, TRUE)}>>
\* One client that does everything, one that only opens a channel.
MCAsks == [c \in MCClients |-> IF c = c1 THEN {"status", "filter", "channels", "stream"}
                                ELSE {"stream"}]
MCMaxRequests == [c \in MCClients |-> IF c = c1 THEN 2 ELSE 1]
===============================================================================
