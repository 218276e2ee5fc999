------------------------------ MODULE MCClients ------------------------------
(***************************************************************************)
(* Instances of Clients for TLC.                                           *)
(***************************************************************************)
EXTENDS Clients, TLC

CONSTANTS c1, c2

MCListeners == <<c1, c2>>

\* Both clients edit timers; one of them uses them otherwise, too, wants to
\* be notified or not, and sends more than one request.
MCTwoEditors == (c1 :> {"edit"})
                @@ (c2 :> {"edit", "update", "enable", "disable"})

MCOneAndTwo == (c1 :> 1) @@ (c2 :> 2)
MCOneEach   == (c1 :> 1) @@ (c2 :> 1)

\* One client adds a timer, the other one opens a channel.
MCEditAndWatch == (c1 :> {"edit"}) @@ (c2 :> {"timers"})
=============================================================================
