----------------------------- MODULE MCWsServer -----------------------------
EXTENDS WsServer

MCConns == 1 .. 2
MCSlots == 0 .. 1
MCDescriptors == 5 .. 6
MCUsers == 1 .. 2

Frame(op, fin, size, body) == [op |-> op, fin |-> fin, rsv |-> FALSE, size |-> size, body |-> body]

(* every kind of frame: empty and not, whole and not, too long and odd *)
AllFrames ==
    {Frame(op, fin, size, 7) : op \in {"txt", "cont"}, fin \in BOOLEAN, size \in {0, 2}}
    \union {Frame("bin", TRUE, 5, 8), Frame("ping", TRUE, 4, 3), Frame("ping", FALSE, 4, 3),
            Frame("close", TRUE, 2, 999), Frame("close", TRUE, 0, 0),
            Frame("what", TRUE, 0, 0), [Frame("txt", TRUE, 2, 9) EXCEPT !.rsv = TRUE]}

(* what matters to threads: the end of a connection and the answer to a PING *)
Goodbyes == {Frame("close", TRUE, 2, 1000)}
Answered == Goodbyes \union {Frame("ping", TRUE, 4, 3)}
FewFrames == Goodbyes \union {Frame("pong", TRUE, 4, 0)}

(* one client with much to say; two that share the slots and the            *)
(* descriptors, closed by the application or of their own, or told          *)
(* something meanwhile; one that is pinged and closed                       *)
MCScenarios ==
    {[conns |-> 1, frames |-> 4, kinds |-> AllFrames, calls |-> 0, names |-> {}, timeout |-> TRUE],
     [conns |-> 2, frames |-> 0, kinds |-> {}, calls |-> 2, names |-> {"close", "ping"}, timeout |-> TRUE],
     [conns |-> 2, frames |-> 0, kinds |-> {}, calls |-> 2, names |-> {"send", "broadcast"}, timeout |-> TRUE],
     [conns |-> 2, frames |-> 1, kinds |-> Answered, calls |-> 1, names |-> {"close", "ping"}, timeout |-> TRUE],
     [conns |-> 1, frames |-> 1, kinds |-> FewFrames, calls |-> 3, names |-> {"close", "ping"}, timeout |-> TRUE]}

(* clients that are closed while others come, or while a PING or a frame is *)
(* on its way, with a timeout for send () and without                       *)
MCFewScenarios ==
    UNION {{[conns |-> 2, frames |-> 1, kinds |-> Goodbyes, calls |-> 1, names |-> {"close"}, timeout |-> timeout],
            [conns |-> 1, frames |-> 0, kinds |-> {}, calls |-> 2, names |-> {"close", "broadcast"}, timeout |-> timeout],
            [conns |-> 1, frames |-> 0, kinds |-> {}, calls |-> 3, names |-> {"close", "ping"}, timeout |-> timeout]}
              : timeout \in BOOLEAN}
=============================================================================
