------------------------------ MODULE MCWsServer ------------------------------
(***************************************************************************)
(* Instances of WsServer for TLC: a browser that commands, one that leaves *)
(* while it does, one that fetches the page.                               *)
(***************************************************************************)
EXTENDS WsServer

Sent(kind, n) == Message(kind, n, 0)

Operator == [script |-> <<Sent("upgrade", 0), Sent("text", 1)>>, leaves |-> {}]
Leaver == [script |-> <<Sent("upgrade", 0), Sent("text", 2)>>, leaves |-> {"fin"}]
Breaker == [script |-> <<Sent("upgrade", 0), Sent("text", 3)>>, leaves |-> {"reset"}]
Reader == [script |-> <<Sent("get", 0)>>, leaves |-> {}]
Hasty ==
    [script |-> <<Sent("upgrade", 0), Sent("text", 4), Sent("ping", 5), Sent("text", 6),
                  Sent("close", 0)>>,
     leaves |-> {}]
Nobody == [script |-> <<>>, leaves |-> {}]
Babbler == [script |-> <<Sent("junk", 0)>>, leaves |-> {}]

TwoOfThem ==
    {[a |-> Operator, b |-> Leaver], [a |-> Breaker, b |-> Reader],
     [a |-> Hasty, b |-> Nobody], [a |-> Babbler, b |-> Reader]}
=============================================================================
