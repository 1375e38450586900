---- MODULE MCBrokers ----
(* Two connections at a time, one service with two tools. *)
EXTENDS Brokers, TLC

CONSTANTS c1, c2

TwoConns   == {c1, c2}
TwoTools   == {"t1", "t2"}
OneService == {"s1"}
Owner      == ("t1" :> "s1") @@ ("t2" :> "s1")
TwoCursors == {"a", "b"}
====
