-------------------------- MODULE MCPushDelivery --------------------------
(* Small instances of PushDelivery: waits that grow, as those of the code  *)
(* do, against a ceiling the last of them would pass.                      *)
EXTENDS PushDelivery

MCWait == [attempt \in 1 .. MaxAttempts - 1 |-> IF attempt = 1 THEN 1 ELSE 2]
MCShortWait == [attempt \in 1 .. MaxAttempts - 1 |-> 1]
===========================================================================
