------------------------------ MODULE MCLogger ------------------------------
(* Three requests at the same time: the one of logData, one that sends a    *)
(* message that cannot be decoded, and one of any kind.                     *)
EXTENDS Logger

CONSTANTS startup, partial, other, c1, c2, c3

MCRequest == {startup, partial, other}
MCConn    == {c1, c2, c3}

Plain         == [encoded |-> FALSE, valid |-> FALSE]
Base64(valid) == [encoded |-> TRUE, valid |-> valid]

MCData ==
  [r \in MCRequest |->
     CASE r = startup -> <<Base64(TRUE)>>
       [] r = partial -> <<Plain, Base64(FALSE), Plain>>
       [] r = other   -> <<>>]

MCMethod == [r \in MCRequest |-> IF r = other THEN {"GET", "POST"} ELSE {"POST"}]

MCBody ==
  [r \in MCRequest |-> IF r = other THEN {"json", "other", "error"} ELSE {"json"}]
=============================================================================
