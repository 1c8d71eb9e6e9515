---------------------------- MODULE MCEventLoop ----------------------------
(* An instance of the event loop for TLC: one id per item.                 *)
EXTENDS EventLoop

CONSTANTS a, b

TwoItems  == {a, b}
TwoIds    == {1, 2}
OneEach   == [id \in {1, 2} |-> IF id = 1 THEN a ELSE b]
BothPolls == {"epoll", "kqueue"}
TwoPeriods == {2, 3}
=============================================================================
