--------------------------- MODULE MCTcpConnection ---------------------------
(***************************************************************************)
(* Instances of TcpConnection for TLC.                                     *)
(***************************************************************************)
EXTENDS TcpConnection

CONSTANTS u1, u2

\* All but startRead() and stopRead() on the loop thread; or two other threads
\* that send.
OneSide == {[inLoop |-> {"send", "shutdown", "forceClose", "forceCloseWithDelay"}, offLoop |-> {}],
            [inLoop |-> {}, offLoop |-> {"send"}]}

\* One sender, on the loop thread; reading, shutdown and close from everywhere.
BothSides == {[inLoop |-> {"send", "startRead", "stopRead"},
               offLoop |-> {"shutdown", "forceClose", "startRead", "stopRead"}]}

\* Messages are sent on the loop thread.
SendOnly == {[inLoop |-> {"send"}, offLoop |-> {}]}
=============================================================================
