------------------------------ MODULE MCPipes ------------------------------
(* A DataTransfer of values that fit PIPE_BUF, used by everybody, and a     *)
(* captured pipe of values that do not.                                    *)
EXTENDS Pipes, TLC
CONSTANTS main, runner, other, transfer, result

MCSenders == (transfer :> {main, runner}) @@ (result :> {runner})
MCReceivers == (transfer :> {main, other}) @@ (result :> {main})
MCSize == (transfer :> 2) @@ (result :> 3)
=============================================================================
