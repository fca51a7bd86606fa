------------------------------ MODULE MCTcpConn ------------------------------
(* Bounded instance of TcpConn for TLC.                                    *)
EXTENDS TcpConn
=============================================================================
