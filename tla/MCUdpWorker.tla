----------------------------- MODULE MCUdpWorker -----------------------------
(* A small instance of UdpWorker for TLC.                                    *)
EXTENDS UdpWorker
=============================================================================
