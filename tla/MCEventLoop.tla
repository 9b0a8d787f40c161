----------------------------- MODULE MCEventLoop -----------------------------
(* Small instances of EventLoop for TLC.                                    *)
EXTENDS EventLoop, TLC

CONSTANTS s1, s2, s3

TwoSockets == {s1, s2}
ThreeSockets == {s1, s2, s3}
TwoFds == {1, 2}
ThreeFds == {1, 2, 3}

SocketSymmetry == Permutations(Sockets)
=============================================================================
