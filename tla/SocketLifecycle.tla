--------------------------- MODULE SocketLifecycle ---------------------------
(***************************************************************************)
(* What the event loop promises the application about each socket, and     *)
(* the system about each descriptor, with nothing of how it is done.       *)
(*                                                                         *)
(* A socket object is created with a descriptor of its own, is announced   *)
(* as closed (HandleClose), gives its descriptor back, and is deleted, in  *)
(* that order and whatever goes wrong; it keeps its descriptor from the    *)
(* first moment to the third and never has another.                        *)
(***************************************************************************)
EXTENDS Integers

CONSTANTS
    Sockets,
    Fds,
    NoFd     \* what fdOf is of a socket without one: no member of Fds

VARIABLES
    stage,   \* [Sockets -> Stages]
    fdOf     \* [Sockets -> Fds or NoFd]

Stages == {"absent", "open", "announced", "closed"}

Init ==
    /\ stage = [s \in Sockets |-> "absent"]
    /\ fdOf = [s \in Sockets |-> NoFd]

(* A socket that could not be set up is announced as it is created. *)
Create(s, fd) ==
    /\ stage[s] = "absent"
    /\ \A t \in Sockets : fdOf[t] # fd
    /\ \E st \in {"open", "announced"} : stage' = [stage EXCEPT ![s] = st]
    /\ fdOf' = [fdOf EXCEPT ![s] = fd]

Announce(s) ==
    /\ stage[s] = "open"
    /\ stage' = [stage EXCEPT ![s] = "announced"]
    /\ UNCHANGED fdOf

Release(s) ==
    /\ stage[s] = "announced"
    /\ stage' = [stage EXCEPT ![s] = "closed"]
    /\ fdOf' = [fdOf EXCEPT ![s] = NoFd]

(* All sockets closed so far are deleted together. *)
Delete ==
    /\ stage' = [s \in Sockets |-> IF stage[s] = "closed" THEN "absent"
                                   ELSE stage[s]]
    /\ UNCHANGED fdOf

Next ==
    \/ \E s \in Sockets, fd \in Fds : Create(s, fd)
    \/ \E s \in Sockets : Announce(s) \/ Release(s)
    \/ Delete

Spec == Init /\ [][Next]_<<stage, fdOf>>
=============================================================================
