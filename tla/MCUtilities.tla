---------------------------- MODULE MCUtilities ----------------------------
(* The lock-free stack and the parts that one thread uses by itself, one of *)
(* them per behaviour.                                                      *)
EXTENDS LockFreeStack, LogStream, LogDate, SocketFd, Arena, LinkedList

MCTimes == 60 .. 150

VARIABLE part

vars == <<part, stackVars, streamVars, dateVars, fdVars, arenaVars, listVars>>

Init ==
    /\ part \in {"stack", "stream", "date", "socket", "arena", "list"}
    /\ StackInit /\ StreamInit /\ FdInit /\ ArenaInit /\ ListInit
    /\ part # "stack" => \A t \in Threads : loc[t].s = CHOOSE s \in Stacks : TRUE
    /\ DateInit /\ (part # "date" => zone = 0 /\ \A t \in Times : now <= t)

Stack ==
    part = "stack" /\ StackNext /\ UNCHANGED <<streamVars, dateVars, fdVars, arenaVars, listVars>>
Stream ==
    part = "stream" /\ StreamNext /\ UNCHANGED <<stackVars, dateVars, fdVars, arenaVars, listVars>>
Date ==
    part = "date" /\ DateNext /\ UNCHANGED <<stackVars, streamVars, fdVars, arenaVars, listVars>>
Socket ==
    part = "socket" /\ FdNext /\ UNCHANGED <<stackVars, streamVars, dateVars, arenaVars, listVars>>
Memory ==
    part = "arena" /\ ArenaNext /\ UNCHANGED <<stackVars, streamVars, dateVars, fdVars, listVars>>
List ==
    part = "list" /\ ListNext /\ UNCHANGED <<stackVars, streamVars, dateVars, fdVars, arenaVars>>

Next == part' = part /\ (Stack \/ Stream \/ Date \/ Socket \/ Memory \/ List)

Spec == Init /\ [][Next]_vars
=============================================================================
