------------------------------ MODULE SocketFd ------------------------------
(***************************************************************************)
(* Who owns a file descriptor: SocketFd (src/src/socket.cpp,               *)
(* src/include/p/base/socket.h) and fd_guard (src/include/p/base/          *)
(* fd_guard.h).  The kernel answers the lowest number that is free, so a   *)
(* number that was closed is soon another socket.                          *)
(***************************************************************************)
EXTENDS Integers, FiniteSets, Functions

CONSTANTS
    Sockets,   \* SocketFd objects
    Guards,    \* fd_guard objects
    MaxFd      \* bound: descriptors of the process are 0 .. MaxFd

ASSUME FdsAssumption == MaxFd \in Nat

Objects == Sockets \cup Guards
Fds == 0 .. MaxFd
None == -1

VARIABLES
    fd_,       \* the descriptor of every object
    kernel,    \* the open descriptors: is it listening, non-blocking, close-on-exec
    raw,       \* descriptors that release has handed to the caller
    leaked     \* history: open, and nobody has the number any more

fdVars == <<fd_, kernel, raw, leaked>>

Opened == DOMAIN kernel
NewSocket == [listening |-> FALSE, non_block |-> FALSE, close_on_exec |-> FALSE]

FdInit ==
    /\ fd_ = [o \in Objects |-> None]
    /\ kernel = [f \in {} |-> NewSocket]
    /\ raw = {} /\ leaked = {}

\* External: the kernel.  close of a number that is not open does nothing.
Close(k, f) == Restrict(k, DOMAIN k \ {f})
Lowest(k) == CHOOSE f \in Fds \ DOMAIN k : \A g \in Fds \ DOMAIN k : f <= g
Install(k, f, state) == [g \in DOMAIN k \cup {f} |-> IF g = f THEN state ELSE k[g]]

\* set_non_block finds the access mode, which is > 0; set_close_on_exec finds
\* 0 on a new socket and leaves it.
GetFl(state) == 2
GetFd(state) == IF state.close_on_exec THEN 1 ELSE 0
SetNonBlock(state) == [state EXCEPT !.non_block = @ \/ GetFl(state) > 0]
SetCloseOnExec(state) == [state EXCEPT !.close_on_exec = @ \/ GetFd(state) > 0]

-----------------------------------------------------------------------------
(* reset, release and the destructors, of both classes *)

\* A descriptor that release has handed out, or none
Reset(o, f) ==
    /\ f \in raw \cup {None}
    /\ kernel' = Close(kernel, fd_[o])
    /\ fd_' = [fd_ EXCEPT ![o] = f]
    /\ raw' = raw \ {f}
    /\ UNCHANGED leaked

Release(o) ==
    /\ fd_[o] # None
    /\ raw' = raw \cup {fd_[o]}
    /\ fd_' = [fd_ EXCEPT ![o] = None]
    /\ UNCHANGED <<kernel, leaked>>

\* The destructor, and a new object in its place
Destruct(o) == fd_[o] # None /\ Reset(o, None)

-----------------------------------------------------------------------------
(* SocketFd *)

\* reset first; connect may fail or not, the socket is kept.
Connect(s) ==
    LET k == Close(kernel, fd_[s]) IN
    /\ \/ /\ DOMAIN k # Fds
          /\ kernel' = Install(k, Lowest(k), SetCloseOnExec(SetNonBlock(NewSocket)))
          /\ fd_' = [fd_ EXCEPT ![s] = Lowest(k)]
       \/ kernel' = k /\ fd_' = [fd_ EXCEPT ![s] = None]
    /\ UNCHANGED <<raw, leaked>>

\* fd_ is overwritten whatever it was.  bind fails, or listen does, or neither:
\* the socket is kept.
Listen(s) ==
    /\ \/ /\ Opened # Fds
          /\ \E state \in {NewSocket, SetCloseOnExec(SetNonBlock(NewSocket)),
                           [SetCloseOnExec(SetNonBlock(NewSocket)) EXCEPT !.listening = TRUE]} :
                kernel' = Install(kernel, Lowest(kernel), state)
          /\ fd_' = [fd_ EXCEPT ![s] = Lowest(kernel)]
       \/ kernel' = kernel /\ fd_' = [fd_ EXCEPT ![s] = None]
    /\ leaked' = leaked \cup ({fd_[s]} \ {None})
    /\ raw' = raw

\* accept4 answers before the socket that new_s had is closed.
AcceptClosedKept(new_s) == kernel
AcceptClosed(new_s) == Close(kernel, fd_[new_s])
Accept(s, new_s) ==
    /\ fd_[s] # None /\ kernel[fd_[s]].listening /\ Opened # Fds
    /\ kernel' = Install(AcceptClosed(new_s), Lowest(kernel),
                         [NewSocket EXCEPT !.non_block = TRUE, !.close_on_exec = TRUE])
    /\ fd_' = [fd_ EXCEPT ![new_s] = Lowest(kernel)]
    /\ UNCHANGED <<raw, leaked>>

\* shutdown does not close: the number is forgotten.
Shutdown(s) ==
    /\ fd_[s] # None
    /\ leaked' = leaked \cup {fd_[s]}
    /\ fd_' = [fd_ EXCEPT ![s] = None]
    /\ UNCHANGED <<kernel, raw>>

FdNext ==
    \/ \E o \in Objects : Release(o) \/ Destruct(o) \/ \E f \in raw : Reset(o, f)
    \/ \E s \in Sockets : Connect(s) \/ Listen(s) \/ Shutdown(s)
                          \/ \E new_s \in Sockets : Accept(s, new_s)

FdSpec == FdInit /\ [][FdNext]_fdVars

-----------------------------------------------------------------------------
(* Properties *)

\* An open descriptor has one owner: an object, the caller that release gave it
\* to, or nobody, after a Listen on an object that had one or a Shutdown.  So
\* no object closes, accepts on or hands out a number that has become another
\* object's.
OneOwner ==
    /\ \A o, p \in Objects : o # p /\ fd_[o] # None => fd_[o] # fd_[p]
    /\ LET owned == {fd_[o] : o \in Objects} \ {None} IN
       /\ owned \cup raw \cup leaked = Opened
       /\ owned \cap raw = {} /\ owned \cap leaked = {} /\ raw \cap leaked = {}
=============================================================================
