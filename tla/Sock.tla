-------------------------------- MODULE Sock --------------------------------
(***************************************************************************)
(* net/sock.c: how sockets are made - sock_connect_wto_bind,               *)
(* sock_connect_non_blocking and sock_get_server_socket, in the build with *)
(* getaddrinfo and poll, and sock_listen, sock_accept and sock_close, by   *)
(* any number of threads that share the descriptors of a process.          *)
(*                                                                         *)
(* A step is a system call with the code up to the next one.  A name has   *)
(* one or more addresses; any of the calls may fail, connections are       *)
(* answered while the callers wait, and signals interrupt them.            *)
(***************************************************************************)
EXTENDS Integers

CONSTANTS
    Callers,
    Fds,         \* the descriptors; socket() may give out a closed one again
    SOCK_ERROR,
    NumsOfAddrs, \* how many addresses a name may have
    Timeouts,    \* the timeouts, in seconds, that callers give
    MaxCalls,    \* bound: calls that look up a name, in all
    MaxSignals   \* bound: system calls that are interrupted

VARIABLES
    pc,      \* per caller: the system call it makes next
    call,    \* per caller: the function it called, with the arguments
    n,       \* per caller: the length of the list of addresses
    ai,      \* per caller: the entry of the list that it looks at
    sock,    \* per caller: the local variable, or what was returned
    head,    \* per caller: the list "head" ("res") is allocated
    b_lists, \* per caller: how many lists were put into b_head and not freed
    conn,    \* per descriptor: the state of its socket
    blocking, bound,
    handed,  \* per descriptor: the call that returned it to a client
    calls, signals

vars == <<pc, call, n, ai, sock, head, b_lists, conn, blocking, bound, handed,
          calls, signals>>
kern == <<conn, blocking, bound>>

ASSUME SockAssumption ==
    /\ SOCK_ERROR \notin Fds
    /\ NumsOfAddrs \subseteq Nat \ {0} /\ Timeouts \subseteq Int
    /\ MaxCalls \in Nat /\ MaxSignals \in Nat

Call(op, bnd, timeout) == [op |-> op, bnd |-> bnd, timeout |-> timeout]
Calls == [op : {"wto_bind"}, bnd : BOOLEAN, timeout : Timeouts] \cup
         [op : {"non_blocking", "server"}, bnd : {FALSE}, timeout : {0}]
Accepted == Call("accept", FALSE, 0)
NoCall   == Call("none", FALSE, 0)

PCs    == {"idle", "socket", "bind", "connect", "poll"}
\* The socket of a descriptor.  "again" is one that is not connected since connect()
\* said EAGAIN.
States == {"closed", "new", "again", "pending", "connected", "refused", "listening"}

TypeOK ==
    /\ pc \in [Callers -> PCs]
    /\ call \in [Callers -> Calls \cup {NoCall}]
    /\ n \in [Callers -> Nat] /\ ai \in [Callers -> Nat \ {0}]
    /\ sock \in [Callers -> Fds \cup {SOCK_ERROR}]
    /\ head \in [Callers -> BOOLEAN] /\ b_lists \in [Callers -> Nat]
    /\ conn \in [Fds -> States]
    /\ blocking \in [Fds -> BOOLEAN] /\ bound \in [Fds -> BOOLEAN]
    /\ handed \in [Fds -> Calls \cup {Accepted, NoCall}]
    /\ calls \in Nat /\ signals \in Nat

Init ==
    /\ pc = [c \in Callers |-> "idle"] /\ call = [c \in Callers |-> NoCall]
    /\ n = [c \in Callers |-> 0] /\ ai = [c \in Callers |-> 1]
    /\ sock = [c \in Callers |-> SOCK_ERROR]
    /\ head = [c \in Callers |-> FALSE] /\ b_lists = [c \in Callers |-> 0]
    /\ conn = [fd \in Fds |-> "closed"] /\ blocking = [fd \in Fds |-> TRUE]
    /\ bound = [fd \in Fds |-> FALSE] /\ handed = [fd \in Fds |-> NoCall]
    /\ calls = 0 /\ signals = 0

Open(fd) == conn[fd] # "closed"

\* A signal comes during a system call.
Interrupted == signals < MaxSignals /\ signals' = signals + 1

-----------------------------------------------------------------------------
(* Parts of the steps                                                      *)

Goto(c, where) == /\ pc' = [pc EXCEPT ![c] = where]
                  /\ UNCHANGED <<ai, sock, head, b_lists, handed>>

\* The end of a call, at which b lists were put into b_head: the last of them is
\* freed, and so is head.
Return(c, s, b) ==
    /\ pc' = [pc EXCEPT ![c] = "idle"]
    /\ sock' = [sock EXCEPT ![c] = s]
    /\ head' = [head EXCEPT ![c] = FALSE]
    /\ b_lists' = [b_lists EXCEPT ![c] = IF b = 0 THEN 0 ELSE b - 1]
    /\ handed' = IF s = SOCK_ERROR THEN handed ELSE [handed EXCEPT ![s] = call[c]]

\* Mutant of NextAddress: "ai = ai->ai_next" is missing.
SameAddress(c) ==
    /\ pc' = [pc EXCEPT ![c] = "socket"]
    /\ sock' = [sock EXCEPT ![c] = SOCK_ERROR]
    /\ UNCHANGED <<ai, head, b_lists, handed>>

\* On to the next address, if there is one.
NextAddress(c) ==
    /\ ai' = [ai EXCEPT ![c] = @ + 1]
    /\ IF ai[c] < n[c]
       THEN /\ pc' = [pc EXCEPT ![c] = "socket"]
            /\ sock' = [sock EXCEPT ![c] = SOCK_ERROR]
            /\ UNCHANGED <<head, b_lists, handed>>
       ELSE Return(c, SOCK_ERROR, b_lists[c])

\* The state of a descriptor, and of its socket, after a system call.
Becomes(fd, state, block, bind) ==
    /\ conn' = [conn EXCEPT ![fd] = state]
    /\ blocking' = [blocking EXCEPT ![fd] = block]
    /\ bound' = [bound EXCEPT ![fd] = bind]

Close(fd)      == Becomes(fd, "closed", TRUE, FALSE)
Conn(c, state) == Becomes(sock[c], state, blocking[sock[c]], bound[sock[c]])
Bound(c)       == Becomes(sock[c], conn[sock[c]], blocking[sock[c]], TRUE)

Succeed(c) == Return(c, sock[c], b_lists[c]) /\ ai' = ai

-----------------------------------------------------------------------------
(* The functions that look up a name                                       *)

\* getaddrinfo of the host or the interface.
Begin(c) ==
    /\ pc[c] = "idle"
    /\ calls < MaxCalls /\ calls' = calls + 1
    /\ \E k \in Calls : call' = [call EXCEPT ![c] = k]
    /\ sock' = [sock EXCEPT ![c] = SOCK_ERROR]
    /\ ai' = [ai EXCEPT ![c] = 1]
    /\ b_lists' = [b_lists EXCEPT ![c] = 0]
    /\ \/ n' = [n EXCEPT ![c] = 0] /\ UNCHANGED <<head, pc>>
       \/ /\ \E m \in NumsOfAddrs : n' = [n EXCEPT ![c] = m]
          /\ head' = [head EXCEPT ![c] = TRUE]
          /\ pc' = [pc EXCEPT ![c] = "socket"]
    /\ UNCHANGED <<kern, handed, signals>>

\* Whether the socket of a call is blocking while it connects.
Blocking(k) == \/ k.op = "server"
               \/ k.op = "wto_bind" /\ k.timeout <= 0

\* socket(), and sock_set_blocking.
Socket(c) ==
    /\ pc[c] = "socket"
    /\ \/ NextAddress(c) /\ UNCHANGED kern
       \/ \E fd \in Fds :
            /\ ~Open(fd)
            /\ Becomes(fd, "new", Blocking(call[c]), FALSE)
            /\ sock' = [sock EXCEPT ![c] = fd]
            /\ pc' = [pc EXCEPT ![c] = IF call[c].bnd \/ call[c].op = "server"
                                       THEN "bind" ELSE "connect"]
            /\ UNCHANGED <<ai, head, b_lists, handed>>
    /\ UNCHANGED <<call, n, calls, signals>>

\* getaddrinfo of the address to bind to, into b_head, whatever it points to
\* already, and bind().  A failure of either ends the loop over the addresses.
BindTo(c) ==
    /\ pc[c] = "bind" /\ call[c].op = "wto_bind"
    /\ ai' = ai
    /\ \/ /\ Close(sock[c])
          /\ \E got \in {0, 1} : Return(c, SOCK_ERROR, b_lists[c] + got)
       \/ /\ Bound(c)
          /\ b_lists' = [b_lists EXCEPT ![c] = @ + 1]
          /\ pc' = [pc EXCEPT ![c] = "connect"]
          /\ UNCHANGED <<sock, head, handed>>
    /\ UNCHANGED <<call, n, calls, signals>>

\* Mutant of BindServer: the socket is not closed when bind() fails.
BindServerLeaks(c) ==
    /\ pc[c] = "bind" /\ call[c].op = "server"
    /\ \/ UNCHANGED kern /\ NextAddress(c)
       \/ Bound(c) /\ Succeed(c)
    /\ UNCHANGED <<call, n, calls, signals>>

\* bind() in sock_get_server_socket: a failure leads on to the next address.
BindServer(c) ==
    /\ pc[c] = "bind" /\ call[c].op = "server"
    /\ \/ Close(sock[c]) /\ NextAddress(c)
       \/ Bound(c) /\ Succeed(c)
    /\ UNCHANGED <<call, n, calls, signals>>

\* connect().  A blocking one may be interrupted and then goes on by itself; a
\* non-blocking one may go on, and that is all sock_connect_non_blocking wants.  When
\* it says EAGAIN nothing goes on, but sock_connect_wto_bind takes that for an error
\* to recover from and polls the socket.
Connect(c) ==
    /\ pc[c] = "connect"
    /\ \/ Conn(c, "connected") /\ Succeed(c) /\ signals' = signals
       \/ Close(sock[c]) /\ NextAddress(c) /\ signals' = signals
       \/ /\ Conn(c, "pending")
          /\ IF blocking[sock[c]] THEN Interrupted ELSE signals' = signals
          /\ IF call[c].op = "wto_bind" THEN Goto(c, "poll") /\ ai' = ai ELSE Succeed(c)
       \/ /\ call[c].op = "wto_bind"
          /\ Conn(c, "again") /\ signals' = signals
          /\ Goto(c, "poll") /\ ai' = ai
    /\ UNCHANGED <<call, n, calls>>

\* Mutant of Ready: SO_ERROR is not looked at.
ReadyUnasked(c) ==
    /\ conn[sock[c]] \in {"connected", "refused", "again"}
    /\ Becomes(sock[c], conn[sock[c]], blocking[sock[c]] \/ call[c].timeout >= 0,
               bound[sock[c]])
    /\ Succeed(c)
    /\ signals' = signals

\* poll() says that the connect was answered, getsockopt() how.  A socket on which no
\* connect goes on is ready too, and has no error.  The socket is made blocking even
\* if it never was anything else.
Ready(c) ==
    /\ \/ /\ conn[sock[c]] \in {"connected", "again"}
          /\ Becomes(sock[c], conn[sock[c]], blocking[sock[c]] \/ call[c].timeout >= 0,
                     bound[sock[c]])
          /\ Succeed(c)
       \/ conn[sock[c]] = "refused" /\ Close(sock[c]) /\ NextAddress(c)
    /\ signals' = signals

\* Mutant of TimedOut: a timeout below 0 is none at all.
TimedOutAtOnce(c) ==
    /\ conn[sock[c]] = "pending"
    /\ Close(sock[c]) /\ NextAddress(c)
    /\ signals' = signals

\* Mutant of TimedOut: a timeout is the end of the call.
TimedOutForGood(c) ==
    /\ conn[sock[c]] = "pending" /\ call[c].timeout >= 0
    /\ Close(sock[c]) /\ Return(c, SOCK_ERROR, b_lists[c]) /\ ai' = ai
    /\ signals' = signals

\* poll() gives up: never if the timeout is below 0, at once if it is 0.
TimedOut(c) ==
    /\ conn[sock[c]] = "pending" /\ call[c].timeout >= 0
    /\ Close(sock[c]) /\ NextAddress(c)
    /\ signals' = signals

\* sock_connected, in the loop of sock_connect_wto_bind.  When poll() is
\* interrupted, it is called again with the whole timeout.
sock_connected(c) ==
    /\ pc[c] = "poll"
    /\ \/ Ready(c)
       \/ TimedOut(c)
       \/ /\ conn[sock[c]] = "pending" /\ Interrupted
          /\ Goto(c, "poll") /\ UNCHANGED kern /\ ai' = ai
    /\ UNCHANGED <<call, n, calls>>

-----------------------------------------------------------------------------
(* The network, and the clients with the sockets they were given           *)

\* The peer, or the OS for want of one, answers a connect.
Answer(fd) ==
    /\ conn[fd] = "pending"
    /\ \E state \in {"connected", "refused"} : conn' = [conn EXCEPT ![fd] = state]
    /\ UNCHANGED <<pc, call, n, ai, sock, head, b_lists, blocking, bound, handed,
                   calls, signals>>

sock_listen(fd) ==
    /\ handed[fd].op = "server"
    /\ conn' = [conn EXCEPT ![fd] = "listening"]
    /\ UNCHANGED <<pc, call, n, ai, sock, head, b_lists, blocking, bound, handed,
                   calls, signals>>

\* accept() of a connection, which gets a descriptor of its own.
sock_accept(fd, new) ==
    /\ handed[fd].op = "server" /\ conn[fd] = "listening" /\ ~Open(new)
    /\ Becomes(new, "connected", TRUE, TRUE)
    /\ handed' = [handed EXCEPT ![new] = Accepted]
    /\ UNCHANGED <<pc, call, n, ai, sock, head, b_lists, calls, signals>>

\* A client closes what it was given.
sock_close(fd) ==
    /\ handed[fd] # NoCall
    /\ Close(fd)
    /\ handed' = [handed EXCEPT ![fd] = NoCall]
    /\ UNCHANGED <<pc, call, n, ai, sock, head, b_lists, calls, signals>>

\* What a caller does in one of the functions.
Step(c) == Socket(c) \/ BindTo(c) \/ BindServer(c) \/ Connect(c) \/ sock_connected(c)

Idle == (\A c \in Callers : pc[c] = "idle") /\ UNCHANGED vars

Next == \/ \E c \in Callers : Begin(c) \/ Step(c)
        \/ \E fd \in Fds : Answer(fd) \/ sock_listen(fd) \/ sock_close(fd)
        \/ \E fd, new \in Fds : sock_accept(fd, new)
        \/ Idle

Spec == Init /\ [][Next]_vars

\* Threads run, and the OS does not try a connect forever.
Fairness == /\ \A c \in Callers : WF_vars(Step(c))
            /\ \A fd \in Fds : WF_vars(Answer(fd))

FairSpec == Spec /\ Fairness

-----------------------------------------------------------------------------
(* Properties                                                              *)

\* A call uses its own descriptor and loses none: a descriptor is open exactly if
\* a call is at work with it or a client was given it, and never for two of them,
\* whichever system call fails at whichever address.  (A call that closed one
\* twice could close the socket of another thread, which socket() gave out.)
Using(c, fd) == pc[c] \notin {"idle", "socket"} /\ sock[c] = fd
Owned(fd) ==
    /\ Open(fd) <=> handed[fd] # NoCall \/ \E c \in Callers : Using(c, fd)
    /\ \A c \in Callers : Using(c, fd) =>
        handed[fd] = NoCall /\ \A d \in Callers \ {c} : ~Using(d, fd)
Descriptors == \A fd \in Fds : Owned(fd)

\* What a client was given is what it asked for: connected (or on the way, if it
\* did not want to wait), bound, and as blocking as the path to it leaves it.  After
\* EAGAIN alone it is not: then the socket is returned without a connection.
AsAsked(fd) == LET k == handed[fd] IN
    /\ k.op = "wto_bind" => /\ conn[fd] \in {"connected", "again"}
                            /\ k.bnd => bound[fd]
                            /\ k.timeout <= 0 => blocking[fd]
    /\ k.op = "non_blocking" => conn[fd] \in {"pending", "connected", "refused"}
    /\ k.op = "server" => bound[fd] /\ conn[fd] \in {"new", "listening"}
    /\ k.op \in {"server", "accept"} => blocking[fd]
Handed == \A fd \in Fds : AsAsked(fd)

\* An error is returned after all addresses have been tried (unless there was one
\* to bind to), and head and b_head are freed once; where b_head was used for more
\* than one address, all its lists but the last are lost.
Leaves(c) == pc[c] = "idle" =>
    /\ ~head[c]
    /\ b_lists[c] > 0 => call[c].bnd /\ ai[c] > 1
    /\ sock[c] = SOCK_ERROR /\ ~call[c].bnd => ai[c] > n[c]
NothingLeft == \A c \in Callers : Leaves(c)

\* With a timeout below 0 a call waits until the OS gives up on the connect.
Patient == [][\A c \in Callers :
    pc[c] = "poll" /\ call[c].timeout < 0 /\ conn[sock[c]] = "pending"
    => conn'[sock[c]] # "closed"]_vars

\* Every call returns: signals do not keep it, nor do addresses that fail.
Returns == \A c \in Callers : pc[c] # "idle" ~> pc[c] = "idle"
=============================================================================
