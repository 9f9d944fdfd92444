----------------------------- MODULE SockProofs -----------------------------
(***************************************************************************)
(* Proofs about Sock, for any number of threads, descriptors and addresses *)
(* and any timeouts.                                                       *)
(***************************************************************************)
EXTENDS Sock, TLAPS

-----------------------------------------------------------------------------
(* The inductive invariant                                                 *)

\* What a caller knows at each system call: the arguments, and the state of the
\* socket that it has in hand.
AtBind(c) == pc[c] = "bind" =>
    /\ sock[c] \in Fds /\ conn[sock[c]] = "new"
    /\ blocking[sock[c]] = Blocking(call[c])
    /\ call[c].bnd \/ call[c].op = "server"

AtConnect(c) == pc[c] = "connect" =>
    /\ sock[c] \in Fds /\ conn[sock[c]] = "new"
    /\ blocking[sock[c]] = Blocking(call[c])
    /\ call[c].op \in {"wto_bind", "non_blocking"}
    /\ call[c].bnd => bound[sock[c]]

AtPoll(c) == pc[c] = "poll" =>
    /\ sock[c] \in Fds /\ conn[sock[c]] \in {"again", "pending", "connected", "refused"}
    /\ blocking[sock[c]] = Blocking(call[c])
    /\ call[c].op = "wto_bind"
    /\ call[c].bnd => bound[sock[c]]

\* One list per address went into b_head, up to the present one.
AtWork(c) == pc[c] # "idle" =>
    /\ call[c] \in Calls
    /\ b_lists[c] > 0 => call[c].bnd
    /\ b_lists[c] <= IF pc[c] \in {"socket", "bind"} THEN ai[c] - 1 ELSE ai[c]

Local(c) == AtBind(c) /\ AtConnect(c) /\ AtPoll(c) /\ AtWork(c)

IInv == TypeOK /\ Descriptors /\ (\A c \in Callers : Local(c)) /\ Handed /\ NothingLeft

-----------------------------------------------------------------------------
(* The parts of the steps                                                  *)

\* What a call is.  (With this the provers need not look into the records.)
LEMMA CallFacts ==
    \A k \in Calls : /\ k.op \in {"wto_bind", "non_blocking", "server"}
                     /\ k.op # "wto_bind" => ~k.bnd
                     /\ k.timeout \in Int /\ k.bnd \in BOOLEAN
                     /\ k # NoCall /\ k # Accepted
<1> SUFFICES ASSUME NEW k \in Calls
             PROVE  /\ k.op \in {"wto_bind", "non_blocking", "server"}
                    /\ k.op # "wto_bind" => ~k.bnd
                    /\ k.timeout \in Int /\ k.bnd \in BOOLEAN
  BY DEF NoCall, Accepted, Call
<1>1. CASE k \in [op : {"wto_bind"}, bnd : BOOLEAN, timeout : Timeouts]
  BY <1>1, SockAssumption
<1>2. CASE k \in [op : {"non_blocking", "server"}, bnd : {FALSE}, timeout : {0}]
  <2>1. k.op \in {"non_blocking", "server"} /\ k.bnd = FALSE /\ k.timeout = 0
    BY <1>2
  <2>2. k.timeout \in Int
    BY <2>1
  <2>3. k.op \in {"wto_bind", "non_blocking", "server"}
    BY <2>1
  <2> QED
    BY <2>1, <2>2, <2>3, Zenon
<1> QED
  BY <1>1, <1>2 DEF Calls

\* The marks for no call and for accept are no calls of the others.
LEMMA OtherCalls ==
    NoCall # Accepted /\ NoCall.op = "none" /\ Accepted.op = "accept" /\ ~NoCall.bnd
BY DEF NoCall, Accepted, Call

\* A system call on a descriptor changes that one only.
LEMMA BecomesEffect ==
    ASSUME TypeOK, NEW fd \in Fds, NEW s \in States, NEW bl \in BOOLEAN,
           NEW bd \in BOOLEAN, Becomes(fd, s, bl, bd)
    PROVE  /\ conn' \in [Fds -> States]
           /\ blocking' \in [Fds -> BOOLEAN] /\ bound' \in [Fds -> BOOLEAN]
           /\ conn'[fd] = s /\ blocking'[fd] = bl /\ bound'[fd] = bd
           /\ \A f \in Fds \ {fd} : /\ conn'[f] = conn[f]
                                    /\ blocking'[f] = blocking[f]
                                    /\ bound'[f] = bound[f]
BY DEF TypeOK, Becomes

\* The variables of the other callers do not change.
Others(c) == \A d \in Callers \ {c} :
    /\ pc'[d] = pc[d] /\ sock'[d] = sock[d] /\ ai'[d] = ai[d]
    /\ head'[d] = head[d] /\ b_lists'[d] = b_lists[d]
    /\ call'[d] = call[d] /\ n'[d] = n[d]

LocalTypes == /\ pc \in [Callers -> PCs]
              /\ sock \in [Callers -> Fds \cup {SOCK_ERROR}]
              /\ head \in [Callers -> BOOLEAN] /\ b_lists \in [Callers -> Nat]
              /\ handed \in [Fds -> Calls \cup {Accepted, NoCall}]

\* A call that returns gives its socket and its locals up.
LEMMA ReturnEffect ==
    ASSUME TypeOK, NEW c \in Callers, NEW s \in Fds \cup {SOCK_ERROR}, NEW b \in Nat,
           call[c] \in Calls, Return(c, s, b), UNCHANGED <<call, n>>,
           \A d \in Callers \ {c} : ai'[d] = ai[d]
    PROVE  /\ LocalTypes' /\ Others(c)
           /\ pc'[c] = "idle" /\ sock'[c] = s /\ ~head'[c]
           /\ b_lists'[c] = IF b = 0 THEN 0 ELSE b - 1
           /\ \A f \in Fds : handed'[f] = IF f = s THEN call[c] ELSE handed[f]
<1>1. LocalTypes'
  BY SockAssumption DEF TypeOK, LocalTypes, Return, PCs
<1>2. Others(c)
  BY DEF TypeOK, Others, Return
<1>3. \A f \in Fds : handed'[f] = IF f = s THEN call[c] ELSE handed[f]
  BY SockAssumption DEF TypeOK, Return
<1> QED
  BY <1>1, <1>2, <1>3 DEF TypeOK, Return

\* On to the next address, or back with an error.
LEMMA NextAddressEffect ==
    ASSUME TypeOK, NEW c \in Callers, call[c] \in Calls, NextAddress(c),
           UNCHANGED <<call, n>>
    PROVE  /\ LocalTypes' /\ Others(c)
           /\ sock'[c] = SOCK_ERROR
           /\ ai' \in [Callers -> Nat \ {0}] /\ ai'[c] = ai[c] + 1
           /\ handed' = handed
           /\ \/ pc'[c] = "socket" /\ b_lists'[c] = b_lists[c]
              \/ /\ pc'[c] = "idle" /\ ~head'[c] /\ ai[c] >= n[c]
                 /\ b_lists'[c] = IF b_lists[c] = 0 THEN 0 ELSE b_lists[c] - 1
<1>1. /\ ai' \in [Callers -> Nat \ {0}] /\ ai'[c] = ai[c] + 1
      /\ \A d \in Callers \ {c} : ai'[d] = ai[d]
  BY DEF TypeOK, NextAddress
<1>2. CASE ai[c] < n[c]
  <2>1. LocalTypes'
    BY <1>2 DEF TypeOK, LocalTypes, NextAddress, PCs
  <2> QED
    BY <1>1, <1>2, <2>1 DEF TypeOK, Others, NextAddress
<1>3. CASE ~(ai[c] < n[c])
  <2>1. Return(c, SOCK_ERROR, b_lists[c]) /\ b_lists[c] \in Nat /\ ai[c] >= n[c]
    BY <1>3 DEF TypeOK, NextAddress
  <2>2. handed' = handed
    BY <2>1 DEF Return
  <2> QED
    BY <1>1, <2>1, <2>2, ReturnEffect
<1> QED
  BY <1>2, <1>3

-----------------------------------------------------------------------------
(* The frame                                                               *)

\* A step of caller c touches only the descriptors in T, which it has in hand or
\* which are closed, and uses no others.
Touches(c, T) ==
    /\ Others(c)
    /\ \A f \in Fds \ T : /\ conn'[f] = conn[f] /\ blocking'[f] = blocking[f]
                          /\ bound'[f] = bound[f] /\ handed'[f] = handed[f]
                          /\ ~Using(c, f) /\ ~Using(c, f)'
    /\ \A f \in T : Using(c, f) \/ ~Open(f)

\* Then the invariant is left to be shown for the caller and those descriptors.
LEMMA Frame ==
    ASSUME IInv, NEW c \in Callers, NEW T \in SUBSET Fds, Touches(c, T),
           TypeOK', Local(c)', Leaves(c)',
           \A f \in T : /\ AsAsked(f)'
                        /\ Open(f)' <=> handed'[f] # NoCall \/ Using(c, f)'
                        /\ Using(c, f)' => handed'[f] = NoCall
    PROVE  IInv'
<1>1. \A d \in Callers \ {c}, f \in T : ~Using(d, f) /\ ~Using(d, f)'
  BY DEF IInv, Descriptors, Owned, Touches, Others, Using
<1>2. \A d \in Callers \ {c}, f \in Fds : Using(d, f) <=> Using(d, f)'
  BY DEF Touches, Others, Using
<1>3. Descriptors'
  <2> SUFFICES ASSUME NEW f \in Fds PROVE Owned(f)'
    BY DEF Descriptors
  <2>1. CASE f \in T
    BY <1>1, <2>1 DEF Owned
  <2>2. CASE f \notin T
    <3>1. Owned(f) /\ (Open(f) <=> Open(f)') /\ handed'[f] = handed[f]
      BY <2>2 DEF IInv, Descriptors, Touches, Open
    <3>2. \A d \in Callers : Using(d, f) <=> Using(d, f)'
      BY <1>2, <2>2 DEF Touches
    <3> QED
      BY <3>1, <3>2 DEF Owned
  <2> QED
    BY <2>1, <2>2
<1>4. \A d \in Callers : Local(d)'
  <2> SUFFICES ASSUME NEW d \in Callers \ {c} PROVE Local(d)'
    OBVIOUS
  <2>1. Local(d) /\ pc'[d] = pc[d] /\ sock'[d] = sock[d] /\ call'[d] = call[d]
        /\ ai'[d] = ai[d] /\ b_lists'[d] = b_lists[d]
    BY DEF IInv, Touches, Others
  <2>2. CASE pc[d] \in {"bind", "connect", "poll"}
    <3>1. sock[d] \in Fds /\ Using(d, sock[d])
      BY <2>1, <2>2 DEF Local, AtBind, AtConnect, AtPoll, Using
    <3>2. /\ conn'[sock[d]] = conn[sock[d]] /\ bound'[sock[d]] = bound[sock[d]]
          /\ blocking'[sock[d]] = blocking[sock[d]]
      BY <1>1, <3>1 DEF Touches
    <3> QED
      BY <2>1, <3>2 DEF Local, AtBind, AtConnect, AtPoll, AtWork, Blocking
  <2>3. CASE pc[d] \notin {"bind", "connect", "poll"}
    BY <2>1, <2>3 DEF Local, AtBind, AtConnect, AtPoll, AtWork
  <2> QED
    BY <2>2, <2>3
<1>5. Handed'
  BY DEF IInv, Handed, AsAsked, Touches
<1>6. NothingLeft'
  BY DEF IInv, NothingLeft, Leaves, Touches, Others
<1> QED
  BY <1>3, <1>4, <1>5, <1>6 DEF IInv

-----------------------------------------------------------------------------
(* The steps                                                               *)

\* getaddrinfo: no socket is touched.
LEMMA BeginStep ==
    ASSUME IInv, NEW c \in Callers, Begin(c)
    PROVE  IInv'
<1>1. PICK k \in Calls : call' = [call EXCEPT ![c] = k]
  BY DEF Begin
<1>2. /\ call'[c] = k /\ sock'[c] = SOCK_ERROR /\ ai'[c] = 1 /\ b_lists'[c] = 0
      /\ \/ pc'[c] = "idle" /\ n'[c] = 0 /\ ~head'[c]
         \/ pc'[c] = "socket"
  BY <1>1 DEF IInv, TypeOK, NothingLeft, Leaves, Begin
<1>3. TypeOK'
  <2>1. n' \in [Callers -> Nat] /\ head' \in [Callers -> BOOLEAN] /\ pc' \in [Callers -> PCs]
    <3>1. CASE n' = [n EXCEPT ![c] = 0] /\ UNCHANGED <<head, pc>>
      BY <3>1 DEF IInv, TypeOK
    <3>2. CASE /\ \E m \in NumsOfAddrs : n' = [n EXCEPT ![c] = m]
               /\ head' = [head EXCEPT ![c] = TRUE]
               /\ pc' = [pc EXCEPT ![c] = "socket"]
      <4>1. PICK m \in NumsOfAddrs : n' = [n EXCEPT ![c] = m]
        BY <3>2
      <4>2. m \in Nat
        BY SockAssumption
      <4> QED
        BY <3>2, <4>1, <4>2 DEF IInv, TypeOK, PCs
    <3> QED
      BY <3>1, <3>2 DEF Begin
  <2>2. /\ call' \in [Callers -> Calls \cup {NoCall}]
        /\ sock' \in [Callers -> Fds \cup {SOCK_ERROR}]
        /\ ai' \in [Callers -> Nat \ {0}] /\ b_lists' \in [Callers -> Nat]
        /\ calls' \in Nat
    BY <1>1 DEF IInv, TypeOK, Begin
  <2> QED
    BY <2>1, <2>2 DEF IInv, TypeOK, kern, Begin
<1>4. Touches(c, {})
  BY <1>1, <1>2 DEF IInv, TypeOK, Touches, Others, Using, kern, Begin
<1>5. Local(c)' /\ Leaves(c)'
  BY <1>2 DEF Local, AtBind, AtConnect, AtPoll, AtWork, Leaves
<1> QED
  BY <1>3, <1>4, <1>5, Frame

\* A step that leads on to the next address, the socket in hand being closed, or
\* none being there.
LEMMA NextAddressStep ==
    ASSUME IInv, NEW c \in Callers, pc[c] # "idle", NextAddress(c),
           \/ UNCHANGED kern /\ pc[c] = "socket"
           \/ Close(sock[c]) /\ pc[c] # "socket",
           UNCHANGED <<call, n, calls>>, signals' \in Nat
    PROVE  IInv'
<1>1. TypeOK /\ call[c] \in Calls /\ Local(c)
  BY DEF IInv, Local, AtWork
<1>2. /\ LocalTypes' /\ Others(c)
      /\ sock'[c] = SOCK_ERROR
      /\ ai' \in [Callers -> Nat \ {0}] /\ ai'[c] = ai[c] + 1
      /\ handed' = handed
      /\ \/ pc'[c] = "socket" /\ b_lists'[c] = b_lists[c]
         \/ /\ pc'[c] = "idle" /\ ~head'[c] /\ ai[c] >= n[c]
            /\ b_lists'[c] = IF b_lists[c] = 0 THEN 0 ELSE b_lists[c] - 1
  BY <1>1, NextAddressEffect
<1>3. Local(c)' /\ Leaves(c)'
  BY <1>1, <1>2 DEF TypeOK, Local, AtBind, AtConnect, AtPoll, AtWork, Leaves
<1>4. CASE UNCHANGED kern /\ pc[c] = "socket"
  <2>1. TypeOK'
    BY <1>1, <1>2, <1>4 DEF TypeOK, LocalTypes, kern
  <2>2. Touches(c, {})
    BY <1>2, <1>4 DEF Touches, Using, kern
  <2> QED
    BY <1>3, <2>1, <2>2, Frame
<1>5. CASE Close(sock[c]) /\ pc[c] # "socket"
  <2>1. sock[c] \in Fds /\ Using(c, sock[c])
    BY <1>1, <1>5 DEF TypeOK, PCs, Local, AtBind, AtConnect, AtPoll, Using
  <2>2. /\ conn' \in [Fds -> States]
        /\ blocking' \in [Fds -> BOOLEAN] /\ bound' \in [Fds -> BOOLEAN]
        /\ conn'[sock[c]] = "closed"
        /\ \A f \in Fds \ {sock[c]} : /\ conn'[f] = conn[f]
                                      /\ blocking'[f] = blocking[f]
                                      /\ bound'[f] = bound[f]
    BY <1>1, <1>5, <2>1, BecomesEffect DEF Close, States
  <2>3. TypeOK'
    BY <1>1, <1>2, <2>2 DEF TypeOK, LocalTypes
  <2>4. Touches(c, {sock[c]})
    BY <1>2, <2>1, <2>2, SockAssumption DEF Touches, Using
  <2>5. handed'[sock[c]] = NoCall
    BY <1>2, <2>1 DEF IInv, Descriptors, Owned
  <2>6. \A f \in {sock[c]} : AsAsked(f)'
    BY <2>5, OtherCalls DEF AsAsked
  <2>7. \A f \in {sock[c]} : ~Open(f)' /\ ~Using(c, f)' /\ handed'[f] = NoCall
    BY <1>2, <2>1, <2>2, <2>5, SockAssumption DEF Open, Using
  <2> QED
    BY <1>3, <2>1, <2>3, <2>4, <2>6, <2>7, Frame
<1> QED
  BY <1>4, <1>5
\* A step that returns the socket in hand, in the state that the call asks for.
LEMMA SucceedStep ==
    ASSUME IInv, NEW c \in Callers, pc[c] \in {"bind", "connect", "poll"},
           NEW s \in States, NEW bl \in BOOLEAN, NEW bd \in BOOLEAN,
           Becomes(sock[c], s, bl, bd), Succeed(c), UNCHANGED <<call, n, calls>>,
           signals' \in Nat, s # "closed",
           call[c].op = "wto_bind" => /\ s \in {"connected", "again"} /\ (call[c].bnd => bd)
                                      /\ call[c].timeout <= 0 => bl,
           call[c].op = "non_blocking" => s \in {"pending", "connected", "refused"},
           call[c].op = "server" => bd /\ bl /\ s \in {"new", "listening"}
    PROVE  IInv'
<1>1. TypeOK /\ call[c] \in Calls /\ Local(c)
  BY DEF IInv, Local, AtWork
<1>2. sock[c] \in Fds /\ Using(c, sock[c]) /\ b_lists[c] \in Nat
  BY <1>1 DEF TypeOK, Local, AtBind, AtConnect, AtPoll, Using
<1>3. /\ conn' \in [Fds -> States]
      /\ blocking' \in [Fds -> BOOLEAN] /\ bound' \in [Fds -> BOOLEAN]
      /\ conn'[sock[c]] = s /\ blocking'[sock[c]] = bl /\ bound'[sock[c]] = bd
      /\ \A f \in Fds \ {sock[c]} : /\ conn'[f] = conn[f]
                                    /\ blocking'[f] = blocking[f]
                                    /\ bound'[f] = bound[f]
  BY <1>1, <1>2, BecomesEffect
<1>4. /\ LocalTypes' /\ Others(c)
      /\ pc'[c] = "idle" /\ sock'[c] = sock[c] /\ ~head'[c] /\ ai' = ai
      /\ b_lists'[c] = IF b_lists[c] = 0 THEN 0 ELSE b_lists[c] - 1
      /\ \A f \in Fds : handed'[f] = IF f = sock[c] THEN call[c] ELSE handed[f]
  BY <1>1, <1>2, ReturnEffect DEF Succeed
<1>5. TypeOK'
  BY <1>1, <1>3, <1>4 DEF TypeOK, LocalTypes
<1>6. Local(c)' /\ Leaves(c)'
  BY <1>1, <1>2, <1>4, SockAssumption
     DEF TypeOK, Local, AtBind, AtConnect, AtPoll, AtWork, Leaves
<1>7. Touches(c, {sock[c]})
  BY <1>2, <1>3, <1>4 DEF Touches, Using
<1>8. \A f \in {sock[c]} : AsAsked(f)'
  BY <1>1, <1>2, <1>3, <1>4, CallFacts DEF AsAsked
<1>9. \A f \in {sock[c]} : Open(f)' /\ ~Using(c, f)' /\ handed'[f] # NoCall
  BY <1>1, <1>2, <1>3, <1>4, CallFacts DEF Open, Using
<1> QED
  BY <1>2, <1>5, <1>6, <1>7, <1>8, <1>9, Frame

\* A step after which the caller still has the socket in hand.
LEMMA KeepStep ==
    ASSUME IInv, NEW c \in Callers, pc[c] \in {"bind", "connect", "poll"},
           NEW s \in States, NEW bd \in BOOLEAN,
           Becomes(sock[c], s, blocking[sock[c]], bd),
           NEW where \in {"connect", "poll"}, pc' = [pc EXCEPT ![c] = where],
           b_lists' \in [Callers -> Nat],
           \A d \in Callers \ {c} : b_lists'[d] = b_lists[d],
           UNCHANGED <<ai, sock, head, handed, call, n, calls>>,
           signals' \in Nat, Local(c)', s # "closed"
    PROVE  IInv'
<1>1. TypeOK /\ Local(c)
  BY DEF IInv
<1>2. sock[c] \in Fds /\ Using(c, sock[c]) /\ blocking[sock[c]] \in BOOLEAN
  BY <1>1 DEF TypeOK, Local, AtBind, AtConnect, AtPoll, Using
<1>3. /\ conn' \in [Fds -> States]
      /\ blocking' \in [Fds -> BOOLEAN] /\ bound' \in [Fds -> BOOLEAN]
      /\ conn'[sock[c]] = s
      /\ \A f \in Fds \ {sock[c]} : /\ conn'[f] = conn[f]
                                    /\ blocking'[f] = blocking[f]
                                    /\ bound'[f] = bound[f]
  BY <1>1, <1>2, BecomesEffect
<1>4. pc' \in [Callers -> PCs] /\ pc'[c] = where /\ \A d \in Callers \ {c} : pc'[d] = pc[d]
  BY <1>1 DEF TypeOK, PCs
<1>5. TypeOK'
  BY <1>1, <1>3, <1>4 DEF TypeOK
<1>6. Leaves(c)'
  BY <1>4 DEF Leaves
<1>7. Touches(c, {sock[c]})
  BY <1>2, <1>3, <1>4 DEF Touches, Others, Using
<1>8. handed'[sock[c]] = NoCall
  BY <1>2 DEF IInv, Descriptors, Owned
<1>9. \A f \in {sock[c]} : AsAsked(f)'
  BY <1>8, OtherCalls DEF AsAsked
<1>10. \A f \in {sock[c]} : Open(f)' /\ Using(c, f)' /\ handed'[f] = NoCall
  BY <1>2, <1>3, <1>4, <1>8 DEF Open, Using
<1> QED
  BY <1>2, <1>5, <1>6, <1>7, <1>9, <1>10, Frame

\* A step after which the call is over, as the address to bind to cannot be had.
LEMMA BindFailsStep ==
    ASSUME IInv, NEW c \in Callers, pc[c] = "bind", call[c].op = "wto_bind",
           Close(sock[c]), NEW b \in {b_lists[c], b_lists[c] + 1},
           Return(c, SOCK_ERROR, b), UNCHANGED <<ai, call, n, calls, signals>>
    PROVE  IInv'
<1>1. TypeOK /\ call[c] \in Calls /\ Local(c)
  BY DEF IInv, Local, AtWork
<1>2. sock[c] \in Fds /\ Using(c, sock[c]) /\ b \in Nat
  BY <1>1 DEF TypeOK, Local, AtBind, Using
<1>3. /\ conn' \in [Fds -> States]
      /\ blocking' \in [Fds -> BOOLEAN] /\ bound' \in [Fds -> BOOLEAN]
      /\ conn'[sock[c]] = "closed"
      /\ \A f \in Fds \ {sock[c]} : /\ conn'[f] = conn[f]
                                    /\ blocking'[f] = blocking[f]
                                    /\ bound'[f] = bound[f]
  BY <1>1, <1>2, BecomesEffect DEF Close, States
<1>4. /\ LocalTypes' /\ Others(c)
      /\ pc'[c] = "idle" /\ sock'[c] = SOCK_ERROR /\ ~head'[c]
      /\ b_lists'[c] = IF b = 0 THEN 0 ELSE b - 1
      /\ handed' = handed
  <2>1. handed' = handed
    BY DEF Return
  <2> QED
    BY <1>1, <1>2, <2>1, ReturnEffect
<1>5. TypeOK'
  BY <1>1, <1>3, <1>4 DEF TypeOK, LocalTypes
<1>6. Local(c)' /\ Leaves(c)'
  BY <1>1, <1>2, <1>4 DEF TypeOK, Local, AtBind, AtConnect, AtPoll, AtWork, Leaves
<1>7. Touches(c, {sock[c]})
  BY <1>2, <1>3, <1>4 DEF Touches, Using
<1>8. handed'[sock[c]] = NoCall
  BY <1>2, <1>4 DEF IInv, Descriptors, Owned
<1>9. \A f \in {sock[c]} : AsAsked(f)'
  BY <1>8, OtherCalls DEF AsAsked
<1>10. \A f \in {sock[c]} : ~Open(f)' /\ ~Using(c, f)' /\ handed'[f] = NoCall
  BY <1>3, <1>4, <1>8 DEF Open, Using
<1> QED
  BY <1>2, <1>5, <1>6, <1>7, <1>9, <1>10, Frame

\* socket() gives a closed descriptor, which nobody uses.
LEMMA SocketStep ==
    ASSUME IInv, NEW c \in Callers, Socket(c)
    PROVE  IInv'
<1>1. TypeOK /\ call[c] \in Calls /\ Local(c)
  BY DEF IInv, Local, AtWork, Socket
<1>2. CASE NextAddress(c) /\ UNCHANGED kern
  BY <1>1, <1>2, NextAddressStep DEF TypeOK, Socket
<1>3. ASSUME NEW fd \in Fds, ~Open(fd),
             Becomes(fd, "new", Blocking(call[c]), FALSE),
             sock' = [sock EXCEPT ![c] = fd],
             pc' = [pc EXCEPT ![c] = IF call[c].bnd \/ call[c].op = "server"
                                     THEN "bind" ELSE "connect"],
             UNCHANGED <<ai, head, b_lists, handed>>
      PROVE  IInv'
  <2>1. /\ conn' \in [Fds -> States]
        /\ blocking' \in [Fds -> BOOLEAN] /\ bound' \in [Fds -> BOOLEAN]
        /\ conn'[fd] = "new" /\ blocking'[fd] = Blocking(call[c])
        /\ \A f \in Fds \ {fd} : /\ conn'[f] = conn[f]
                                 /\ blocking'[f] = blocking[f]
                                 /\ bound'[f] = bound[f]
    <3>1. Blocking(call[c]) \in BOOLEAN /\ "new" \in States
      BY DEF Blocking, States
    <3> QED
      BY <1>1, <1>3, <3>1, BecomesEffect, ZenonT(40)
  <2>2. /\ sock' \in [Callers -> Fds \cup {SOCK_ERROR}] /\ sock'[c] = fd
        /\ pc' \in [Callers -> PCs]
        /\ \/ pc'[c] = "bind" /\ (call[c].bnd \/ call[c].op = "server")
           \/ pc'[c] = "connect" /\ ~call[c].bnd /\ call[c].op # "server"
        /\ \A d \in Callers \ {c} : sock'[d] = sock[d] /\ pc'[d] = pc[d]
    BY <1>1, <1>3 DEF TypeOK, PCs
  <2>3. TypeOK'
    BY <1>1, <1>3, <2>1, <2>2 DEF TypeOK, Socket
  <2>4. Local(c)' /\ Leaves(c)'
    <3>1. call'[c] = call[c] /\ ai'[c] = ai[c] /\ b_lists'[c] = b_lists[c] /\ pc[c] = "socket"
      BY <1>3 DEF Socket
    <3>2. AtBind(c)' /\ AtConnect(c)' /\ AtPoll(c)' /\ Leaves(c)'
      BY <1>1, <2>1, <2>2, <3>1, CallFacts DEF AtBind, AtConnect, AtPoll, Leaves, Blocking
    <3>3. AtWork(c)'
      BY <1>1, <2>2, <3>1 DEF TypeOK, Local, AtWork
    <3> QED
      BY <3>2, <3>3 DEF Local
  <2>5. Touches(c, {fd})
    BY <1>1, <1>3, <2>1, <2>2 DEF Touches, Others, Using, Socket
  <2>6. handed'[fd] = NoCall
    BY <1>3 DEF IInv, Descriptors, Owned
  <2>7. \A f \in {fd} : AsAsked(f)'
    BY <2>6, OtherCalls DEF AsAsked
  <2>8. \A f \in {fd} : Open(f)' /\ Using(c, f)' /\ handed'[f] = NoCall
    BY <2>1, <2>2, <2>6 DEF Open, Using
  <2> QED
    BY <2>3, <2>4, <2>5, <2>7, <2>8, Frame
<1> QED
  BY <1>2, <1>3 DEF Socket
\* Binding to the given address.
LEMMA BindToStep ==
    ASSUME IInv, NEW c \in Callers, BindTo(c)
    PROVE  IInv'
<1>1. TypeOK /\ Local(c) /\ pc[c] = "bind" /\ call[c].op = "wto_bind"
  BY DEF IInv, BindTo
<1>2. ASSUME Close(sock[c]), NEW got \in {0, 1}, Return(c, SOCK_ERROR, b_lists[c] + got)
      PROVE  IInv'
  <2>1. b_lists[c] + got \in {b_lists[c], b_lists[c] + 1}
    BY <1>1, <1>2 DEF TypeOK
  <2> QED
    BY <1>1, <1>2, <2>1, BindFailsStep DEF BindTo
<1>3. ASSUME Bound(c), b_lists' = [b_lists EXCEPT ![c] = @ + 1],
             pc' = [pc EXCEPT ![c] = "connect"], UNCHANGED <<sock, head, handed>>
      PROVE  IInv'
  <2>1. sock[c] \in Fds /\ conn[sock[c]] = "new" /\ conn[sock[c]] \in States
    BY <1>1 DEF TypeOK, Local, AtBind, States
  <2>2. /\ b_lists' \in [Callers -> Nat] /\ b_lists'[c] = b_lists[c] + 1
        /\ \A d \in Callers \ {c} : b_lists'[d] = b_lists[d]
        /\ pc'[c] = "connect"
    BY <1>1, <1>3 DEF TypeOK
  <2>3. conn'[sock[c]] = "new" /\ bound'[sock[c]] = TRUE
        /\ blocking'[sock[c]] = blocking[sock[c]]
    BY <1>1, <1>3, <2>1 DEF TypeOK, Bound, Becomes
  <2>4. Local(c)'
    <3>1. sock'[c] = sock[c] /\ call'[c] = call[c] /\ ai'[c] = ai[c]
          /\ blocking[sock[c]] = Blocking(call[c]) /\ call[c] \in Calls
      BY <1>1, <1>3 DEF Local, AtBind, AtWork, BindTo
    <3>2. AtBind(c)' /\ AtConnect(c)' /\ AtPoll(c)'
      BY <1>1, <2>1, <2>2, <2>3, <3>1 DEF AtBind, AtConnect, AtPoll, Blocking
    <3>3. call[c].bnd
      BY <1>1 DEF Local, AtBind
    <3>4. b_lists[c] + 1 <= ai[c]
      BY <1>1 DEF TypeOK, Local, AtWork
    <3> QED
      BY <2>2, <3>1, <3>2, <3>3, <3>4 DEF Local, AtWork
  <2> QED
    BY <1>1, <1>3, <2>1, <2>2, <2>4, KeepStep DEF TypeOK, Bound, BindTo
<1> QED
  BY <1>2, <1>3 DEF BindTo

\* Binding a server socket.
LEMMA BindServerStep ==
    ASSUME IInv, NEW c \in Callers, BindServer(c)
    PROVE  IInv'
<1>1. TypeOK /\ Local(c) /\ pc[c] = "bind" /\ call[c].op = "server"
      /\ UNCHANGED <<call, n, calls>> /\ signals' \in Nat
  BY DEF IInv, TypeOK, BindServer
<1>2. CASE Close(sock[c]) /\ NextAddress(c)
  BY <1>1, <1>2, NextAddressStep
<1>3. CASE Bound(c) /\ Succeed(c)
  <2>1. /\ conn[sock[c]] = "new" /\ "new" \in States /\ blocking[sock[c]] = TRUE
        /\ Becomes(sock[c], "new", TRUE, TRUE)
    BY <1>1, <1>3 DEF Local, AtBind, Bound, States, Blocking
  <2> QED
    BY <1>1, <1>3, <2>1, SucceedStep
<1> QED
  BY <1>2, <1>3 DEF BindServer

\* connect(): the socket is handed over, closed, or kept for poll().
LEMMA ConnectStep ==
    ASSUME IInv, NEW c \in Callers, Connect(c)
    PROVE  IInv'
<1>1. TypeOK /\ Local(c) /\ pc[c] = "connect" /\ UNCHANGED <<call, n, calls>>
  BY DEF IInv, Connect
<1>2. /\ sock[c] \in Fds /\ blocking[sock[c]] = Blocking(call[c])
      /\ blocking[sock[c]] \in BOOLEAN /\ bound[sock[c]] \in BOOLEAN
      /\ call[c].op \in {"wto_bind", "non_blocking"}
      /\ call[c].bnd => bound[sock[c]]
      /\ "connected" \in States /\ "pending" \in States /\ signals \in Nat
  BY <1>1 DEF TypeOK, Local, AtConnect, States
<1>3. CASE Conn(c, "connected") /\ Succeed(c) /\ signals' = signals
  <2>1. call[c].op = "wto_bind" /\ call[c].timeout <= 0 => blocking[sock[c]]
    BY <1>2 DEF Blocking
  <2> QED
    BY <1>1, <1>2, <1>3, <2>1, SucceedStep DEF Conn
<1>4. CASE Close(sock[c]) /\ NextAddress(c) /\ signals' = signals
  BY <1>1, <1>2, <1>4, NextAddressStep
<1>5. CASE /\ Conn(c, "pending")
           /\ IF blocking[sock[c]] THEN Interrupted ELSE signals' = signals
           /\ IF call[c].op = "wto_bind" THEN Goto(c, "poll") /\ ai' = ai ELSE Succeed(c)
  <2>1. signals' \in Nat
    BY <1>2, <1>5 DEF Interrupted
  <2>2. CASE call[c].op = "wto_bind"
    <3>1. Goto(c, "poll") /\ b_lists' \in [Callers -> Nat]
      BY <1>1, <1>5, <2>2 DEF TypeOK, Goto
    <3>2. /\ pc'[c] = "poll" /\ conn'[sock[c]] = "pending"
          /\ bound'[sock[c]] = bound[sock[c]]
          /\ blocking'[sock[c]] = blocking[sock[c]]
      BY <1>1, <1>2, <1>5, <3>1 DEF TypeOK, Goto, Conn, Becomes
    <3>3. Local(c)'
      BY <1>1, <1>2, <2>2, <3>1, <3>2
         DEF Goto, Local, AtBind, AtConnect, AtPoll, AtWork, Blocking
    <3> QED
      BY <1>1, <1>2, <1>5, <2>1, <3>1, <3>3, KeepStep DEF Conn, Goto
  <2>3. CASE call[c].op # "wto_bind"
    <3>1. Succeed(c) /\ call[c].op = "non_blocking"
      BY <1>2, <1>5, <2>3
    <3> QED
      BY <1>1, <1>2, <1>5, <2>1, <3>1, SucceedStep DEF Conn
  <2> QED
    BY <2>2, <2>3
<1>6. CASE /\ call[c].op = "wto_bind"
           /\ Conn(c, "again") /\ signals' = signals
           /\ Goto(c, "poll") /\ ai' = ai
  <2>1. b_lists' \in [Callers -> Nat] /\ "again" \in States
    BY <1>1, <1>6 DEF TypeOK, Goto, States
  <2>2. /\ pc'[c] = "poll" /\ conn'[sock[c]] = "again"
        /\ bound'[sock[c]] = bound[sock[c]]
        /\ blocking'[sock[c]] = blocking[sock[c]]
    BY <1>1, <1>2, <1>6 DEF TypeOK, Goto, Conn, Becomes
  <2>3. Local(c)'
    BY <1>1, <1>2, <1>6, <2>1, <2>2
       DEF Goto, Local, AtBind, AtConnect, AtPoll, AtWork, Blocking
  <2> QED
    BY <1>1, <1>2, <1>6, <2>1, <2>3, KeepStep DEF Conn, Goto
<1> QED
  BY <1>3, <1>4, <1>5, <1>6 DEF Connect

\* poll() and what follows it.
LEMMA ConnectedStep ==
    ASSUME IInv, NEW c \in Callers, sock_connected(c)
    PROVE  IInv'
<1>1. TypeOK /\ Local(c) /\ pc[c] = "poll" /\ UNCHANGED <<call, n, calls>>
  BY DEF IInv, sock_connected
<1>2. /\ sock[c] \in Fds /\ blocking[sock[c]] = Blocking(call[c])
      /\ blocking[sock[c]] \in BOOLEAN /\ bound[sock[c]] \in BOOLEAN
      /\ call[c].op = "wto_bind" /\ call[c] \in Calls
      /\ call[c].bnd => bound[sock[c]]
      /\ "connected" \in States /\ "pending" \in States /\ signals \in Nat
  BY <1>1 DEF TypeOK, Local, AtPoll, AtWork, States
<1>3. CASE Ready(c)
  <2>1. signals' \in Nat
    BY <1>2, <1>3 DEF Ready
  <2>2. CASE /\ conn[sock[c]] \in {"connected", "again"}
             /\ Becomes(sock[c], conn[sock[c]],
                        blocking[sock[c]] \/ call[c].timeout >= 0, bound[sock[c]])
             /\ Succeed(c)
    <3> DEFINE bl == blocking[sock[c]] \/ call[c].timeout >= 0
    <3>1. bl \in BOOLEAN /\ Becomes(sock[c], conn[sock[c]], bl, bound[sock[c]])
          /\ conn[sock[c]] \in {"connected", "again"} /\ conn[sock[c]] \in States
      BY <2>2 DEF States
    <3>2. call[c].timeout <= 0 => bl
      BY <1>2 DEF Blocking
    <3> HIDE DEF bl
    <3> QED
      BY <1>1, <1>2, <2>1, <2>2, <3>1, <3>2, SucceedStep
  <2>3. CASE Close(sock[c]) /\ NextAddress(c)
    BY <1>1, <2>1, <2>3, NextAddressStep
  <2> QED
    BY <1>3, <2>2, <2>3 DEF Ready
<1>4. CASE TimedOut(c)
  BY <1>1, <1>2, <1>4, NextAddressStep DEF TimedOut
<1>5. CASE /\ conn[sock[c]] = "pending" /\ Interrupted
           /\ Goto(c, "poll") /\ UNCHANGED kern /\ ai' = ai
  <2>1. signals' \in Nat
    BY <1>2, <1>5 DEF Interrupted
  <2>2. pc' = pc /\ UNCHANGED <<conn, blocking, bound, sock, head, b_lists, handed, ai>>
    BY <1>1, <1>5 DEF TypeOK, Goto, kern
  <2>3. TypeOK'
    BY <1>1, <2>1, <2>2 DEF TypeOK
  <2>4. Descriptors' /\ Handed' /\ NothingLeft'
    BY <1>1, <2>2 DEF IInv, Descriptors, Owned, Open, Using, Handed, AsAsked,
                      NothingLeft, Leaves
  <2>5. \A d \in Callers : Local(d)'
    BY <1>1, <2>2 DEF IInv, Local, AtBind, AtConnect, AtPoll, AtWork, Blocking
  <2> QED
    BY <2>3, <2>4, <2>5 DEF IInv
<1> QED
  BY <1>3, <1>4, <1>5 DEF sock_connected
-----------------------------------------------------------------------------
(* The network and the clients                                             *)

\* A step that changes the socket of descriptor fd, which no call has in hand, or
\* whose answer a call waits for.
LEMMA OutsideStep ==
    ASSUME IInv, NEW fd \in Fds, TypeOK',
           UNCHANGED <<pc, call, n, ai, sock, head, b_lists>>,
           \A f \in Fds \ {fd} : /\ conn'[f] = conn[f] /\ blocking'[f] = blocking[f]
                                 /\ bound'[f] = bound[f] /\ handed'[f] = handed[f],
           \/ \A c \in Callers : ~Using(c, fd)
           \/ /\ conn[fd] = "pending" /\ conn'[fd] \in {"connected", "refused"}
              /\ UNCHANGED <<blocking, bound, handed>>,
           Open(fd)' <=> handed'[fd] # NoCall \/ \E c \in Callers : Using(c, fd),
           AsAsked(fd)'
    PROVE  IInv'
<1>1. \A c \in Callers, f \in Fds : Using(c, f)' <=> Using(c, f)
  BY DEF Using
<1>2. Descriptors'
  <2> SUFFICES ASSUME NEW f \in Fds PROVE Owned(f)'
    BY DEF Descriptors
  <2>1. CASE f = fd
    BY <1>1, <2>1 DEF IInv, Descriptors, Owned
  <2>2. CASE f # fd
    BY <1>1, <2>2 DEF IInv, Descriptors, Owned, Open
  <2> QED
    BY <2>1, <2>2
<1>3. \A c \in Callers : Local(c)'
  <2> SUFFICES ASSUME NEW c \in Callers PROVE Local(c)'
    OBVIOUS
  <2>1. Local(c)
    BY DEF IInv
  <2>2. CASE pc[c] \in {"bind", "connect", "poll"} /\ sock[c] = fd
    <3>1. /\ conn[fd] = "pending" /\ conn'[fd] \in {"connected", "refused"}
          /\ UNCHANGED <<blocking, bound, handed>>
      BY <2>2 DEF Using
    <3> QED
      BY <2>1, <2>2, <3>1 DEF Local, AtBind, AtConnect, AtPoll, AtWork, Blocking
  <2>3. CASE pc[c] \in {"bind", "connect", "poll"} /\ sock[c] # fd
    <3>1. sock[c] \in Fds
      BY <2>1, <2>3 DEF Local, AtBind, AtConnect, AtPoll
    <3> QED
      BY <2>1, <2>3, <3>1 DEF Local, AtBind, AtConnect, AtPoll, AtWork, Blocking
  <2>4. CASE pc[c] \notin {"bind", "connect", "poll"}
    BY <2>1, <2>4 DEF Local, AtBind, AtConnect, AtPoll, AtWork
  <2> QED
    BY <2>2, <2>3, <2>4
<1>4. Handed' /\ NothingLeft'
  BY DEF IInv, Handed, AsAsked, NothingLeft, Leaves
<1> QED
  BY <1>2, <1>3, <1>4 DEF IInv

\* A connect is answered: for a call in poll(), or for a client.
LEMMA AnswerStep ==
    ASSUME IInv, NEW fd \in Fds, Answer(fd)
    PROVE  IInv'
<1>1. TypeOK'
  BY DEF IInv, TypeOK, Answer, States
<1>2. conn'[fd] \in {"connected", "refused"} /\ \A f \in Fds \ {fd} : conn'[f] = conn[f]
  BY DEF IInv, TypeOK, Answer
<1>3. handed[fd].op \notin {"wto_bind", "server"}
      /\ handed'[fd] = handed[fd] /\ blocking'[fd] = blocking[fd]
  BY DEF IInv, Handed, AsAsked, Answer
<1>4. AsAsked(fd) /\ Owned(fd) /\ Open(fd) /\ Open(fd)'
  BY <1>2 DEF IInv, Handed, Descriptors, Open, Answer
<1>5. AsAsked(fd)'
  BY <1>2, <1>3, <1>4 DEF AsAsked
<1>6. handed'[fd] # NoCall \/ \E c \in Callers : Using(c, fd)
  BY <1>3, <1>4 DEF Owned
<1> QED
  BY <1>1, <1>2, <1>4, <1>5, <1>6, OutsideStep DEF Answer

\* A descriptor that a client was given is in no call's hand.
LEMMA ClientsOwn ==
    ASSUME IInv, NEW fd \in Fds, handed[fd] # NoCall
    PROVE  Open(fd) /\ \A c \in Callers : ~Using(c, fd)
BY DEF IInv, Descriptors, Owned

\* sock_listen, on a descriptor that a client owns.
LEMMA ListenStep ==
    ASSUME IInv, NEW fd \in Fds, sock_listen(fd)
    PROVE  IInv'
<1>1. TypeOK' /\ conn'[fd] = "listening" /\ \A f \in Fds \ {fd} : conn'[f] = conn[f]
  BY DEF IInv, TypeOK, sock_listen, States
<1>2. handed[fd] # NoCall /\ AsAsked(fd) /\ UNCHANGED <<handed, blocking, bound>>
  BY OtherCalls DEF IInv, Handed, sock_listen
<1>3. \A c \in Callers : ~Using(c, fd)
  BY <1>2, ClientsOwn
<1>4. AsAsked(fd)' /\ Open(fd)' /\ handed'[fd] # NoCall
  BY <1>1, <1>2 DEF AsAsked, Open, sock_listen
<1> QED
  BY <1>1, <1>2, <1>3, <1>4, OutsideStep DEF sock_listen

\* sock_close, on a descriptor that a client owns.
LEMMA CloseStep ==
    ASSUME IInv, NEW fd \in Fds, sock_close(fd)
    PROVE  IInv'
<1>1. /\ conn' \in [Fds -> States]
      /\ blocking' \in [Fds -> BOOLEAN] /\ bound' \in [Fds -> BOOLEAN]
      /\ conn'[fd] = "closed"
      /\ \A f \in Fds \ {fd} : /\ conn'[f] = conn[f]
                               /\ blocking'[f] = blocking[f]
                               /\ bound'[f] = bound[f]
  BY BecomesEffect DEF IInv, sock_close, Close, States
<1>2. /\ handed' \in [Fds -> Calls \cup {Accepted, NoCall}] /\ handed'[fd] = NoCall
      /\ \A f \in Fds \ {fd} : handed'[f] = handed[f]
  BY DEF IInv, TypeOK, sock_close
<1>3. TypeOK'
  BY <1>1, <1>2 DEF IInv, TypeOK, sock_close
<1>4. \A c \in Callers : ~Using(c, fd)
  BY ClientsOwn DEF sock_close
<1>5. AsAsked(fd)' /\ ~Open(fd)'
  BY <1>1, <1>2, OtherCalls DEF AsAsked, Open
<1> QED
  BY <1>1, <1>2, <1>3, <1>4, <1>5, OutsideStep DEF sock_close

\* sock_accept: the new descriptor was nobody's.
LEMMA AcceptStep ==
    ASSUME IInv, NEW fd \in Fds, NEW new \in Fds, sock_accept(fd, new)
    PROVE  IInv'
<1>1. /\ conn' \in [Fds -> States]
      /\ blocking' \in [Fds -> BOOLEAN] /\ bound' \in [Fds -> BOOLEAN]
      /\ conn'[new] = "connected" /\ blocking'[new] = TRUE
      /\ \A f \in Fds \ {new} : /\ conn'[f] = conn[f]
                                /\ blocking'[f] = blocking[f]
                                /\ bound'[f] = bound[f]
  BY BecomesEffect DEF IInv, sock_accept, States
<1>2. /\ handed' \in [Fds -> Calls \cup {Accepted, NoCall}] /\ handed'[new] = Accepted
      /\ \A f \in Fds \ {new} : handed'[f] = handed[f]
  BY DEF IInv, TypeOK, sock_accept
<1>3. TypeOK'
  BY <1>1, <1>2 DEF IInv, TypeOK, sock_accept
<1>4. \A c \in Callers : ~Using(c, new)
  BY DEF IInv, Descriptors, Owned, sock_accept
<1>5. AsAsked(new)' /\ Open(new)' /\ handed'[new] # NoCall
  BY <1>1, <1>2, OtherCalls DEF AsAsked, Open
<1> QED
  BY <1>1, <1>2, <1>3, <1>4, <1>5, OutsideStep DEF sock_accept

-----------------------------------------------------------------------------
(* The theorems                                                            *)

\* Nothing is open at first.
LEMMA InitInv == Init => IInv
<1> SUFFICES ASSUME Init PROVE IInv
  OBVIOUS
<1>1. TypeOK
  BY SockAssumption DEF Init, TypeOK, PCs, States
<1>2. Descriptors /\ Handed
  BY OtherCalls DEF Init, Descriptors, Owned, Open, Using, Handed, AsAsked
<1>3. (\A c \in Callers : Local(c)) /\ NothingLeft
  BY DEF Init, Local, AtBind, AtConnect, AtPoll, AtWork, NothingLeft, Leaves
<1> QED
  BY <1>1, <1>2, <1>3 DEF IInv

\* Every step of every thread keeps the invariant.
LEMMA NextInv == IInv /\ [Next]_vars => IInv'
<1> SUFFICES ASSUME IInv, [Next]_vars PROVE IInv'
  OBVIOUS
<1>1. ASSUME NEW c \in Callers, Begin(c) PROVE IInv'
  BY <1>1, BeginStep
<1>2. ASSUME NEW c \in Callers, Step(c) PROVE IInv'
  BY <1>2, SocketStep, BindToStep, BindServerStep, ConnectStep, ConnectedStep DEF Step
<1>3. ASSUME NEW fd \in Fds, Answer(fd) \/ sock_listen(fd) \/ sock_close(fd) PROVE IInv'
  BY <1>3, AnswerStep, ListenStep, CloseStep
<1>4. ASSUME NEW fd \in Fds, NEW new \in Fds, sock_accept(fd, new) PROVE IInv'
  BY <1>4, AcceptStep
<1>5. CASE UNCHANGED vars
  <2>1. TypeOK' /\ Descriptors' /\ Handed' /\ NothingLeft'
    BY <1>5 DEF IInv, vars, TypeOK, Descriptors, Owned, Open, Using, Handed, AsAsked,
                NothingLeft, Leaves
  <2>2. \A c \in Callers : Local(c)'
    BY <1>5 DEF IInv, vars, Local, AtBind, AtConnect, AtPoll, AtWork, Blocking
  <2> QED
    BY <2>1, <2>2 DEF IInv
<1> QED
  BY <1>1, <1>2, <1>3, <1>4, <1>5 DEF Next, Idle

\* The inductive invariant.
THEOREM Invariance == Spec => []IInv
BY InitInv, NextInv, PTL DEF Spec

\* However many threads share the descriptors, and whichever calls fail: no call
\* of net/sock.c closes a socket twice, loses one, or touches another's.
THEOREM NoDescriptorLost == Spec => []Descriptors
<1>1. IInv => Descriptors
  BY DEF IInv
<1> QED
  BY <1>1, Invariance, PTL

\* What is returned is in the state that was asked for.
THEOREM HandedAsAsked == Spec => []Handed
<1>1. IInv => Handed
  BY DEF IInv
<1> QED
  BY <1>1, Invariance, PTL

\* A call that fails has tried every address, however many there are, and the
\* address lists are freed, but for those that b_head no longer points to.
THEOREM AllTriedAllFreed == Spec => []NothingLeft
<1>1. IInv => NothingLeft
  BY DEF IInv
<1> QED
  BY <1>1, Invariance, PTL
\* With a timeout below 0 only the OS ends the wait for a connect.
THEOREM WaitsForTheOS == Spec => Patient
<1> DEFINE Waits(c) == pc[c] = "poll" /\ call[c].timeout < 0 /\ conn[sock[c]] = "pending"
<1>1. ASSUME IInv, IInv', Next, NEW c \in Callers, Waits(c)
      PROVE  conn'[sock[c]] # "closed"
  <2>1. pc'[c] = "poll" /\ sock'[c] = sock[c]
    <3>1. ASSUME NEW d \in Callers, Begin(d) \/ Socket(d) \/ BindTo(d) \/ BindServer(d)
                                    \/ Connect(d)
          PROVE  pc'[c] = pc[c] /\ sock'[c] = sock[c]
      <4>1. d # c
        BY <1>1, <3>1 DEF Begin, Socket, BindTo, BindServer, Connect
      <4>2. CASE Begin(d)
        BY <1>1, <4>1, <4>2 DEF IInv, TypeOK, Begin
      <4>3. CASE Socket(d)
        BY <1>1, <4>1, <4>3, ZenonT(40) DEF IInv, TypeOK, Socket, NextAddress, Return
      <4>4. CASE BindTo(d) \/ BindServer(d) \/ Connect(d)
        BY <1>1, <4>1, <4>4 DEF IInv, TypeOK, BindTo, BindServer, Connect, NextAddress,
                                 Return, Succeed, Goto
      <4> QED
        BY <3>1, <4>2, <4>3, <4>4
    <3>2. ASSUME NEW d \in Callers \ {c}, sock_connected(d)
          PROVE  pc'[c] = pc[c] /\ sock'[c] = sock[c]
      BY <1>1, <3>2 DEF IInv, TypeOK, sock_connected, Ready, TimedOut, NextAddress, Return,
                        Succeed, Goto
    <3>3. ASSUME sock_connected(c)
          PROVE  pc'[c] = "poll" /\ sock'[c] = sock[c]
      <4>1. ~Ready(c) /\ ~TimedOut(c)
        BY <1>1, CallFacts DEF Ready, TimedOut, IInv, Local, AtWork
      <4> QED
        BY <1>1, <3>3, <4>1 DEF sock_connected, Goto, IInv, TypeOK
    <3>4. ASSUME NEW fd \in Fds, NEW new \in Fds,
                 Answer(fd) \/ sock_listen(fd) \/ sock_close(fd) \/ sock_accept(fd, new)
          PROVE  pc'[c] = pc[c] /\ sock'[c] = sock[c]
      BY <3>4 DEF Answer, sock_listen, sock_close, sock_accept
    <3> QED
      BY <1>1, <3>1, <3>2, <3>3, <3>4 DEF Next, Step, Idle, vars
  <2> QED
    BY <1>1, <2>1 DEF IInv, Local, AtPoll
<1>2. IInv /\ IInv' /\ [Next]_vars =>
        [\A c \in Callers : Waits(c) => conn'[sock[c]] # "closed"]_vars
  BY <1>1
<1> QED
  BY <1>2, Invariance, PTL DEF Spec, Patient
=============================================================================
