----------------------------- MODULE WebServer ------------------------------
(***************************************************************************)
(* The reactor of WebServer-master: the main thread accepts connections    *)
(* (Server.cpp) and hands each to a loop (EventLoop.cpp), which waits in   *)
(* epoll, edge-triggered (Epoll.cpp), serves its connections (HttpData.cpp)*)
(* and closes the late ones (Timer.cpp).                                   *)
(*                                                                         *)
(* There is one loop: loops share nothing but the descriptors, of which    *)
(* any may be free.  A step of a thread is one call of a handler, whose    *)
(* effects only the kernel and the clients see; they act between any two.  *)
(*                                                                         *)
(* What a client sends is a sequence of requests, "get" or "bad", each     *)
(* perhaps in pieces ("half" and then the rest).  Of a response only       *)
(* matters whether a part is unsent, and of time that any timer may run    *)
(* out; so keepAlive_, which only chooses the time, is left out.           *)
(***************************************************************************)
EXTENDS Naturals, Sequences, SequencesExt

CONSTANTS Conn,      \* connections
          NumFd,     \* descriptors the process may have
          MAXFDS,    \* Server.h
          NULL

ServerAssumption ==
  /\ NULL \notin Conn /\ "wakeup" \notin Conn
  /\ NumFd \in Nat /\ MAXFDS \in Nat
  /\ NULL \notin 1..NumFd /\ NULL \notin SUBSET {"IN", "OUT", "ONESHOT"}

VARIABLES
  (* the kernel and the clients *)
  phase,       \* of a connection: "new", "backlog", "open", "closed"
  fd,          \* its descriptor
  rx,          \* its socket: received and not read,
  fin,         \*   the client sends no more,
  rst,         \*   the client has reset it,
  room,        \*   the client takes something
  reg,         \* what epoll looks for: NULL if it is not registered, and
               \* {} if EPOLLONESHOT has disabled it
  ready,       \* what epoll_wait would report
  evt,         \* wakeupFd_ has something to read
  accepting,   \* epoll of the main loop would report listenFd_
  (* the main thread *)
  mpc, mconn,
  pendingFunctors_,
  (* the loop *)
  lpc, batch, functors,
  fd2chan_, fd2http_,
  (* HttpData *)
  inBuffer_,
  outBuffer_,  \* there is something in it
  connectionState_, lastEvents_,
  nodes,       \* how many timer nodes refer to it
  timer_,      \* its node, if it has one, is one of them
  due          \* whose time is over

kernel == <<rx, fin, rst, room, accepting>>
epoll == <<reg, ready, evt>>
accept == <<mpc, mconn, pendingFunctors_>>
loop == <<lpc, batch, functors>>
maps == <<fd2chan_, fd2http_>>
http == <<inBuffer_, outBuffer_, connectionState_, lastEvents_>>
timers == <<nodes, timer_, due>>
vars == <<phase, fd, kernel, epoll, accept, loop, maps, http, timers>>

Fd == 1..NumFd
Piece == {"get", "bad", "half"}

FreeFds == Fd \ {fd[c] : c \in {d \in Conn : phase[d] = "open"}}

Init ==
  /\ phase = [c \in Conn |-> "new"] /\ fd = [c \in Conn |-> NULL]
  /\ rx = [c \in Conn |-> <<>>] /\ fin = [c \in Conn |-> FALSE]
  /\ rst = [c \in Conn |-> FALSE] /\ room = [c \in Conn |-> TRUE]
  /\ reg = [c \in Conn |-> NULL] /\ ready = {} /\ evt = FALSE
  /\ accepting = FALSE
  /\ mpc = "poll" /\ mconn = NULL /\ pendingFunctors_ = <<>>
  /\ lpc = "poll" /\ batch = {} /\ functors = <<>>
  /\ fd2chan_ = [f \in Fd |-> NULL] /\ fd2http_ = [f \in Fd |-> NULL]
  /\ inBuffer_ = [c \in Conn |-> <<>>] /\ outBuffer_ = [c \in Conn |-> FALSE]
  /\ connectionState_ = [c \in Conn |-> "connected"]
  /\ lastEvents_ = [c \in Conn |-> {}]
  /\ nodes = [c \in Conn |-> 0] /\ timer_ = [c \in Conn |-> FALSE] /\ due = {}
-----------------------------------------------------------------------------
(* epoll: what there is to report for c when it looks for the events i.    *)
Found(c, i) ==
  IF i = {} THEN {}
  ELSE {e \in i : \/ e = "IN" /\ (rx[c] # <<>> \/ fin[c] \/ rst[c])
                  \/ e = "OUT" /\ (room[c] \/ rst[c])}
         \cup (IF rst[c] THEN {"ERR", "HUP"} ELSE {})

(* Something happens to c: an edge, if it is one of the events.            *)
Edge(c, event) ==
  ready' = IF reg[c] \notin {NULL, {}} /\ (event \in reg[c] \/ event = "HUP")
           THEN ready \cup {c} ELSE ready

(* The clients: connect, send, shut down or reset, and take what is sent.  *)
Connect(c) ==
  /\ phase[c] = "new"
  /\ phase' = [phase EXCEPT ![c] = "backlog"]
  /\ accepting' = TRUE
  /\ UNCHANGED <<fd, rx, fin, rst, room, epoll, accept, loop, maps, http, timers>>

Client(c) == phase[c] \in {"backlog", "open"} /\ ~rst[c]

Send(c, p) ==
  /\ Client(c) /\ ~fin[c]
  /\ rx' = [rx EXCEPT ![c] = Append(@, p)]
  /\ Edge(c, "IN")
  /\ UNCHANGED <<phase, fd, fin, rst, room, accepting, reg, evt, accept, loop, maps, http, timers>>

Shutdown(c) ==
  /\ Client(c) /\ ~fin[c]
  /\ fin' = [fin EXCEPT ![c] = TRUE]
  /\ Edge(c, "IN")
  /\ UNCHANGED <<phase, fd, rx, rst, room, accepting, reg, evt, accept, loop, maps, http, timers>>

Reset(c) ==
  /\ Client(c)
  /\ rst' = [rst EXCEPT ![c] = TRUE]
  /\ Edge(c, "HUP")
  /\ UNCHANGED <<phase, fd, rx, fin, room, accepting, reg, evt, accept, loop, maps, http, timers>>

Drain(c) ==
  /\ Client(c) /\ ~room[c]
  /\ room' = [room EXCEPT ![c] = TRUE]
  /\ Edge(c, "OUT")
  /\ UNCHANGED <<phase, fd, rx, fin, rst, accepting, reg, evt, accept, loop, maps, http, timers>>

(* Time passes.                                                            *)
RunOut(c) ==
  /\ nodes[c] > 0 /\ c \notin due
  /\ due' = due \cup {c}
  /\ UNCHANGED <<phase, fd, kernel, epoll, accept, loop, maps, http, nodes, timer_>>
-----------------------------------------------------------------------------
(* The shared_ptrs to an HttpData; the last one that goes closes fd_.      *)
Referenced(c) ==
  \/ c \in Range(fd2http_) \/ nodes[c] > 0 \/ mconn = c
  \/ c \in Range(pendingFunctors_) \/ c \in Range(functors)

Release ==
  phase' = [c \in Conn |-> IF phase[c] = "open" /\ ~Referenced(c)' THEN "closed" ELSE phase[c]]

(* Server::handNewConn, for one connection after the other,                *)
MainPoll ==
  /\ mpc = "poll" /\ accepting
  /\ mpc' = "accept" /\ accepting' = FALSE
  /\ UNCHANGED <<phase, fd, rx, fin, rst, room, epoll, mconn, pendingFunctors_, loop, maps, http, timers>>

Accept(c) ==
  /\ mpc = "accept" /\ phase[c] = "backlog"
  /\ \E f \in FreeFds :
       /\ \A g \in FreeFds : f <= g
       /\ f < MAXFDS
       /\ fd' = [fd EXCEPT ![c] = f]
  /\ phase' = [phase EXCEPT ![c] = "open"]
  /\ mconn' = c
  /\ pendingFunctors_' = Append(pendingFunctors_, c)
  /\ mpc' = "wake"
  /\ UNCHANGED <<kernel, epoll, loop, maps, http, timers>>

Refuse(c) ==
  /\ mpc = "accept" /\ phase[c] = "backlog"
  /\ FreeFds # {} /\ \A f \in FreeFds : f >= MAXFDS
  /\ phase' = [phase EXCEPT ![c] = "closed"]
  /\ UNCHANGED <<fd, kernel, epoll, accept, loop, maps, http, timers>>

(* until accept finds none, or no descriptor for it.                       *)
AcceptEnd ==
  /\ mpc = "accept"
  /\ (\A c \in Conn : phase[c] # "backlog") \/ FreeFds = {}
  /\ mpc' = "poll"
  /\ UNCHANGED <<phase, fd, kernel, epoll, mconn, pendingFunctors_, loop, maps, http, timers>>

(* queueInLoop has added the functor and wakes the loop, which may have    *)
(* called it already.                                                      *)
Wakeup ==
  /\ mpc = "wake"
  /\ evt' = TRUE /\ ready' = ready \cup {"wakeup"}
  /\ mpc' = "accept" /\ mconn' = NULL
  /\ UNCHANGED <<fd, kernel, reg, pendingFunctors_, loop, maps, http, timers>>
  /\ Release
-----------------------------------------------------------------------------
(* Epoll::poll: what is ready, with the channel of each descriptor; the    *)
(* loop goes on waiting, and looks at no timer, until there is one.        *)
Reported == {c \in Conn : c \in ready /\ Found(c, reg[c]) # {}}

Poll ==
  /\ lpc = "poll" /\ ready # {}
  /\ batch' = {[chan |-> fd2chan_[fd[c]], rev |-> Found(c, reg[c])] :
                 c \in {d \in Reported : fd2chan_[fd[d]] # NULL}}
               \cup {[chan |-> w, rev |-> {"IN"}] : w \in {v \in ready : v = "wakeup" /\ evt}}
  /\ reg' = [c \in Conn |-> IF c \in Reported /\ "ONESHOT" \in reg[c] THEN {} ELSE reg[c]]
  /\ ready' = {}
  /\ lpc' = IF batch' = {} THEN "poll" ELSE "events"
  /\ UNCHANGED <<phase, fd, kernel, evt, accept, functors, maps, http, timers>>

(* The channel of wakeupFd_: handleRead, and an updatePoller without need. *)
HandleWakeup ==
  /\ lpc = "events"
  /\ \E e \in batch : e.chan = "wakeup" /\ batch' = batch \ {e}
  /\ evt' = FALSE
  /\ UNCHANGED <<phase, fd, kernel, reg, ready, accept, lpc, functors, maps, http, timers>>

(* Channel::handleEvents of a connection: nothing at all after a reset,    *)
HandleHup(c) ==
  /\ lpc = "events"
  /\ \E e \in batch : e.chan = c /\ "HUP" \in e.rev /\ batch' = batch \ {e}
  /\ UNCHANGED <<phase, fd, kernel, epoll, accept, lpc, functors, maps, http, timers>>

(* and otherwise handleRead or handleWrite and handleConn.  The pieces of  *)
(* a request end with the first that is no half of one.                    *)
EndOf(q) == SelectInSeq(q, LAMBDA p : p \notin {"half", "cut"})

First(q) == IF q[1] = "cut" THEN "bad" ELSE q[EndOf(q)]

(* What follows a request has lost its first character: H_END_LF counts    *)
(* one more.                                                               *)
Rest(q) ==
  [i \in 1..(Len(q) - EndOf(q)) |->
     LET p == q[EndOf(q) + i]
     IN IF i > 1 THEN p ELSE IF p = "half" THEN "cut" ELSE "bad"]

(* What a handler leaves: the fields of HttpData and events_.              *)
Left(in, out, conn, error, events) ==
  [in |-> in, out |-> out, conn |-> conn, error |-> error, events |-> events]

Failed == Left(<<>>, FALSE, "connected", TRUE, {})

(* parseURI, parseHeaders and analysisRequest of what is in the buffer, q, *)
(* and of what is behind the first request.                                *)
Serve(q, out, conn) ==
  IF EndOf(q) = 0 THEN Left(q, out, conn, FALSE, {"IN"})
  ELSE IF First(q) = "bad" THEN Failed
  ELSE IF Len(q) = EndOf(q) \/ conn = "disconnecting" THEN Left(Rest(q), TRUE, conn, FALSE, {})
  ELSE IF EndOf(Rest(q)) = 0 THEN Left(Rest(q), TRUE, conn, FALSE, {"IN"})
  ELSE Failed

AfterRead(c) ==
  IF connectionState_[c] = "disconnecting"
    THEN Left(<<>>, outBuffer_[c], "disconnecting", FALSE, {"IN"})
  ELSE IF rst[c] THEN Failed
  ELSE IF fin[c] /\ rx[c] = <<>>
    THEN Left(inBuffer_[c], outBuffer_[c], "disconnecting", FALSE, {"IN"})
  ELSE Serve(inBuffer_[c] \o rx[c], outBuffer_[c],
             IF fin[c] THEN "disconnecting" ELSE connectionState_[c])

(* handleWrite; all tells whether the socket takes everything.             *)
AfterWrite(c, r, all) ==
  IF r.error \/ ~r.out THEN r
  ELSE IF rst[c] THEN Failed
  ELSE Left(r.in, ~all, r.conn, FALSE, IF all THEN r.events ELSE r.events \cup {"OUT"})

Result(c, rev, all) ==
  AfterWrite(c, IF "IN" \in rev THEN AfterRead(c)
                ELSE Left(inBuffer_[c], outBuffer_[c], connectionState_[c], FALSE, {}), all)

(* A handler of c that leaves r.                                           *)
Handler(c, r) ==
  /\ lpc = "events"
  /\ \E e \in batch, all \in BOOLEAN :
       /\ e.chan = c /\ "HUP" \notin e.rev
       /\ all => room[c]
       /\ r = Result(c, e.rev, all)
       /\ batch' = batch \ {e}
       /\ rx' = [rx EXCEPT ![c] = IF "IN" \in e.rev THEN <<>> ELSE @]
       /\ room' = [room EXCEPT ![c] = @ /\ "OUT" \notin r.events]
  /\ inBuffer_' = [inBuffer_ EXCEPT ![c] = r.in]
  /\ outBuffer_' = [outBuffer_ EXCEPT ![c] = r.out]
  /\ UNCHANGED <<fd, fin, rst, accepting, evt, accept, lpc, functors>>

Results(c) == {Result(c, e.rev, all) : e \in {d \in batch : d.chan = c}, all \in BOOLEAN}

(* seperateTimer: the node refers to nothing any more.                     *)
Separated(c) == IF timer_[c] THEN nodes[c] - 1 ELSE nodes[c]

(* The connection gets a new timer, or none.                               *)
Timer(c, new) ==
  /\ nodes' = [nodes EXCEPT ![c] = Separated(c) + (IF new THEN 1 ELSE 0)]
  /\ timer_' = [timer_ EXCEPT ![c] = new]
  /\ due' = IF timer_[c] THEN due \ {c} ELSE due

(* handleConn: the connection stays, with the events it waits for;         *)
Wanted(events) == IF "OUT" \in events THEN {"OUT"} ELSE {"IN"}

Stay(c) ==
  \E r \in Results(c) :
    /\ ~r.error /\ r.conn = "connected"
    /\ Handler(c, r)
    /\ Timer(c, TRUE)
    /\ connectionState_' = [connectionState_ EXCEPT ![c] = r.conn]
    /\ lastEvents_' = [lastEvents_ EXCEPT ![c] = Wanted(r.events)]
    /\ IF lastEvents_[c] = Wanted(r.events) THEN UNCHANGED <<reg, ready>>
       ELSE /\ reg' = [reg EXCEPT ![c] = Wanted(r.events)]
            /\ ready' = IF Found(c, Wanted(r.events))' = {} THEN ready ELSE ready \cup {c}
    /\ UNCHANGED <<phase, maps>>

(* the client has shut down, and the response is not sent yet: no poller   *)
(* is told;                                                                *)
Unsent(r) == r.conn = "disconnecting" /\ "OUT" \in r.events

Linger(c) ==
  \E r \in Results(c) :
    /\ ~r.error /\ Unsent(r)
    /\ Handler(c, r)
    /\ Timer(c, FALSE)
    /\ connectionState_' = [connectionState_ EXCEPT ![c] = r.conn]
    /\ UNCHANGED <<phase, reg, ready, maps, lastEvents_>>

(* or handleClose.                                                         *)
Unmapped(m, closing) == [f \in Fd |-> IF f \in {fd[c] : c \in closing} THEN NULL ELSE m[f]]

RemoveFromPoller(closing) ==
  /\ fd2chan_' = Unmapped(fd2chan_, closing)
  /\ fd2http_' = Unmapped(fd2http_, closing)
  /\ reg' = [c \in Conn |-> IF c \in closing THEN NULL ELSE reg[c]]
  /\ ready' = ready \ closing
  /\ connectionState_' = [c \in Conn |-> IF c \in closing THEN "disconnected" ELSE connectionState_[c]]

Close(c) ==
  \E r \in Results(c) :
    /\ r.error \/ (r.conn # "connected" /\ ~Unsent(r))
    /\ Handler(c, r)
    /\ Timer(c, FALSE)
    /\ RemoveFromPoller({c})
    /\ UNCHANGED lastEvents_
    /\ Release
-----------------------------------------------------------------------------
(* doPendingFunctors, which calls newEvent of each new connection,         *)
Swap ==
  /\ lpc = "events" /\ batch = {}
  /\ functors' = pendingFunctors_ /\ pendingFunctors_' = <<>>
  /\ lpc' = "calling"
  /\ UNCHANGED <<phase, fd, kernel, epoll, mpc, mconn, batch, maps, http, timers>>

NewEvent(c) ==
  /\ lpc = "calling" /\ functors # <<>> /\ c = Head(functors)
  /\ functors' = Tail(functors)
  /\ nodes' = [nodes EXCEPT ![c] = @ + 1] /\ timer_' = [timer_ EXCEPT ![c] = TRUE]
  /\ fd2http_' = [fd2http_ EXCEPT ![fd[c]] = c]
  /\ fd2chan_' = [fd2chan_ EXCEPT ![fd[c]] = c]
  /\ lastEvents_' = [lastEvents_ EXCEPT ![c] = {"IN", "ONESHOT"}]
  /\ reg' = [reg EXCEPT ![c] = {"IN", "ONESHOT"}]
  /\ ready' = IF Found(c, {"IN", "ONESHOT"}) = {} THEN ready ELSE ready \cup {c}
  /\ UNCHANGED <<phase, fd, kernel, evt, accept, lpc, batch, due,
                 inBuffer_, outBuffer_, connectionState_>>

(* and handleExpired: a node that is popped closes its connection.         *)
HandleExpired ==
  /\ lpc = "calling" /\ functors = <<>>
  /\ nodes' = [c \in Conn |-> IF c \in due THEN nodes[c] - 1 ELSE nodes[c]]
  /\ timer_' = [c \in Conn |-> timer_[c] /\ c \notin due]
  /\ due' = {}
  /\ RemoveFromPoller(due)
  /\ lpc' = "poll"
  /\ UNCHANGED <<fd, kernel, evt, accept, batch, functors, inBuffer_, outBuffer_, lastEvents_>>
  /\ Release

Main == MainPoll \/ AcceptEnd \/ Wakeup \/ \E c \in Conn : Accept(c) \/ Refuse(c)

Loop ==
  \/ Poll \/ HandleWakeup \/ Swap \/ HandleExpired
  \/ \E c \in Conn : HandleHup(c) \/ Stay(c) \/ Linger(c) \/ Close(c) \/ NewEvent(c)

Clients ==
  \E c \in Conn :
    \/ Connect(c) \/ Shutdown(c) \/ Reset(c) \/ Drain(c) \/ RunOut(c)
    \/ \E p \in Piece : Send(c, p)

Next == Main \/ Loop \/ Clients

Spec == Init /\ [][Next]_vars
-----------------------------------------------------------------------------
(* Everything has its type.                                                *)
Events == SUBSET {"IN", "OUT", "ONESHOT"}

TypeOK ==
  /\ phase \in [Conn -> {"new", "backlog", "open", "closed"}]
  /\ fd \in [Conn -> Fd \cup {NULL}]
  /\ fin \in [Conn -> BOOLEAN] /\ rst \in [Conn -> BOOLEAN] /\ room \in [Conn -> BOOLEAN]
  /\ DOMAIN rx = Conn /\ DOMAIN inBuffer_ = Conn
  /\ reg \in [Conn -> Events \cup {NULL}] /\ lastEvents_ \in [Conn -> Events]
  /\ ready \subseteq Conn \cup {"wakeup"}
  /\ mpc \in {"poll", "accept", "wake"} /\ mconn \in Conn \cup {NULL}
  /\ pendingFunctors_ \in Seq(Conn) /\ functors \in Seq(Conn)
  /\ lpc \in {"poll", "events", "calling"}
  /\ \A e \in batch : e.chan \in Conn \cup {"wakeup"}
  /\ fd2chan_ \in [Fd -> Conn \cup {NULL}] /\ fd2http_ \in [Fd -> Conn \cup {NULL}]
  /\ outBuffer_ \in [Conn -> BOOLEAN]
  /\ connectionState_ \in [Conn -> {"connected", "disconnecting", "disconnected"}]
  /\ nodes \in [Conn -> Nat] /\ timer_ \in [Conn -> BOOLEAN] /\ due \subseteq Conn

(* A descriptor leads to the connection that has it, and to its HttpData,  *)
(* as long as epoll may report it, however often the number is used again; *)
(* and what epoll has reported is still there when it is handled.          *)
FdsExact ==
  /\ fd2chan_ = fd2http_
  /\ \A c \in Conn :
       /\ reg[c] # NULL <=> (phase[c] = "open" /\ fd2http_[fd[c]] = c)
       /\ c \in ready => reg[c] # NULL
  /\ \A f \in Fd : fd2http_[f] # NULL => fd[fd2http_[f]] = f
  /\ \A e \in batch : e.chan # "wakeup" => reg[e.chan] # NULL

(* A loop that is about to wait has been woken for each connection handed  *)
(* to it, or will be: the main thread adds and then wakes, the loop reads  *)
(* the wake-up and then takes.                                             *)
NoLostWakeup ==
  lpc = "poll" /\ pendingFunctors_ # <<>> => mpc = "wake" \/ ("wakeup" \in ready /\ evt)

(* When the loop waits, no connection that the client keeps has something  *)
(* to report that epoll will not report: each handler has read or written  *)
(* until the socket had no more, or asks for the other.                    *)
EdgeKept ==
  lpc = "poll" =>
    \A c \in Conn :
      reg[c] # NULL /\ ~rst[c] /\ connectionState_[c] = "connected" =>
        /\ reg[c] # {}
        /\ Found(c, reg[c]) # {} => c \in ready
        /\ outBuffer_[c] => "OUT" \in reg[c]

(* A connection whose client has shut down, with a response unsent.        *)
Lingering(c) == connectionState_[c] = "disconnecting" /\ outBuffer_[c]

(* When the loop waits, each open connection is with it, with one timer    *)
(* that will close it, or is on the way to it; only those that linger have *)
(* no timer.                                                               *)
NoLeak ==
  lpc = "poll" =>
    \A c \in Conn :
      phase[c] = "open" /\ c \notin Range(pendingFunctors_) /\ mconn # c =>
        /\ fd2http_[fd[c]] = c
        /\ nodes[c] = 1 \/ (nodes[c] = 0 /\ Lingering(c))
=============================================================================
