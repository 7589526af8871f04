------------------------------ MODULE WsServer ------------------------------
(***************************************************************************)
(* The threads of ws.c: ws_accept (), which gives slots of client_socks [] *)
(* to connections; one ws_establishconnection () per connection; the       *)
(* close_timeout () threads; and threads of the application that call      *)
(* ws_close_client (), ws_ping () and ws_sendframe (), to one client or to *)
(* all of them.                                                            *)
(*                                                                         *)
(* The n-th connection is n, and so is its client_id (get_next_cid ()).    *)
(* Its descriptor is a number that may have been another's before, and may *)
(* be another's as soon as it is closed.  A thread reads client_sock from  *)
(* its slot, and calls recv (), send () or close () with what it read: the *)
(* two are apart.  A send () reaches the connection behind the descriptor, *)
(* or fails (no such descriptor, a reset, SO_SNDTIMEO), or blocks: without *)
(* timeout_ms there is no end to that.                                     *)
(*                                                                         *)
(* The locks mtx_state, mtx_snd and cid_mutex are never held while another *)
(* one is taken: what they guard is one step.  'mutex' and mtx_ping nest   *)
(* and are modelled.  A destroyed lock, as in the C library of the build,  *)
(* is taken and released without effect.                                   *)
(***************************************************************************)
EXTENDS WsFrames

CONSTANTS Slots,       \* 0 .. MAX_CLIENTS - 1
          Conns,       \* 1 .. n: the connections accepted, a bound
          Descriptors, \* the numbers that accept () may return
          Users,       \* threads of the application
          Threshold,   \* unanswered PINGs that ws_ping () tolerates
          Scenarios    \* what may come: [conns, frames, kinds, calls, names, timeout]

CallNames == {"close", "ping", "send", "broadcast"}

\* timeout: whether timeout_ms is more than 0
Scenario == [conns : Nat, frames : Nat, calls : Nat, kinds : SUBSET Frames, names : SUBSET CallNames,
             timeout : BOOLEAN]

ASSUME WsServerAssumption ==
    /\ Slots \subseteq Nat /\ Slots # {}
    /\ Conns \subseteq Nat \ {0}
    /\ Descriptors \subseteq Nat
    /\ Scenarios \subseteq Scenario

None == 0     \* no connection: a client_id of -1
NoSlot == -1
NoSock == -1  \* client_sock of -1
Nobody == <<>>
Destroyed == <<"destroyed">>
NoFrame == [op |-> "none", fin |-> FALSE, rsv |-> FALSE, size |-> 0, body |-> 0]

Threads == ({"conn", "timer"} \X Conns) \union ({"user"} \X Users)

VARIABLES
    left,       \* the scenario: what may still come
    slot,       \* client_socks []
    fd,         \* the connection behind a descriptor, None when it is not open
    fresh,      \* what accept () returned last, until it has a slot: [conn, sock]
    mutex,      \* the thread that holds it, or Nobody
    pc, on,     \* where each thread is, and the slot it works on
    held,       \* the client_sock a thread read, for the call it makes next
    wfd, ctrl,  \* of each connection's thread: the message it assembles, the
                \* control frame it handles,
    source,     \* and the connection its buffer was filled from last
    joining,    \* the timer each connection's thread waits for
    call,       \* what each application thread does: [name, id]
    seen        \* what the client and the application saw of a connection

vars == <<left, slot, fd, fresh, mutex, pc, on, held, wfd, ctrl, source, joining, call, seen>>

Unused == [sock |-> NoSock, id |-> None, state |-> "none", close_thrd |-> FALSE, timer |-> None,
           last_pong |-> -1, ping |-> -1, lock |-> Nobody]

Idle == [name |-> "none", id |-> None]

NothingFresh == [conn |-> None, sock |-> NoSock]

NothingSeen == [got |-> <<>>, messages |-> <<>>, pongs |-> <<>>, closes |-> <<>>, lost |-> FALSE,
                told |-> {}, calls |-> 0, crossed |-> FALSE, opened |-> FALSE, onclose |-> 0]

(* ws_socket (): no slot is used *)
Init ==
    /\ left \in Scenarios
    /\ slot = [s \in Slots |-> Unused]
    /\ fd = [d \in Descriptors |-> None]
    /\ fresh = NothingFresh
    /\ mutex = Nobody
    /\ pc = [t \in Threads |-> "none"]
    /\ on = [t \in Threads |-> NoSlot]
    /\ held = [t \in Threads |-> NoSock]
    /\ wfd = [c \in Conns |-> Fresh]
    /\ ctrl = [c \in Conns |-> NoFrame]
    /\ source = [c \in Conns |-> None]
    /\ joining = [c \in Conns |-> None]
    /\ call = [u \in Users |-> Idle]
    /\ seen = [c \in Conns |-> NothingSeen]

(* on to a step, that takes no descriptor *)
Goto(t, step) ==
    /\ pc' = [pc EXCEPT ![t] = step]
    /\ held' = [held EXCEPT ![t] = NoSock]

(* on to a step that makes a call with the client_sock of slot s *)
GotoWith(t, step, s) ==
    /\ pc' = [pc EXCEPT ![t] = step]
    /\ held' = [held EXCEPT ![t] = slot[s].sock]

(* CLIENT_VALID () of a slot *)
Valid(s) == slot[s].sock # NoSock

(* get_client_state (): "none" when it is not valid *)
State(s) == IF Valid(s) THEN slot[s].state ELSE "none"

(* get_client_by_cid () *)
Holding(id) == {s \in Slots : slot[s].id = id}
SlotOf(id) == IF id = None \/ Holding(id) = {} THEN NoSlot
              ELSE CHOOSE s \in Holding(id) : \A r \in Holding(id) : s <= r

At(c, step) == pc[<<"conn", c>>] = step
Here(c) == on[<<"conn", c>>]

Receiving == {"handshake", "read"}
Sending == {"respond", "pong", "replying", "saybye", "send", "pinging"}

(* client_sock is read when the step comes up, or later, when it is another *)
Fetch(t) ==
    /\ pc[t] \in Receiving \union Sending \union {"shut"}
    /\ held[t] # slot[on[t]].sock
    /\ held' = [held EXCEPT ![t] = slot[on[t]].sock]
    /\ UNCHANGED <<left, slot, fd, fresh, mutex, pc, on, wfd, ctrl, source, joining, call, seen>>

(* who is at the other end of what thread t is about to call, if anybody *)
Peer(t) == IF held[t] = NoSock THEN None ELSE fd[held[t]]

(* a send () that need not come back *)
Stalls(t) == pc[t] \in Sending /\ Peer(t) # None /\ ~left.timeout

(***************************************************************************)
(* ws_accept (): a descriptor for the connection, then the first free slot *)
(***************************************************************************)
Busy(t) == pc[t] \notin {"none", "gone"}

FreeSlots == {s \in Slots : slot[s].sock = NoSock}

(* connections are numbered as they come, up to the last of Conns *)
NextConns == {c \in Conns : At(c, "none")}

(* threads that may still call with descriptor d, and those in a slot *)
Uses(d) == {t \in Threads : held[t] = d \/ (on[t] # NoSlot /\ slot[on[t]].sock = d)}
WorksOn(s) == {t \in Threads : on[t] = s /\ Busy(t)}

(* connection c gets what threads of others still have at hand *)
Crossing(c, threads) ==
    [n \in Conns |-> [seen[n] EXCEPT !.crossed =
        @ \/ <<"conn", n>> \in threads \/ (n = c /\ threads # {})]]

Accept ==
    /\ left.conns > 0 /\ NextConns # {} /\ fresh = NothingFresh
    /\ left' = [left EXCEPT !.conns = @ - 1]
    /\ \E d \in Descriptors :
          LET c == CHOOSE n \in NextConns : \A m \in NextConns : n <= m
          IN  /\ fd[d] = None
              /\ fd' = [fd EXCEPT ![d] = c]
              /\ fresh' = [conn |-> c, sock |-> d]
              /\ seen' = Crossing(c, Uses(d))
    /\ UNCHANGED <<slot, mutex, pc, on, held, wfd, ctrl, source, joining, call>>

(* without a free slot the socket is closed *)
Assign ==
    /\ fresh # NothingFresh
    /\ mutex = Nobody
    /\ fresh' = NothingFresh
    /\ LET c == fresh.conn
           t == <<"conn", c>>
           s == CHOOSE r \in FreeSlots : \A q \in FreeSlots : r <= q
       IN  IF FreeSlots = {}
           THEN /\ fd' = [fd EXCEPT ![fresh.sock] = None]
                /\ Goto(t, "gone")
                /\ UNCHANGED <<slot, on, seen>>
           ELSE /\ slot' = [slot EXCEPT ![s] = [Unused EXCEPT !.sock = fresh.sock, !.id = c,
                                                  !.state = "connecting", !.timer = slot[s].timer]]
                /\ pc' = [pc EXCEPT ![t] = "handshake"]
                /\ held' = [held EXCEPT ![t] = fresh.sock]
                /\ on' = [on EXCEPT ![t] = s]
                /\ seen' = Crossing(c, WorksOn(s))
                /\ UNCHANGED fd
    /\ UNCHANGED <<left, mutex, wfd, ctrl, source, joining, call>>

(***************************************************************************)
(* close_client (): three steps of the thread that calls it.  It goes on   *)
(* at 'after'.                                                             *)
(***************************************************************************)
(* a thread in ws_ping () or ws_sendframe_bcast () of all clients *)
Broadcasts(t) ==
    t[1] = "user" /\ call[t[2]].name \in {"ping", "broadcast"} /\ call[t[2]].id = None

(* a thread that is closing leaves for this step *)
After(t) == IF t[1] = "user" THEN "unlock" ELSE "gone"

(* not valid: nothing to do; else the state is set *)
CloseBegin(t, s) ==
    IF Valid(s) THEN slot' = [slot EXCEPT ![s].state = "closed"] /\ GotoWith(t, "shut", s)
                ELSE UNCHANGED slot /\ Goto(t, After(t))

(* shutdown () and close (): the number is free again *)
CloseSocket(t) ==
    /\ pc[t] = "shut"
    /\ fd' = IF held[t] = NoSock THEN fd ELSE [fd EXCEPT ![held[t]] = None]
    /\ Goto(t, "clear")
    /\ UNCHANGED <<left, slot, fresh, mutex, on, wfd, ctrl, source, joining, call, seen>>

\* Faulty variant for a mutation run: the mutex is taken in any case.
TakesMutex_Always(t) == TRUE

(* 'lock' of close_client (): a broadcast PING holds the mutex already *)
TakesMutex(t) == ~Broadcasts(t)

CloseClear(t) ==
    /\ pc[t] = "clear"
    /\ TakesMutex(t) => mutex = Nobody
    /\ mutex' = t
    /\ slot' = [slot EXCEPT ![on[t]].sock = NoSock]
    /\ Goto(t, "destroy")
    /\ UNCHANGED <<left, fd, fresh, on, wfd, ctrl, source, joining, call, seen>>

(* A condition is destroyed once nobody waits on it, a lock unless it is    *)
(* held.  Broadcasting, the thread keeps the mutex.                         *)
CloseDestroy(t) ==
    /\ pc[t] = "destroy"
    /\ \A c \in Conns : ~(pc[<<"timer", c>>] = "wait" /\ on[<<"timer", c>>] = on[t])
    /\ slot' = [slot EXCEPT ![on[t]].lock = IF @ = Nobody THEN Destroyed ELSE @]
    /\ mutex' = IF TakesMutex(t) THEN Nobody ELSE mutex
    /\ Goto(t, After(t))
    /\ UNCHANGED <<left, fd, fresh, on, wfd, ctrl, source, joining, call, seen>>

CloseClient(t) == CloseSocket(t) \/ CloseClear(t) \/ CloseDestroy(t)

(***************************************************************************)
(* ws_establishconnection (), the thread of connection c                   *)
(***************************************************************************)
(* do_handshake (): the request *)
Request(c) ==
    /\ At(c, "handshake")
    /\ Peer(<<"conn", c>>) # None
    /\ source' = [source EXCEPT ![c] = Peer(<<"conn", c>>)]
    /\ GotoWith(<<"conn", c>>, "respond", Here(c))
    /\ UNCHANGED <<left, slot, fd, fresh, mutex, on, wfd, ctrl, joining, call, seen>>

(* a request that is none, or a socket that is no more: no event *)
HandshakeFails(c) ==
    /\ At(c, "handshake")
    /\ Goto(<<"conn", c>>, "closed")
    /\ UNCHANGED <<left, slot, fd, fresh, mutex, on, wfd, ctrl, source, joining, call, seen>>

(* the response: when it cannot be sent, no event *)
Respond(c) ==
    /\ At(c, "respond")
    /\ \/ Peer(<<"conn", c>>) # None /\ Goto(<<"conn", c>>, "open")
       \/ Goto(<<"conn", c>>, "closed")
    /\ UNCHANGED <<left, slot, fd, fresh, mutex, on, wfd, ctrl, source, joining, call, seen>>

(* set_client_state () and onopen () *)
Open(c) ==
    /\ At(c, "open")
    /\ slot' = IF Valid(Here(c)) THEN [slot EXCEPT ![Here(c)].state = "open"] ELSE slot
    /\ seen' = [seen EXCEPT ![slot[Here(c)].id].opened = TRUE]
    /\ GotoWith(<<"conn", c>>, "read", Here(c))
    /\ UNCHANGED <<left, fd, fresh, mutex, on, wfd, ctrl, source, joining, call>>

(* recv () fails or has nothing more *)
ReadEnds(c) ==
    /\ At(c, "read")
    /\ Goto(<<"conn", c>>, "onclose")
    /\ UNCHANGED <<left, slot, fd, fresh, mutex, on, wfd, ctrl, source, joining, call, seen>>

(* where a frame that is read is handled *)
Handler(then, f) ==
    CASE then = "error" -> "onclose"
      [] then = "close" -> "gotclose"
      [] f.op = "ping"  -> "gotping"
      [] f.op = "pong" /\ f.size = 4 -> "gotpong"
      [] OTHER -> "read"

(* A frame is read, from what the buffer still has or from what recv () puts *)
(* there: next_complete_frame (), and onmessage () of a message.             *)
Read(c, f) ==
    /\ At(c, "read")
    /\ left.frames > 0
    /\ left' = [left EXCEPT !.frames = @ - 1]
    /\ \E from \in {source[c], Peer(<<"conn", c>>)} \ {None} :
       LET t == <<"conn", c>>
           then == Outcome(wfd[c], f, State(Here(c)) = "closing")
           whole == Assembled(wfd[c], f)
           step == Handler(then, f)
       IN  /\ source' = [source EXCEPT ![c] = from]
           /\ IF step = "read" THEN GotoWith(t, step, Here(c)) ELSE Goto(t, step)
           /\ wfd' = [wfd EXCEPT ![c] = IF then = "more" THEN whole ELSE Fresh]
           /\ ctrl' = [ctrl EXCEPT ![c] = IF step \in {"gotclose", "gotping", "gotpong"} THEN f ELSE @]
           /\ seen' = CASE then = "error" -> seen
                        [] then = "message" ->
                             [seen EXCEPT ![from].got = Append(@, f),
                                          ![from].messages = Append(@, [type |-> whole.type, msg |-> whole.msg])]
                        [] OTHER -> [seen EXCEPT ![from].got = Append(@, f)]
    /\ UNCHANGED <<slot, fd, fresh, mutex, on, joining, call>>

(* handle_pong_frame () on a slot *)
Ponged(r, f) == IF f.body \in 0 .. r.ping THEN [r EXCEPT !.last_pong = f.body] ELSE r

GotPong(c) ==
    /\ At(c, "gotpong")
    /\ slot[Here(c)].lock \in {Nobody, Destroyed}
    /\ slot' = [slot EXCEPT ![Here(c)] = Ponged(@, ctrl[c])]
    /\ ctrl' = [ctrl EXCEPT ![c] = NoFrame]
    /\ GotoWith(<<"conn", c>>, "read", Here(c))
    /\ UNCHANGED <<left, fd, fresh, mutex, on, wfd, source, joining, call, seen>>

(* the client that has this client_id, as ws_sendframe () finds it *)
Self(c) == SlotOf(slot[Here(c)].id)

(* a frame of its own for the client: looked up, then sent *)
SendsBack(c, step, otherwise) ==
    IF Self(c) # NoSlot /\ Valid(Self(c)) THEN GotoWith(<<"conn", c>>, step, Self(c))
                                          ELSE Goto(<<"conn", c>>, otherwise)

(* handle_ping_frame () and do_pong (): a PONG with the same content; that it
   cannot be sent is an error *)
GotPing(c) ==
    /\ At(c, "gotping")
    /\ mutex = Nobody
    /\ SendsBack(c, "pong", "onclose")
    /\ UNCHANGED <<left, slot, fd, fresh, mutex, on, wfd, ctrl, source, joining, call, seen>>

Pong(c) ==
    LET t == <<"conn", c>>
    IN  /\ At(c, "pong")
        /\ \/ /\ Peer(t) # None
              /\ seen' = [seen EXCEPT ![Peer(t)].pongs = Append(@, ctrl[c].body)]
              /\ GotoWith(t, "read", Here(c))
           \/ UNCHANGED seen /\ Goto(t, "onclose")
        /\ ctrl' = [ctrl EXCEPT ![c] = NoFrame]
        /\ UNCHANGED <<left, slot, fd, fresh, mutex, on, wfd, source, joining, call>>

\* Faulty variant for a mutation run: the test the wrong way round.
Answers_WhenClosing(s) == State(s) = "closing"

Answers(s) == State(s) # "closing"

(* the close event: a CLOSE goes back, unless the server is closing *)
GotClose(c) ==
    /\ At(c, "gotclose")
    /\ Goto(<<"conn", c>>, IF Answers(Here(c)) THEN "answer" ELSE "onclose")
    /\ UNCHANGED <<left, slot, fd, fresh, mutex, on, wfd, ctrl, source, joining, call, seen>>

SetClosing(c) ==
    /\ At(c, "answer")
    /\ slot' = IF Valid(Here(c)) THEN [slot EXCEPT ![Here(c)].state = "closing"] ELSE slot
    /\ Goto(<<"conn", c>>, "reply")
    /\ UNCHANGED <<left, fd, fresh, mutex, on, wfd, ctrl, source, joining, call, seen>>

(* do_close (), to the client that has this client_id *)
Reply(c) ==
    /\ At(c, "reply")
    /\ mutex = Nobody
    /\ SendsBack(c, "replying", "onclose")
    /\ UNCHANGED <<left, slot, fd, fresh, mutex, on, wfd, ctrl, source, joining, call, seen>>

(* a CLOSE that is sent to connection c, or is lost on the way *)
Told(c, code)  == [seen EXCEPT ![c].closes = Append(@, code)]
Lost(c) == IF c = None THEN seen ELSE [seen EXCEPT ![c].lost = TRUE]

Replying(c) ==
    LET to == Peer(<<"conn", c>>)
    IN  /\ At(c, "replying")
        /\ \/ to # None /\ seen' = Told(to, CloseAnswer(ctrl[c].size, ctrl[c].body))
           \/ seen' = Lost(to)
        /\ Goto(<<"conn", c>>, "onclose")
        /\ UNCHANGED <<left, slot, fd, fresh, mutex, on, wfd, ctrl, source, joining, call>>

OnClose(c) ==
    /\ At(c, "onclose")
    /\ seen' = [seen EXCEPT ![slot[Here(c)].id].onclose = @ + 1]
    /\ Goto(<<"conn", c>>, "closed")
    /\ UNCHANGED <<left, slot, fd, fresh, mutex, on, wfd, ctrl, source, joining, call>>

(* waits for the timer, if close_thrd says there is one *)
Closed(c) ==
    /\ At(c, "closed")
    /\ wfd' = [wfd EXCEPT ![c] = Fresh]
    /\ ctrl' = [ctrl EXCEPT ![c] = NoFrame]
    /\ IF slot[Here(c)].close_thrd
       THEN Goto(<<"conn", c>>, "join") /\ joining' = [joining EXCEPT ![c] = slot[Here(c)].timer]
       ELSE Goto(<<"conn", c>>, "final") /\ UNCHANGED joining
    /\ UNCHANGED <<left, slot, fd, fresh, mutex, on, source, call, seen>>

Join(c) ==
    /\ At(c, "join")
    /\ pc[<<"timer", joining[c]>>] = "gone"
    /\ Goto(<<"conn", c>>, "final")
    /\ UNCHANGED <<left, slot, fd, fresh, mutex, on, wfd, ctrl, source, joining, call, seen>>

Final(c) ==
    /\ At(c, "final")
    /\ IF State(Here(c)) = "closed" THEN UNCHANGED slot /\ Goto(<<"conn", c>>, "gone")
       ELSE CloseBegin(<<"conn", c>>, Here(c))
    /\ UNCHANGED <<left, fd, fresh, mutex, on, wfd, ctrl, source, joining, call, seen>>

(***************************************************************************)
(* close_timeout (): the time is up, or the state is CLOSED.  A signal     *)
(* without that state leaves it waiting.                                   *)
(***************************************************************************)
\* Faulty variant for a mutation run: a client that is closing will do.
NothingToClose_Closing(s) == slot[s].state # "open"

NothingToClose(s) == slot[s].state = "closed"

Expire(c) ==
    LET t == <<"timer", c>>
    IN  /\ pc[t] = "wait"
        /\ IF NothingToClose(on[t]) THEN UNCHANGED slot /\ Goto(t, "gone")
           ELSE CloseBegin(t, on[t])
        /\ UNCHANGED <<left, fd, fresh, mutex, on, wfd, ctrl, source, joining, call, seen>>

(***************************************************************************)
(* The application: a thread calls, and is busy until it is through.  Idle *)
(* threads are alike: the first of them calls.                             *)
(***************************************************************************)
User(u) == <<"user", u>>
InCall(u, step) == pc[User(u)] = step
Spot(u) == on[User(u)]

Returns(u) ==
    /\ Goto(User(u), "none")
    /\ on' = [on EXCEPT ![User(u)] = NoSlot]
    /\ call' = [call EXCEPT ![u] = Idle]

Call(u) ==
    /\ InCall(u, "none")
    /\ \A v \in Users : InCall(v, "none") => u <= v
    /\ left.calls > 0
    /\ \E name \in left.names, id \in Conns \union {None} :
          /\ id # None => ~At(id, "none") /\ name # "broadcast"
          /\ call' = [call EXCEPT ![u] = [name |-> name, id |-> id]]
          /\ Goto(User(u), IF name = "broadcast" THEN "all" ELSE "lookup")
    /\ left' = [left EXCEPT !.calls = @ - 1]
    /\ UNCHANGED <<slot, fd, fresh, mutex, on, wfd, ctrl, source, joining, seen>>

(* get_client_by_cid () of a client_id that was given out, or of another   *)
(* one, None: whom ws_ping () does not find stands for all *)
Lookup(u) ==
    /\ InCall(u, "lookup")
    /\ mutex = Nobody
    /\ LET s == SlotOf(call[u].id)
       IN  IF call[u].name \in {"close", "send"}
           THEN IF s # NoSlot /\ Valid(s)
                THEN /\ IF call[u].name = "close" THEN Goto(User(u), "goodbye")
                                                  ELSE GotoWith(User(u), "send", s)
                     /\ on' = [on EXCEPT ![User(u)] = s]
                     /\ UNCHANGED call
                ELSE Returns(u)
           ELSE /\ Goto(User(u), IF s = NoSlot THEN "all" ELSE "ping")
                /\ on' = [on EXCEPT ![User(u)] = s]
                /\ call' = [call EXCEPT ![u].id = IF s = NoSlot THEN None ELSE @]
    /\ UNCHANGED <<left, slot, fd, fresh, mutex, wfd, ctrl, source, joining, seen>>

(* ws.h: the status of a CLOSE that nothing went wrong before *)
WS_CLSE_NORMAL == 1000

(* ws_close_client (): the CLOSE, after a lookup of its own; a slot that has *)
(* not this client_id any more is not found                                  *)
Goodbye(u) ==
    /\ InCall(u, "goodbye")
    /\ mutex = Nobody
    /\ LET s == SlotOf(call[u].id)
       IN  IF s # NoSlot /\ Valid(s)
           THEN GotoWith(User(u), "saybye", s) /\ UNCHANGED <<on, call>>
           ELSE Returns(u)
    /\ UNCHANGED <<left, slot, fd, fresh, mutex, wfd, ctrl, source, joining, seen>>

SayBye(u) ==
    LET to == Peer(User(u))
    IN  /\ InCall(u, "saybye")
        /\ \/ /\ to # None
              /\ seen' = [seen EXCEPT ![to].closes = Append(@, WS_CLSE_NORMAL), ![to].calls = @ + 1]
              /\ Goto(User(u), "start")
              /\ UNCHANGED <<on, call>>
           \/ seen' = Lost(to) /\ Returns(u)
        /\ UNCHANGED <<left, slot, fd, fresh, mutex, wfd, ctrl, source, joining>>

(* start_close_timeout (), of the slot found first *)
StartCloseTimeout(u) ==
    /\ InCall(u, "start")
    /\ IF State(Spot(u)) = "open"
       THEN LET t == <<"timer", slot[Spot(u)].id>>
            IN  /\ slot' = [slot EXCEPT ![Spot(u)].state = "closing",
                                        ![Spot(u)].close_thrd = TRUE,
                                        ![Spot(u)].timer = slot[Spot(u)].id]
                /\ pc' = [pc EXCEPT ![t] = "wait", ![User(u)] = "none"]
                /\ on' = [on EXCEPT ![t] = Spot(u), ![User(u)] = NoSlot]
                /\ call' = [call EXCEPT ![u] = Idle]
                /\ UNCHANGED held
       ELSE Returns(u) /\ UNCHANGED slot
    /\ UNCHANGED <<left, fd, fresh, mutex, wfd, ctrl, source, joining, seen>>

(* a broadcast: the mutex is held until the last has been served *)
Each(u) == IF call[u].name = "broadcast" THEN "deliver" ELSE "ping"

ToAll(u) ==
    /\ InCall(u, "all")
    /\ mutex = Nobody
    /\ mutex' = User(u)
    /\ on' = [on EXCEPT ![User(u)] = CHOOSE s \in Slots : \A r \in Slots : s <= r]
    /\ Goto(User(u), Each(u))
    /\ UNCHANGED <<left, slot, fd, fresh, wfd, ctrl, source, joining, call, seen>>

(* one is served: the next slot, or the end of the call *)
NextSlot(u) ==
    LET later == {s \in Slots : s > Spot(u)}
    IN  IF Broadcasts(User(u)) /\ later # {}
        THEN /\ on' = [on EXCEPT ![User(u)] = CHOOSE s \in later : \A r \in later : s <= r]
             /\ Goto(User(u), Each(u))
             /\ UNCHANGED <<mutex, call>>
        ELSE /\ mutex' = IF Broadcasts(User(u)) THEN Nobody ELSE mutex
             /\ Returns(u)

(* ws_sendframe_internal (): a broadcast goes to clients that are open *)
Deliver(u) ==
    /\ InCall(u, "deliver")
    /\ IF State(Spot(u)) = "open"
       THEN GotoWith(User(u), "send", Spot(u)) /\ UNCHANGED <<mutex, on, call>>
       ELSE NextSlot(u)
    /\ UNCHANGED <<left, slot, fd, fresh, wfd, ctrl, source, joining, seen>>

(* to the slot that was found, whoever has it by now; a broadcast ends at the *)
(* first that cannot be reached                                               *)
Send(u) ==
    LET to == Peer(User(u))
    IN  /\ InCall(u, "send")
        /\ \/ /\ to # None
              /\ seen' = [seen EXCEPT ![to].told = @ \union {call[u].id}]
              /\ NextSlot(u)
           \/ /\ mutex' = IF Broadcasts(User(u)) THEN Nobody ELSE mutex
              /\ Returns(u)
              /\ UNCHANGED seen
        /\ UNCHANGED <<left, slot, fd, fresh, wfd, ctrl, source, joining>>

(* send_ping_close (): of clients that are open *)
Ping(u) ==
    /\ InCall(u, "ping")
    /\ IF State(Spot(u)) = "open"
       THEN Goto(User(u), "lockping") /\ UNCHANGED <<mutex, on, call>>
       ELSE NextSlot(u)
    /\ UNCHANGED <<left, slot, fd, fresh, wfd, ctrl, source, joining, seen>>

(* mtx_ping taken, and a number for the PING *)
LockPing(u) ==
    LET s == Spot(u)
    IN  /\ InCall(u, "lockping")
        /\ slot[s].lock \in {Nobody, Destroyed}
        /\ slot' = [slot EXCEPT ![s].ping = @ + 1, ![s].lock = IF @ = Nobody THEN User(u) ELSE @]
        /\ GotoWith(User(u), "pinging", s)
        /\ UNCHANGED <<left, fd, fresh, mutex, on, wfd, ctrl, source, joining, call, seen>>

Unanswered(r) == r.ping - r.last_pong

(* the PING is sent or is not: too many of them unanswered, and it closes *)
Pinging(u) ==
    LET s == Spot(u)
    IN  /\ InCall(u, "pinging")
        /\ IF Unanswered(slot[s]) > Threshold THEN CloseBegin(User(u), s)
           ELSE UNCHANGED slot /\ Goto(User(u), "unlock")
        /\ UNCHANGED <<left, fd, fresh, mutex, on, wfd, ctrl, source, joining, call, seen>>

UnlockPing(u) ==
    /\ InCall(u, "unlock")
    /\ slot' = [slot EXCEPT ![Spot(u)].lock = IF @ = Destroyed THEN @ ELSE Nobody]
    /\ NextSlot(u)
    /\ UNCHANGED <<left, fd, fresh, wfd, ctrl, source, joining, seen>>

-----------------------------------------------------------------------------
(* what comes from the client, or the end of what comes *)
Receives(c) == Request(c) \/ \E f \in left.kinds : Read(c, f)
Ends(c) == HandshakeFails(c) \/ ReadEnds(c)

ConnRuns(c) ==
    \/ Respond(c) \/ Open(c) \/ GotPong(c) \/ GotPing(c) \/ Pong(c)
    \/ GotClose(c) \/ SetClosing(c) \/ Reply(c) \/ Replying(c)
    \/ OnClose(c) \/ Closed(c) \/ Join(c) \/ Final(c) \/ CloseClient(<<"conn", c>>)

TimerRuns(c) == Expire(c) \/ CloseClient(<<"timer", c>>)

UserRuns(u) ==
    \/ Lookup(u) \/ Goodbye(u) \/ SayBye(u) \/ StartCloseTimeout(u) \/ ToAll(u) \/ Deliver(u)
    \/ Send(u) \/ Ping(u) \/ LockPing(u) \/ Pinging(u) \/ UnlockPing(u) \/ CloseClient(User(u))

(* what the program does of itself *)
Runs ==
    \/ Assign
    \/ \E c \in Conns :
          \/ ~Stalls(<<"conn", c>>) /\ ConnRuns(c)
          \/ Peer(<<"conn", c>>) = None /\ Ends(c)
          \/ TimerRuns(c)
    \/ \E u \in Users : ~Stalls(User(u)) /\ UserRuns(u)

Next ==
    \/ Accept \/ Assign
    \/ \E t \in Threads : Fetch(t)
    \/ \E c \in Conns : Receives(c) \/ Ends(c) \/ ConnRuns(c) \/ TimerRuns(c)
    \/ \E u \in Users : Call(u) \/ UserRuns(u)

(* When threads can go on, one does: a timer expires, a thread that waits   *)
(* for a free lock gets it, and a send () comes back when SO_SNDTIMEO is    *)
(* set.  No client need send anything, nor end: recv () returns for sure    *)
(* only when the descriptor is closed, and send () without a timeout, too.  *)
(* No step is repeated for ever here, so this does not leave one thread     *)
(* out.                                                                     *)
Fairness == WF_vars(Runs)

Spec == Init /\ [][Next]_vars /\ Fairness

-----------------------------------------------------------------------------
(* Who waits for a lock, and for whom *)
WaitsFor(t) ==
    IF /\ mutex # Nobody
       /\ \/ pc[t] \in {"lookup", "goodbye", "all", "gotping", "reply"}
          \/ pc[t] = "clear" /\ TakesMutex(t)
    THEN {mutex}
    ELSE IF pc[t] \in {"lockping", "gotpong"} /\ slot[on[t]].lock \notin {Nobody, Destroyed}
         THEN {slot[on[t]].lock}
    ELSE {}

(* those that wait for t and that t waits for, and so for good *)
Embraces(t) == {r \in WaitsFor(t) : t \in WaitsFor(r)}

(* The locks: threads wait for each other only when a PING to all finds one *)
(* client's mtx_ping held by a PING that closes that client, which wants    *)
(* the mutex (send_ping_close (), close_client ()).                         *)
OnlyPingsEmbrace ==
    \A t \in Threads : \A r \in Embraces(t) :
        \E u, v \in {t, r} : /\ Broadcasts(u) /\ pc[u] = "lockping"
                             /\ pc[v] = "clear" /\ ~Broadcasts(v) /\ v[1] = "user"

(* the frames read, but for a last one that is a PING *)
BeforeLastPing(got) == IF Len(got) \in PingsIn(got) THEN SubSeq(got, 1, Len(got) - 1) ELSE got

(* What the application is given is what the client sent: its messages, put *)
(* together from their frames, whatever control frames came in between; and *)
(* every PING is answered in order, where one whose PONG is not sent, or    *)
(* cannot be, is the last thing read; and a client is told only what was    *)
(* sent to it or to all; when neither its slot nor its descriptor was given *)
(* out while a thread worked with it for an earlier client                  *)
(* (next_complete_frame (), do_pong (), ws_sendframe ()).                   *)
MessagesAsSent ==
    \A c \in Conns : ~seen[c].crossed =>
        LET got == seen[c].got
        IN  /\ AreMessages(got, seen[c].messages)
            /\ \E answered \in {got, BeforeLastPing(got)} :
                  BodiesAt(answered, PingsIn(answered), seen[c].pongs)
            /\ seen[c].told \subseteq {c, None}

(* whether the connection still has its descriptor *)
Connected(c) == \E d \in Descriptors : fd[d] = c

(* A CLOSE is answered with one, which the client has before its connection *)
(* ends if it is still there and no CLOSE to it was lost on the way; and a  *)
(* connection gets one besides those of ws_close_client () at most, "We     *)
(* only send a CLOSE frame once" (ws_establishconnection ()).               *)
CloseAnswered ==
    \A c \in Conns : ~seen[c].crossed =>
        /\ Len(seen[c].closes) <= seen[c].calls + 1
        /\ (/\ Connected(c) /\ ~seen[c].lost
            /\ pc[<<"conn", c>>] \in {"onclose", "closed", "join", "final", "gone"}
            /\ \E i \in DOMAIN seen[c].got : seen[c].got[i].op = "close")
           => seen[c].closes # <<>>

(* A slot comes back: a client that ws_close_client () closes loses its     *)
(* slot though it never answers (close_timeout ()), but for the two PINGs,  *)
(* and but for a send () without a timeout that never comes back while      *)
(* 'mutex' is held.                                                         *)
SlotsComeBack ==
    \/ \A c \in Conns :
          pc[<<"timer", c>>] = "wait" ~> \/ \A s \in Slots : ~(Valid(s) /\ slot[s].id = c)
                                        \/ \E t \in Threads : Embraces(t) # {}
    \/ <>[](mutex # Nobody /\ \E t \in Threads : Stalls(t))

(* "on_close events always occur, whether for client closure or server      *)
(* closure, as the server is expected to always know when the client        *)
(* disconnects" (ws_establishconnection ()).                                *)
OnCloseAlwaysOccurs ==
    \A c \in Conns : At(c, "gone") /\ seen[c].opened => seen[c].onclose = 1
=============================================================================
