-------------------------- MODULE WsServerTheorems --------------------------
(***************************************************************************)
(* The locks of ws.c, for any number of slots, connections and threads of  *)
(* the application, and whatever comes from the clients or of a send ().   *)
(*                                                                         *)
(* Who holds 'mutex' can be told from where it is (MutexInv): it is in the *)
(* last step of close_client (), or it broadcasts.  A mtx_ping is held by  *)
(* the thread that pings the slot, and by nobody else (LockInv).  That a   *)
(* second timer is never started over one that holds the mutex needs more: *)
(* an id is that of one slot, and the slot of a thread about to release    *)
(* the mutex in close_client () has no client.                             *)
(***************************************************************************)
EXTENDS WsServer, FiniteSetTheorems, WellFoundedInduction, TLAPS

Ids == Conns \cup {None}
States == {"none", "connecting", "open", "closing", "closed"}

Steps == {"none", "gone", "handshake", "respond", "open", "read", "gotping", "pong", "gotpong",
          "gotclose", "answer", "reply", "replying", "onclose", "closed", "join", "final", "wait",
          "lookup", "goodbye", "saybye", "start", "all", "deliver", "send", "ping", "lockping",
          "pinging", "unlock", "shut", "clear", "destroy"}

Socks == Descriptors \cup {NoSock}

SlotRec == [sock : Socks, id : Ids, state : States, close_thrd : BOOLEAN, timer : Ids,
            last_pong : Int, ping : Int, lock : Threads \cup {Nobody, Destroyed}]

ServerTypes ==
  /\ left \in Scenario
  /\ slot \in [Slots -> SlotRec]
  /\ fresh \in [conn : Ids, sock : Socks]
  /\ mutex \in Threads \cup {Nobody}
  /\ pc \in [Threads -> Steps]
  /\ on \in [Threads -> Slots \cup {NoSlot}]
  /\ call \in [Users -> [name : CallNames \cup {"none"}, id : Ids]]

\* A thread that is past its lookup has a slot.
Located == \A t \in Threads : pc[t] \notin {"none", "gone", "lookup", "all"} => on[t] \in Slots

InMutex(t) ==
  \/ pc[t] = "destroy"
  \/ Broadcasts(t) /\ pc[t] \in {"deliver", "send", "ping", "lockping", "pinging", "shut", "clear", "unlock"}

MutexInv == \A t \in Threads : mutex = t <=> InMutex(t)

AllInv ==
  \A u \in Users : /\ InCall(u, "all") => Broadcasts(User(u))
                   /\ InCall(u, "lookup") => call[u].name # "none"

HoldsPing(t, s) ==
  t[1] = "user" /\ on[t] = s /\ pc[t] \in {"pinging", "shut", "clear", "destroy", "unlock"}

LockInv == \A s \in Slots, t \in Threads : slot[s].lock = t => HoldsPing(t, s)

IdInv ==
  \A s \in Slots :
    /\ slot[s].sock # NoSock => slot[s].id # None
    /\ slot[s].id # None => pc[<<"conn", slot[s].id>>] # "none"
    /\ \A r \in Slots : slot[s].id = slot[r].id /\ slot[s].id # None => s = r

TimerInv ==
  \A c \in Conns :
    pc[<<"timer", c>>] # "none" =>
      /\ ~At(c, "none")
      /\ \A s \in Slots : slot[s].id = c => s = on[<<"timer", c>>]

\* The connection that has no slot yet has no thread.
FreshInv == fresh # NothingFresh => fresh.conn \in Conns /\ At(fresh.conn, "none")

DestroyInv == \A t \in Threads : pc[t] = "destroy" => slot[on[t]].sock = NoSock

ServerInv ==
  /\ ServerTypes /\ Located /\ MutexInv /\ AllInv
  /\ LockInv /\ IdInv /\ TimerInv /\ FreshInv /\ DestroyInv

-----------------------------------------------------------------------------
\* Threads are told from one another, and from nobody, by their kinds.
LEMMA ThreadKinds ==
  /\ Nobody \notin Threads /\ Destroyed \notin Threads /\ Nobody # Destroyed
  /\ \A c \in Conns : /\ <<"conn", c>> \in Threads /\ <<"timer", c>> \in Threads
                      /\ <<"conn", c>>[1] = "conn" /\ <<"timer", c>>[1] = "timer"
                      /\ <<"timer", c>>[2] = c
  /\ \A u \in Users : User(u) \in Threads /\ User(u)[1] = "user" /\ User(u)[2] = u
  /\ \A t \in Threads : \/ t[1] = "conn" /\ t[2] \in Conns /\ t = <<"conn", t[2]>>
                        \/ t[1] = "timer" /\ t[2] \in Conns /\ t = <<"timer", t[2]>>
                        \/ t[1] = "user" /\ t[2] \in Users /\ t = User(t[2])
<1>1. \A t \in Threads : t = <<t[1], t[2]>> /\ Len(t) = 2
  BY DEF Threads
<1>2. Len(Nobody) = 0 /\ Len(Destroyed) = 1
  BY DEF Nobody, Destroyed
<1>3. Nobody \notin Threads /\ Destroyed \notin Threads /\ Nobody # Destroyed
  BY <1>1, <1>2
<1>4. QED
  BY <1>3 DEF Threads, User

\* The least of a set of numbers.
LEMMA LeastNumber ==
  ASSUME NEW S \in SUBSET Nat, S # {}
  PROVE  /\ (CHOOSE x \in S : \A y \in S : x =< y) \in S
         /\ \A y \in S : (CHOOSE x \in S : \A z \in S : x =< z) =< y
<1>1. \E x \in S : \A y \in S : ~(<<y, x>> \in OpToRel(<, Nat))
  BY NatLessThanWellFounded, WFMin
<1>2. PICK x \in S : \A y \in S : ~(<<y, x>> \in OpToRel(<, Nat))
  BY <1>1
<1>3. \A y \in S : ~(y < x)
  BY <1>2 DEF OpToRel
<1>4. \A y \in S : x =< y
  BY <1>3
<1>5. QED
  BY <1>4

LEMMA SlotOfId ==
  ASSUME ServerTypes, NEW id
  PROVE  SlotOf(id) # NoSlot => /\ SlotOf(id) \in Slots
                                /\ slot[SlotOf(id)].id = id /\ id # None
<1>1. Holding(id) \in SUBSET Nat /\ Holding(id) \subseteq Slots
  BY WsServerAssumption DEF Holding
<1>2. CASE id # None /\ Holding(id) # {}
  <2>1. SlotOf(id) \in Holding(id)
    BY <1>1, <1>2, LeastNumber DEF SlotOf
  <2>2. QED
    BY <1>1, <1>2, <2>1 DEF Holding
<1>3. QED
  BY <1>2 DEF SlotOf

LEMMA NoSlotIsNone == NoSlot \notin Slots /\ None \notin Conns
BY WsServerAssumption DEF NoSlot, None

-----------------------------------------------------------------------------
\* A step of one thread that leaves the connections' numbers alone.
LEMMA OneStep ==
  ASSUME ServerInv, ServerTypes', NEW t \in Threads,
         \A r \in Threads \ {t} : pc'[r] = pc[r] /\ on'[r] = on[r],
         \A u \in Users : User(u) # t => call'[u] = call[u],
         pc'[t] \notin {"none", "lookup", "all"} => on'[t] \in Slots,
         fresh' = fresh,
         \A s \in Slots : slot'[s].id = slot[s].id /\ slot'[s].sock \in {slot[s].sock, NoSock},
         \A s \in Slots, r \in Threads \ {t} : slot'[s].lock = r => slot[s].lock = r,
         \A s \in Slots : slot'[s].lock = t => HoldsPing(t, s)',
         mutex' = IF InMutex(t)' THEN t ELSE IF InMutex(t) THEN Nobody ELSE mutex,
         InMutex(t)' => InMutex(t) \/ mutex = Nobody,
         t[1] = "user" => /\ pc'[t] = "all" => Broadcasts(t)'
                          /\ pc'[t] = "lookup" => call'[t[2]].name # "none",
         t[1] # "user" => pc[t] # "none" /\ pc'[t] # "none" /\ on'[t] = on[t],
         pc'[t] = "destroy" => slot'[on'[t]].sock = NoSock
  PROVE  ServerInv'
<1>1. Located'
  BY DEF Located, ServerInv
<1>10. \A r \in Threads \ {t} : Broadcasts(r)' <=> Broadcasts(r)
  <2>1. ASSUME NEW r \in Threads \ {t}, r[1] = "user"
        PROVE  call'[r[2]] = call[r[2]]
    BY <2>1, ThreadKinds
  <2>2. QED
    BY <2>1 DEF Broadcasts
<1>2. \A r \in Threads \ {t} : InMutex(r)' <=> InMutex(r)
  BY <1>10 DEF InMutex
<1>3. MutexInv'
  <2>1. ASSUME NEW r \in Threads \ {t}
        PROVE  mutex' = r <=> InMutex(r)'
    <3>1. mutex = r <=> InMutex(r)
      BY DEF ServerInv, MutexInv
    <3>2. mutex = t <=> InMutex(t)
      BY DEF ServerInv, MutexInv
    <3>3. Nobody # r
      BY ThreadKinds
    <3>4. QED
      BY <1>2, <3>1, <3>2, <3>3
  <2>2. mutex' = t <=> InMutex(t)'
    <3>1. mutex = t <=> InMutex(t)
      BY DEF ServerInv, MutexInv
    <3>2. Nobody # t
      BY ThreadKinds
    <3>3. QED
      BY <3>1, <3>2
  <2>3. QED
    BY <2>1, <2>2 DEF MutexInv
<1>4. AllInv'
  <2>1. ASSUME NEW u \in Users
        PROVE  /\ InCall(u, "all")' => Broadcasts(User(u))'
               /\ InCall(u, "lookup")' => call'[u].name # "none"
    <3>1. User(u) \in Threads /\ User(u)[1] = "user" /\ User(u)[2] = u
      BY ThreadKinds
    <3>2. CASE User(u) = t
      BY <3>1, <3>2 DEF InCall
    <3>3. CASE User(u) # t
      <4>1. /\ InCall(u, "all")' <=> InCall(u, "all")
            /\ InCall(u, "lookup")' <=> InCall(u, "lookup")
            /\ Broadcasts(User(u))' <=> Broadcasts(User(u))
            /\ call'[u] = call[u]
        BY <1>10, <3>1, <3>3 DEF InCall
      <4>2. QED
        BY <4>1 DEF ServerInv, AllInv
    <3>4. QED
      BY <3>2, <3>3
  <2>2. QED
    BY <2>1 DEF AllInv, InCall, User
<1>5. LockInv'
  <2>1. ASSUME NEW s \in Slots, NEW r \in Threads, slot'[s].lock = r
        PROVE  HoldsPing(r, s)'
    <3>1. CASE r = t
      BY <2>1, <3>1
    <3>2. CASE r # t
      <4>1. HoldsPing(r, s)
        BY <2>1, <3>2 DEF ServerInv, LockInv
      <4>2. QED
        BY <3>2, <4>1 DEF HoldsPing
    <3>3. QED
      BY <3>1, <3>2
  <2>2. QED
    BY <2>1 DEF LockInv
<1>11. \A c \in Conns : At(c, "none")' <=> At(c, "none")
  <2>1. ASSUME NEW c \in Conns
        PROVE  At(c, "none")' <=> At(c, "none")
    <3>1. PICK r : r = <<"conn", c>> /\ r[1] = "conn" /\ r \in Threads
      BY ThreadKinds
    <3>2. pc'[r] = "none" <=> pc[r] = "none"
      BY <3>1
    <3>3. QED
      BY <3>1, <3>2 DEF At
  <2>2. QED
    BY <2>1
<1>6. IdInv'
  <2>1. \A s \in Slots : slot[s].id \in Ids
    BY DEF ServerInv, ServerTypes, SlotRec
  <2>2. ASSUME NEW s \in Slots, slot'[s].id # None
        PROVE  pc'[<<"conn", slot'[s].id>>] # "none"
    <3>1. PICK c \in Conns : c = slot[s].id /\ c = slot'[s].id
      BY <2>1, <2>2 DEF Ids
    <3>2. ~At(c, "none")
      BY <2>2, <3>1 DEF ServerInv, IdInv, At
    <3>3. ~At(c, "none")'
      BY <1>11, <3>2
    <3>4. QED
      BY <3>1, <3>3 DEF At
  <2>3. ASSUME NEW s \in Slots, NEW q \in Slots, slot'[s].id = slot'[q].id, slot'[s].id # None
        PROVE  s = q
    <3>1. slot[s].id = slot[q].id /\ slot[s].id # None
      BY <2>3
    <3>2. QED
      BY <3>1 DEF ServerInv, IdInv
  <2>4. \A s \in Slots : slot'[s].sock # NoSock => slot'[s].id # None
    BY DEF ServerInv, IdInv
  <2>5. QED
    BY <2>2, <2>3, <2>4 DEF IdInv
<1>7. TimerInv'
  <2>1. ASSUME NEW c \in Conns, pc'[<<"timer", c>>] # "none"
        PROVE  pc[<<"timer", c>>] # "none" /\ on'[<<"timer", c>>] = on[<<"timer", c>>]
    <3>1. PICK r : r = <<"timer", c>> /\ r[1] = "timer" /\ r \in Threads
      BY ThreadKinds
    <3>2. pc[r] # "none" /\ on'[r] = on[r]
      BY <2>1, <3>1
    <3>3. QED
      BY <3>1, <3>2
  <2>2. ASSUME NEW c \in Conns, pc'[<<"timer", c>>] # "none"
        PROVE  /\ ~At(c, "none")'
               /\ \A s \in Slots : slot'[s].id = c => s = on'[<<"timer", c>>]
    <3>1. /\ ~At(c, "none")
          /\ \A s \in Slots : slot[s].id = c => s = on[<<"timer", c>>]
      BY <2>1, <2>2 DEF ServerInv, TimerInv
    <3>2. QED
      BY <1>11, <2>1, <2>2, <3>1
  <2>3. QED
    BY <2>2 DEF TimerInv, At
<1>12. FreshInv'
  BY <1>11 DEF ServerInv, FreshInv, At
<1>8. DestroyInv'
  <2>1. ASSUME NEW r \in Threads, r # t, pc'[r] = "destroy"
        PROVE  slot'[on'[r]].sock = NoSock
    <3>1. on[r] \in Slots /\ on'[r] = on[r] /\ slot[on[r]].sock = NoSock
      BY <2>1 DEF ServerInv, Located, DestroyInv
    <3>2. QED
      BY <3>1
  <2>2. QED
    BY <2>1 DEF DestroyInv
<1>9. QED
  BY <1>1, <1>3, <1>4, <1>5, <1>6, <1>7, <1>8, <1>12 DEF ServerInv

LEMMA InitServerInv == Init => ServerInv
<1> SUFFICES ASSUME Init PROVE ServerInv
  OBVIOUS
<1>1. ServerTypes
  <2>1. Unused \in SlotRec /\ NothingFresh \in [conn : Ids, sock : Socks]
    BY DEF Unused, NothingFresh, SlotRec, Ids, Socks, States
  <2>2. Idle \in [name : CallNames \cup {"none"}, id : Ids]
    BY DEF Idle, Ids
  <2>3. slot \in [Slots -> SlotRec] /\ call \in [Users -> [name : CallNames \cup {"none"}, id : Ids]]
    BY <2>1, <2>2, Zenon DEF Init
  <2>4. pc \in [Threads -> Steps]
    BY DEF Init, Steps
  <2>8. fresh \in [conn : Ids, sock : Socks]
    BY <2>1, Zenon DEF Init
  <2>5. on \in [Threads -> Slots \cup {NoSlot}] /\ mutex \in Threads \cup {Nobody}
    BY Zenon DEF Init
  <2>6. left \in Scenario
    BY WsServerAssumption, Zenon DEF Init
  <2>7. QED
    BY <2>3, <2>4, <2>5, <2>6, <2>8 DEF ServerTypes
<1>2. \A t \in Threads : pc[t] = "none" /\ mutex # t
  BY ThreadKinds DEF Init
<1>3. Located /\ MutexInv /\ DestroyInv
  BY <1>2 DEF Located, MutexInv, InMutex, DestroyInv
<1>4. AllInv /\ TimerInv
  BY <1>2, ThreadKinds DEF AllInv, InCall, TimerInv
<1>5. LockInv /\ IdInv /\ FreshInv
  BY ThreadKinds DEF Init, Unused, LockInv, IdInv, FreshInv
<1>6. QED
  BY <1>1, <1>3, <1>4, <1>5 DEF ServerInv

-----------------------------------------------------------------------------
(* What a step makes of one slot. *)

LEMMA SlotFields ==
  ASSUME NEW x \in SlotRec
  PROVE  /\ \A v \in States : LET y == [x EXCEPT !.state = v] IN
              /\ y \in SlotRec /\ y.state = v
              /\ y.id = x.id /\ y.sock = x.sock /\ y.lock = x.lock
         /\ \A v \in Socks : LET y == [x EXCEPT !.sock = v] IN
              y \in SlotRec /\ y.id = x.id /\ y.sock = v /\ y.lock = x.lock /\ y.state = x.state
         /\ \A v \in Int : LET y == [x EXCEPT !.last_pong = v] IN
              y \in SlotRec /\ y.id = x.id /\ y.sock = x.sock /\ y.lock = x.lock /\ y.state = x.state
         /\ \A v \in Int : LET y == [x EXCEPT !.ping = v] IN
              y \in SlotRec /\ y.id = x.id /\ y.sock = x.sock /\ y.lock = x.lock /\ y.state = x.state
         /\ \A v \in Threads \cup {Nobody, Destroyed} : LET y == [x EXCEPT !.lock = v] IN
              y \in SlotRec /\ y.id = x.id /\ y.sock = x.sock /\ y.lock = v /\ y.state = x.state
BY DEF SlotRec

LEMMA SlotWithState ==
  ASSUME ServerTypes, NEW s \in Slots, NEW v \in States
  PROVE  LET new == [slot EXCEPT ![s].state = v] IN
         /\ new \in [Slots -> SlotRec]
         /\ \A r \in Slots : /\ new[r].id = slot[r].id /\ new[r].sock = slot[r].sock
                             /\ new[r].lock = slot[r].lock
                             /\ new[r].state = IF r = s THEN v ELSE slot[r].state
<1> DEFINE x == [slot[s] EXCEPT !.state = v]
<1>1. slot \in [Slots -> SlotRec] /\ slot[s] \in SlotRec
  BY DEF ServerTypes
<1>2. /\ x \in SlotRec /\ x.state = v
      /\ x.id = slot[s].id /\ x.sock = slot[s].sock /\ x.lock = slot[s].lock
  BY <1>1, SlotFields
<1>3. [slot EXCEPT ![s].state = v] = [slot EXCEPT ![s] = x]
  OBVIOUS
<1> HIDE DEF x
<1>4. QED
  BY <1>1, <1>2, <1>3

\* A thread that takes no lock goes on.
LEMMA QuietStep ==
  ASSUME ServerInv, NEW t \in Threads, t[1] # "user",
         NEW step \in Steps, step \notin {"none", "lookup", "all", "destroy"},
         pc[t] \notin {"none", "gone", "lookup", "all", "destroy"},
         pc' = [pc EXCEPT ![t] = step], UNCHANGED <<fresh, mutex, on, call>>,
         left' \in Scenario, slot' \in [Slots -> SlotRec],
         \A s \in Slots : /\ slot'[s].id = slot[s].id /\ slot'[s].sock = slot[s].sock
                          /\ slot'[s].lock = slot[s].lock
  PROVE  ServerInv'
<1>1. /\ pc \in [Threads -> Steps] /\ pc' \in [Threads -> Steps] /\ pc'[t] = step
      /\ \A r \in Threads \ {t} : pc'[r] = pc[r] /\ on'[r] = on[r]
      /\ on' = on /\ mutex' = mutex /\ fresh' = fresh
  BY DEF ServerInv, ServerTypes
<1>2. ServerTypes'
  BY <1>1 DEF ServerInv, ServerTypes
<1>3. \A r \in Threads : Broadcasts(r)' <=> Broadcasts(r)
  BY DEF Broadcasts
<1>4. ~InMutex(t) /\ ~InMutex(t)' /\ ~Broadcasts(t)'
  BY <1>1 DEF InMutex, Broadcasts
<1>5. on'[t] \in Slots
  BY <1>1 DEF ServerInv, Located
<1>6. \A s \in Slots : slot'[s].lock # t
  BY DEF ServerInv, LockInv, HoldsPing
<1>7. QED
  BY <1>1, <1>2, <1>3, <1>4, <1>5, <1>6, OneStep

-----------------------------------------------------------------------------
(* The threads of the connections and the timers. *)

LEMMA ConnIsThread ==
  ASSUME ServerInv, NEW c \in Conns, NEW step \in Steps, At(c, step),
         step \notin {"none", "gone", "lookup", "all"}
  PROVE  <<"conn", c>> \in Threads /\ <<"conn", c>>[1] # "user" /\ Here(c) \in Slots
<1>1. <<"conn", c>> \in Threads /\ <<"conn", c>>[1] # "user"
  BY ThreadKinds
<1>2. QED
  BY <1>1 DEF ServerInv, Located, At, Here

LEMMA ConnQuiet ==
  ASSUME ServerInv, NEW c \in Conns,
         \/ Request(c) \/ HandshakeFails(c) \/ Respond(c) \/ Open(c) \/ ReadEnds(c)
         \/ \E f \in left.kinds : Read(c, f)
         \/ GotPong(c) \/ GotPing(c) \/ Pong(c) \/ GotClose(c)
         \/ SetClosing(c) \/ Reply(c) \/ Replying(c) \/ OnClose(c) \/ Closed(c) \/ Join(c) \/ Final(c)
  PROVE  ServerInv'
<1> DEFINE t == <<"conn", c>>
           Quiet(step) == /\ step \in Steps /\ step \notin {"none", "lookup", "all", "destroy"}
                          /\ pc[t] \in Steps /\ pc[t] \notin {"none", "gone", "lookup", "all", "destroy"}
                          /\ pc' = [pc EXCEPT ![t] = step]
                          /\ UNCHANGED <<fresh, mutex, on, call>>
           SameSlots(new) == /\ new \in [Slots -> SlotRec]
                             /\ \A s \in Slots : /\ new[s].id = slot[s].id
                                                 /\ new[s].sock = slot[s].sock
                                                 /\ new[s].lock = slot[s].lock
<1>1. t \in Threads /\ t[1] # "user"
  BY ThreadKinds
<1>2. ASSUME NEW step, Quiet(step), left' \in Scenario, SameSlots(slot')
      PROVE  ServerInv'
  BY <1>1, <1>2, QuietStep
<1>3. ServerTypes /\ left \in Scenario /\ SameSlots(slot)
  BY DEF ServerInv, ServerTypes
<1>4. pc[t] \in Steps /\ pc[t] \notin {"none", "gone", "lookup", "all"} => Here(c) \in Slots
  BY <1>1 DEF ServerInv, Located, Here
<1>5. ASSUME NEW v \in States, Here(c) \in Slots
      PROVE  SameSlots([slot EXCEPT ![Here(c)].state = v])
  BY <1>3, <1>5, SlotWithState
<1> HIDE DEF SameSlots
<1>6. CASE Open(c)
  <2>1. Quiet("read")
    BY <1>6 DEF Open, At, GotoWith, Steps
  <2>2. SameSlots(slot') /\ left' = left
    BY <1>3, <1>4, <1>5, <1>6, <2>1 DEF Open, States
  <2>3. QED
    BY <1>2, <1>3, <2>1, <2>2
<1>7. CASE HandshakeFails(c)
  BY <1>2, <1>3, <1>7 DEF HandshakeFails, At, Goto, Steps
<1>8. CASE ReadEnds(c)
  BY <1>2, <1>3, <1>8 DEF ReadEnds, At, Goto, Steps
<1>9. ASSUME NEW f, Read(c, f)
      PROVE  ServerInv'
  <2>1. PICK step \in {"onclose", "gotclose", "gotping", "gotpong", "read"} : pc' = [pc EXCEPT ![t] = step]
    BY <1>9 DEF Read, Handler, Goto, GotoWith
  <2>2. Quiet(step)
    BY <1>9, <2>1 DEF Read, At, Steps
  <2>3. left' \in Scenario
    <3>1. left.frames > 0 /\ left' = [left EXCEPT !.frames = left.frames - 1]
      BY <1>9 DEF Read
    <3>2. QED
      BY <1>3, <3>1 DEF Scenario
  <2>4. slot' = slot
    BY <1>9 DEF Read
  <2>5. QED
    BY <1>2, <1>3, <2>2, <2>3, <2>4
<1>18. CASE Request(c)
  BY <1>2, <1>3, <1>18 DEF Request, At, GotoWith, Steps
<1>19. CASE Respond(c)
  BY <1>2, <1>3, <1>19 DEF Respond, At, Goto, Steps
<1>20. CASE GotPong(c)
  <2>1. Quiet("read") /\ left' = left
    BY <1>20 DEF GotPong, At, GotoWith, Steps
  <2> DEFINE f == ctrl[c]
             x == Ponged(slot[Here(c)], f)
  <2>2. Here(c) \in Slots
    BY <1>4, <2>1
  <2>3. slot[Here(c)] \in SlotRec /\ slot \in [Slots -> SlotRec]
    BY <1>3, <2>2 DEF ServerTypes
  <2>4. /\ x \in SlotRec /\ x.id = slot[Here(c)].id
        /\ x.sock = slot[Here(c)].sock /\ x.lock = slot[Here(c)].lock
    <3>1. CASE x = slot[Here(c)]
      BY <2>3, <3>1
    <3>2. CASE x # slot[Here(c)]
      <4>1. x = [slot[Here(c)] EXCEPT !.last_pong = f.body] /\ f.body \in 0..slot[Here(c)].ping
        BY <3>2 DEF Ponged
      <4>2. f.body \in Int
        BY <2>3, <4>1 DEF SlotRec
      <4> HIDE DEF f
      <4>3. QED
        BY <2>3, <4>1, <4>2, SlotFields
    <3>3. QED
      BY <3>1, <3>2
  <2>5. slot' = [slot EXCEPT ![Here(c)] = x]
    BY <1>20 DEF GotPong
  <2> HIDE DEF x
  <2>6. SameSlots([slot EXCEPT ![Here(c)] = x])
    BY <2>2, <2>3, <2>4 DEF SameSlots
  <2>7. QED
    BY <1>2, <1>3, <2>1, <2>5, <2>6
<1>21. CASE GotPing(c)
  BY <1>2, <1>3, <1>21 DEF GotPing, SendsBack, At, Goto, GotoWith, Steps
<1>22. CASE Pong(c)
  BY <1>2, <1>3, <1>22 DEF Pong, At, Goto, GotoWith, Steps
<1>23. CASE Replying(c)
  BY <1>2, <1>3, <1>23 DEF Replying, At, Goto, Steps
<1>10. CASE GotClose(c)
  BY <1>2, <1>3, <1>10 DEF GotClose, At, Goto, Steps
<1>11. CASE SetClosing(c)
  <2>1. Quiet("reply")
    BY <1>11 DEF SetClosing, At, Goto, Steps
  <2>2. SameSlots(slot') /\ left' = left
    BY <1>3, <1>4, <1>5, <1>11, <2>1 DEF SetClosing, States
  <2>3. QED
    BY <1>2, <1>3, <2>1, <2>2
<1>12. CASE Reply(c)
  BY <1>2, <1>3, <1>12 DEF Reply, SendsBack, At, Goto, GotoWith, Steps
<1>13. CASE OnClose(c)
  BY <1>2, <1>3, <1>13 DEF OnClose, At, Goto, Steps
<1>14. CASE Closed(c)
  BY <1>2, <1>3, <1>14 DEF Closed, At, Goto, Steps
<1>15. CASE Join(c)
  BY <1>2, <1>3, <1>15 DEF Join, At, Goto, Steps
<1>16. CASE Final(c)
  <2>1. Quiet("gone") \/ Quiet("shut")
    BY <1>1, <1>16 DEF Final, CloseBegin, After, At, Goto, GotoWith, Steps
  <2>2. SameSlots(slot') /\ left' = left
    BY <1>3, <1>4, <1>5, <1>16, <2>1 DEF Final, CloseBegin, States
  <2>3. QED
    BY <1>2, <1>3, <2>1, <2>2
<1>17. QED
  BY <1>6, <1>7, <1>8, <1>9, <1>10, <1>11, <1>12, <1>13, <1>14, <1>15, <1>16,
     <1>18, <1>19, <1>20, <1>21, <1>22, <1>23

LEMMA ExpireQuiet ==
  ASSUME ServerInv, NEW c \in Conns, Expire(c)
  PROVE  ServerInv'
<1> DEFINE t == <<"timer", c>>
<1>1. t \in Threads /\ t[1] # "user" /\ pc[t] = "wait" /\ ServerTypes
  BY ThreadKinds DEF Expire, ServerInv
<1>2. on[t] \in Slots
  BY <1>1 DEF ServerInv, Located
<1>3. /\ pc' = [pc EXCEPT ![t] = "gone"] \/ pc' = [pc EXCEPT ![t] = "shut"]
      /\ UNCHANGED <<left, fresh, mutex, on, call>>
      /\ slot' = slot \/ slot' = [slot EXCEPT ![on[t]].state = "closed"]
  BY <1>1 DEF Expire, CloseBegin, After, Goto, GotoWith
<1>4. /\ slot' \in [Slots -> SlotRec]
      /\ \A s \in Slots : /\ slot'[s].id = slot[s].id /\ slot'[s].sock = slot[s].sock
                          /\ slot'[s].lock = slot[s].lock
  <2>1. "closed" \in States
    BY DEF States
  <2>2. CASE slot' = [slot EXCEPT ![on[t]].state = "closed"]
    BY <1>1, <1>2, <2>1, <2>2, SlotWithState
  <2>3. QED
    BY <1>1, <1>3, <2>2 DEF ServerTypes
<1>5. "gone" \in Steps /\ "shut" \in Steps
  BY DEF Steps
<1>6. left' \in Scenario
  BY <1>1, <1>3 DEF ServerTypes
<1>7. CASE pc' = [pc EXCEPT ![t] = "gone"]
  BY <1>1, <1>3, <1>4, <1>5, <1>6, <1>7, QuietStep
<1>8. CASE pc' = [pc EXCEPT ![t] = "shut"]
  BY <1>1, <1>3, <1>4, <1>5, <1>6, <1>8, QuietStep
<1>9. QED
  BY <1>3, <1>7, <1>8

-----------------------------------------------------------------------------
(* close_client (), of any thread. *)

\* A thread keeps its kind and what it does.
LEMMA SameCalls ==
  ASSUME call' = call
  PROVE  \A r \in Threads : Broadcasts(r)' <=> Broadcasts(r)
BY DEF Broadcasts

LEMMA CloseSocketInv ==
  ASSUME ServerInv, NEW t \in Threads, CloseSocket(t)
  PROVE  ServerInv'
<1>1. /\ pc[t] = "shut" /\ pc' = [pc EXCEPT ![t] = "clear"]
      /\ UNCHANGED <<left, slot, fresh, mutex, on, call>>
  BY DEF CloseSocket, Goto
<1>2. ServerTypes /\ pc'[t] = "clear" /\ pc' \in [Threads -> Steps] /\ on[t] \in Slots
  BY <1>1 DEF ServerInv, ServerTypes, Located, Steps
<1>4. ServerTypes'
  BY <1>1, <1>2 DEF ServerTypes
<1>5. /\ \A r \in Threads \ {t} : pc'[r] = pc[r] /\ on'[r] = on[r]
      /\ \A r \in Threads : Broadcasts(r)' <=> Broadcasts(r)
  BY <1>1, <1>2, SameCalls DEF ServerTypes
<1>6. (InMutex(t)' <=> InMutex(t)) /\ mutex' = IF InMutex(t)' THEN t ELSE IF InMutex(t) THEN Nobody ELSE mutex
  BY <1>1, <1>2, <1>5 DEF InMutex, ServerInv, MutexInv
<1>7. \A s \in Slots : slot'[s].lock = t => HoldsPing(t, s)'
  BY <1>1, <1>2 DEF ServerInv, LockInv, HoldsPing
<1>8. QED
  BY <1>1, <1>2, <1>4, <1>5, <1>6, <1>7, OneStep

LEMMA CloseClearInv ==
  ASSUME ServerInv, NEW t \in Threads, CloseClear(t)
  PROVE  ServerInv'
<1>1. /\ pc[t] = "clear" /\ pc' = [pc EXCEPT ![t] = "destroy"]
      /\ UNCHANGED <<left, fresh, on, call>>
      /\ mutex' = t /\ (~Broadcasts(t) => mutex = Nobody)
      /\ slot' = [slot EXCEPT ![on[t]].sock = NoSock]
  BY DEF CloseClear, Goto, TakesMutex
<1>2. ServerTypes /\ pc'[t] = "destroy" /\ pc' \in [Threads -> Steps] /\ on[t] \in Slots
  BY <1>1 DEF ServerInv, ServerTypes, Located, Steps
<1>3. /\ slot' \in [Slots -> SlotRec]
      /\ \A s \in Slots : /\ slot'[s].id = slot[s].id /\ slot'[s].sock \in {slot[s].sock, NoSock}
                          /\ slot'[s].lock = slot[s].lock
      /\ slot'[on[t]].sock = NoSock
  <2> DEFINE x == [slot[on[t]] EXCEPT !.sock = NoSock]
  <2>1. slot \in [Slots -> SlotRec] /\ slot[on[t]] \in SlotRec /\ NoSock \in Socks
    BY <1>2 DEF ServerTypes, Socks
  <2>2. x \in SlotRec /\ x.id = slot[on[t]].id /\ x.sock = NoSock /\ x.lock = slot[on[t]].lock
    BY <2>1, SlotFields
  <2>3. slot' = [slot EXCEPT ![on[t]] = x]
    BY <1>1
  <2> HIDE DEF x
  <2>4. QED
    BY <1>2, <2>1, <2>2, <2>3
<1>4. ServerTypes'
  BY <1>1, <1>2, <1>3 DEF ServerTypes
<1>5. /\ \A r \in Threads \ {t} : pc'[r] = pc[r] /\ on'[r] = on[r]
      /\ \A r \in Threads : Broadcasts(r)' <=> Broadcasts(r)
  BY <1>1, <1>2, SameCalls DEF ServerTypes
<1>6. InMutex(t)' /\ (InMutex(t) \/ mutex = Nobody)
  BY <1>1, <1>2 DEF InMutex
<1>7. \A s \in Slots : slot'[s].lock = t => HoldsPing(t, s)'
  BY <1>1, <1>2, <1>3 DEF ServerInv, LockInv, HoldsPing
<1>8. \A s \in Slots, r \in Threads \ {t} : slot'[s].lock = r => slot[s].lock = r
  BY <1>3
<1>9. QED
  BY <1>1, <1>2, <1>3, <1>4, <1>5, <1>6, <1>7, <1>8, OneStep

LEMMA CloseDestroyInv ==
  ASSUME ServerInv, NEW t \in Threads, CloseDestroy(t)
  PROVE  ServerInv'
<1> DEFINE step == IF t[1] = "user" THEN "unlock" ELSE "gone"
           lock == IF slot[on[t]].lock = Nobody THEN Destroyed ELSE slot[on[t]].lock
           x == [slot[on[t]] EXCEPT !.lock = lock]
<1>1. /\ pc[t] = "destroy" /\ pc' = [pc EXCEPT ![t] = step]
      /\ UNCHANGED <<left, fresh, on, call>>
      /\ mutex' = IF ~Broadcasts(t) THEN Nobody ELSE mutex
  BY DEF CloseDestroy, Goto, TakesMutex, After
<1>2. /\ ServerTypes /\ pc'[t] = step /\ pc' \in [Threads -> Steps] /\ on[t] \in Slots
      /\ step \notin {"none", "lookup", "all", "destroy"}
  BY <1>1 DEF ServerInv, ServerTypes, Located, Steps
<1>3. slot' = [slot EXCEPT ![on[t]] = x]
  BY DEF CloseDestroy
<1>4. /\ slot \in [Slots -> SlotRec] /\ slot[on[t]] \in SlotRec
      /\ lock \in Threads \cup {Nobody, Destroyed}
      /\ lock \in Threads => lock = slot[on[t]].lock
  <2>1. slot \in [Slots -> SlotRec] /\ slot[on[t]] \in SlotRec
    BY <1>2 DEF ServerTypes
  <2>2. slot[on[t]].lock \in Threads \cup {Nobody, Destroyed}
    BY <2>1 DEF SlotRec
  <2>3. QED
    BY <2>1, <2>2, ThreadKinds
<1> HIDE DEF lock
<1>5. x \in SlotRec /\ x.id = slot[on[t]].id /\ x.sock = slot[on[t]].sock /\ x.lock = lock
  BY <1>4, SlotFields
<1> HIDE DEF x
<1>6. /\ slot' \in [Slots -> SlotRec]
      /\ \A s \in Slots : /\ slot'[s].id = slot[s].id /\ slot'[s].sock = slot[s].sock
                          /\ slot'[s].lock \in Threads => slot'[s].lock = slot[s].lock
  BY <1>2, <1>3, <1>4, <1>5
<1>7. mutex' \in Threads \cup {Nobody} /\ ServerTypes'
  BY <1>1, <1>2, <1>6 DEF ServerTypes
<1>8. /\ \A r \in Threads \ {t} : pc'[r] = pc[r] /\ on'[r] = on[r]
      /\ \A r \in Threads : Broadcasts(r)' <=> Broadcasts(r)
  BY <1>1, <1>2, SameCalls DEF ServerTypes
<1>9. InMutex(t) /\ (InMutex(t)' <=> Broadcasts(t)) /\ mutex = t
  BY <1>1, <1>2, <1>8 DEF InMutex, Broadcasts, ServerInv, MutexInv
<1>10. \A s \in Slots : slot'[s].lock = t => HoldsPing(t, s)'
  <2>1. ASSUME NEW s \in Slots, slot'[s].lock = t
        PROVE  t[1] = "user" /\ on[t] = s
    BY <1>6, <2>1 DEF ServerInv, LockInv, HoldsPing
  <2>2. QED
    BY <1>1, <1>2, <2>1 DEF HoldsPing
<1>11. \A s \in Slots, r \in Threads \ {t} : slot'[s].lock = r => slot[s].lock = r
  BY <1>6
<1>12. /\ t[1] = "user" => /\ pc'[t] = "all" => Broadcasts(t)'
                           /\ pc'[t] = "lookup" => call'[t[2]].name # "none"
       /\ t[1] # "user" => pc[t] # "none" /\ pc'[t] # "none" /\ on'[t] = on[t]
       /\ pc'[t] = "destroy" => slot'[on'[t]].sock = NoSock
       /\ pc'[t] \notin {"none", "lookup", "all"} => on'[t] \in Slots
       /\ \A s \in Slots : slot'[s].id = slot[s].id /\ slot'[s].sock \in {slot[s].sock, NoSock}
  BY <1>1, <1>2, <1>6
<1>13. /\ mutex' = IF InMutex(t)' THEN t ELSE IF InMutex(t) THEN Nobody ELSE mutex
       /\ InMutex(t)' => InMutex(t) \/ mutex = Nobody
  BY <1>1, <1>9
<1>14. QED
  BY <1>1, <1>7, <1>8, <1>10, <1>11, <1>12, <1>13, OneStep

-----------------------------------------------------------------------------
(* The application. *)

Calls == [name : CallNames \cup {"none"}, id : Ids]
Casts(k) == k.name \in {"ping", "broadcast"} /\ k.id = None
Inside == {"deliver", "send", "ping", "lockping", "pinging", "shut", "clear", "unlock"}

LEMMA UserStep ==
  ASSUME ServerInv, NEW u \in Users, NEW step \in Steps, NEW s \in Slots \cup {NoSlot}, NEW k \in Calls,
         pc' = [pc EXCEPT ![User(u)] = step],
         on' = [on EXCEPT ![User(u)] = s],
         call' = [call EXCEPT ![u] = k],
         left' \in Scenario, fresh' = fresh, slot' \in [Slots -> SlotRec],
         \A r \in Slots : slot'[r].id = slot[r].id /\ slot'[r].sock = slot[r].sock,
         \A r \in Slots, q \in Threads \ {User(u)} : slot'[r].lock = q => slot[r].lock = q,
         \A r \in Slots : slot'[r].lock = User(u) => r = s /\ step \in {"pinging", "shut", "unlock"},
         step \notin {"none", "lookup", "all"} => s \in Slots,
         step # "destroy", step = "all" => Casts(k), step = "lookup" => k.name # "none",
         mutex' = IF Casts(k) /\ step \in Inside THEN User(u)
                  ELSE IF InMutex(User(u)) THEN Nobody ELSE mutex,
         Casts(k) /\ step \in Inside => InMutex(User(u)) \/ mutex = Nobody
  PROVE  ServerInv'
<1> DEFINE t == User(u)
<1>1. t \in Threads /\ t[1] = "user" /\ t[2] = u /\ \A v \in Users : User(v) # t => v # u
  BY ThreadKinds
<1>2. ServerTypes
  BY DEF ServerInv
<1>3. /\ pc' \in [Threads -> Steps] /\ pc'[t] = step
      /\ on' \in [Threads -> Slots \cup {NoSlot}] /\ on'[t] = s
      /\ call' \in [Users -> Calls] /\ call'[u] = k
      /\ \A r \in Threads \ {t} : pc'[r] = pc[r] /\ on'[r] = on[r]
      /\ \A v \in Users : User(v) # t => call'[v] = call[v]
  BY <1>1, <1>2 DEF ServerTypes, Calls
<1>4. Broadcasts(t)' <=> Casts(k)
  BY <1>1, <1>3 DEF Broadcasts, Casts
<1> HIDE DEF t
<1>5. InMutex(t)' <=> Casts(k) /\ step \in Inside
  BY <1>3, <1>4 DEF InMutex, Inside
<1>6. ServerTypes'
  <2>1. mutex' \in Threads \cup {Nobody}
    BY <1>1, <1>2 DEF ServerTypes, t
  <2>2. QED
    BY <1>2, <1>3, <2>1 DEF ServerTypes, Calls
<1>7. \A r \in Slots : slot'[r].lock = t => HoldsPing(t, r)'
  BY <1>1, <1>3 DEF HoldsPing, t
<1>8. /\ mutex' = IF InMutex(t)' THEN t ELSE IF InMutex(t) THEN Nobody ELSE mutex
      /\ InMutex(t)' => InMutex(t) \/ mutex = Nobody
  BY <1>5 DEF t
<1>9. /\ \A r \in Slots : slot'[r].id = slot[r].id /\ slot'[r].sock \in {slot[r].sock, NoSock}
      /\ \A r \in Slots, q \in Threads \ {t} : slot'[r].lock = q => slot[r].lock = q
      /\ pc'[t] \notin {"none", "lookup", "all"} => on'[t] \in Slots
      /\ t[1] = "user" => /\ pc'[t] = "all" => Broadcasts(t)'
                          /\ pc'[t] = "lookup" => call'[t[2]].name # "none"
      /\ t[1] # "user" => pc[t] # "none" /\ pc'[t] # "none" /\ on'[t] = on[t]
      /\ pc'[t] = "destroy" => slot'[on'[t]].sock = NoSock
  BY <1>1, <1>3, <1>4 DEF t
<1>10. QED
  BY <1>1, <1>3, <1>6, <1>7, <1>8, <1>9, OneStep

\* What a thread of the application knows of itself.
LEMMA UserFacts ==
  ASSUME ServerInv, NEW u \in Users
  PROVE  /\ User(u) \in Threads /\ ServerTypes
         /\ pc[User(u)] \in Steps /\ call[u] \in Calls /\ Spot(u) \in Slots \cup {NoSlot}
         /\ pc[User(u)] \notin {"none", "gone", "lookup", "all"} => Spot(u) \in Slots
         /\ Broadcasts(User(u)) <=> Casts(call[u])
         /\ InMutex(User(u)) <=> pc[User(u)] = "destroy" \/ (Casts(call[u]) /\ pc[User(u)] \in Inside)
         /\ mutex = User(u) <=> InMutex(User(u))
         /\ on = [on EXCEPT ![User(u)] = Spot(u)] /\ call = [call EXCEPT ![u] = call[u]]
         /\ \A s \in Slots : slot[s].lock = User(u) => HoldsPing(User(u), s)
         /\ left \in Scenario /\ slot \in [Slots -> SlotRec]
<1>1. User(u) \in Threads /\ User(u)[1] = "user" /\ User(u)[2] = u
  BY ThreadKinds
<1>2. ServerTypes /\ left \in Scenario /\ slot \in [Slots -> SlotRec]
  BY DEF ServerInv, ServerTypes
<1>3. /\ pc[User(u)] \in Steps /\ call[u] \in Calls /\ Spot(u) \in Slots \cup {NoSlot}
      /\ on = [on EXCEPT ![User(u)] = Spot(u)] /\ call = [call EXCEPT ![u] = call[u]]
  <2>1. pc[User(u)] \in Steps /\ call[u] \in Calls /\ Spot(u) \in Slots \cup {NoSlot}
    BY <1>1, <1>2 DEF ServerTypes, Calls, Spot
  <2>2. on = [on EXCEPT ![User(u)] = on[User(u)]] /\ call = [call EXCEPT ![u] = call[u]]
    BY <1>2, Zenon DEF ServerTypes
  <2>3. QED
    BY <2>1, <2>2 DEF Spot
<1>4. Broadcasts(User(u)) <=> Casts(call[u])
  BY <1>1 DEF Broadcasts, Casts
<1>5. InMutex(User(u)) <=> pc[User(u)] = "destroy" \/ (Casts(call[u]) /\ pc[User(u)] \in Inside)
  BY <1>4 DEF InMutex, Inside
<1>6. /\ pc[User(u)] \notin {"none", "gone", "lookup", "all"} => Spot(u) \in Slots
      /\ mutex = User(u) <=> InMutex(User(u))
      /\ \A s \in Slots : slot[s].lock = User(u) => HoldsPing(User(u), s)
  BY <1>1 DEF ServerInv, Located, MutexInv, LockInv, Spot
<1>7. QED
  BY <1>1, <1>2, <1>3, <1>4, <1>5, <1>6

\* A step that touches no slot, of a thread that holds no mtx_ping.
LEMMA PlainStep ==
  ASSUME ServerInv, NEW u \in Users, NEW step \in Steps, NEW s \in Slots \cup {NoSlot}, NEW k \in Calls,
         pc[User(u)] \notin {"pinging", "shut", "clear", "destroy", "unlock"},
         pc' = [pc EXCEPT ![User(u)] = step],
         on' = [on EXCEPT ![User(u)] = s],
         call' = [call EXCEPT ![u] = k],
         left' \in Scenario, UNCHANGED <<fresh, slot>>,
         step \notin {"none", "lookup", "all"} => s \in Slots,
         step # "destroy", step = "all" => Casts(k), step = "lookup" => k.name # "none",
         mutex' = IF Casts(k) /\ step \in Inside THEN User(u)
                  ELSE IF InMutex(User(u)) THEN Nobody ELSE mutex,
         Casts(k) /\ step \in Inside => InMutex(User(u)) \/ mutex = Nobody
  PROVE  ServerInv'
<1>1. /\ slot' \in [Slots -> SlotRec] /\ fresh' = fresh
      /\ \A r \in Slots : slot'[r].id = slot[r].id /\ slot'[r].sock = slot[r].sock
      /\ \A r \in Slots, q \in Threads \ {User(u)} : slot'[r].lock = q => slot[r].lock = q
  BY UserFacts
<1>2. \A r \in Slots : slot'[r].lock # User(u)
  BY UserFacts DEF HoldsPing
<1>3. QED
  BY <1>1, <1>2, UserStep

LEMMA CallInv ==
  ASSUME ServerInv, NEW u \in Users, Call(u)
  PROVE  ServerInv'
<1>1. PICK name \in left.names, id \in Ids :
        /\ id # None => name # "broadcast"
        /\ call' = [call EXCEPT ![u] = [name |-> name, id |-> id]]
        /\ pc' = [pc EXCEPT ![User(u)] = IF name = "broadcast" THEN "all" ELSE "lookup"]
  BY DEF Call, Goto, Ids
<1>2. /\ pc[User(u)] = "none" /\ left.calls > 0 /\ left' = [left EXCEPT !.calls = left.calls - 1]
      /\ UNCHANGED <<slot, fresh, mutex, on>>
  BY DEF Call, InCall
<1> DEFINE k == [name |-> name, id |-> id]
           step == IF name = "broadcast" THEN "all" ELSE "lookup"
<1>3. name \in CallNames /\ left' \in Scenario
  BY <1>2, UserFacts DEF Scenario
<1>4. k \in Calls /\ k.name = name /\ k.id = id
  BY <1>3 DEF Calls
<1>5. /\ step \in Steps /\ step \in {"all", "lookup"} /\ step \notin Inside
      /\ step = "all" => Casts(k)
      /\ step = "lookup" => k.name # "none"
  BY <1>1, <1>3, <1>4 DEF Steps, Inside, Casts, CallNames
<1>6. ~InMutex(User(u)) /\ on' = [on EXCEPT ![User(u)] = Spot(u)] /\ Spot(u) \in Slots \cup {NoSlot}
  BY <1>2, UserFacts DEF Inside
<1> HIDE DEF k, step
<1>7. call' = [call EXCEPT ![u] = k] /\ pc' = [pc EXCEPT ![User(u)] = step]
  BY <1>1 DEF k, step
<1>8. QED
  BY <1>2, <1>3, <1>4, <1>5, <1>6, <1>7, PlainStep

\* The call ends.
LEMMA ReturnsInv ==
  ASSUME ServerInv, NEW u \in Users, Returns(u), UNCHANGED <<left, fresh, slot>>,
         pc[User(u)] \notin {"pinging", "shut", "clear", "destroy", "unlock"},
         mutex' = IF InMutex(User(u)) THEN Nobody ELSE mutex
  PROVE  ServerInv'
<1>1. Idle \in Calls /\ ~Casts(Idle) /\ "none" \in Steps
  BY DEF Idle, Calls, Ids, Casts, Steps
<1>2. /\ pc' = [pc EXCEPT ![User(u)] = "none"]
      /\ on' = [on EXCEPT ![User(u)] = NoSlot] /\ call' = [call EXCEPT ![u] = Idle]
  BY DEF Returns, Goto
<1>3. left' \in Scenario
  BY UserFacts
<1>4. QED
  BY <1>1, <1>2, <1>3, PlainStep

LEMMA LookupInv ==
  ASSUME ServerInv, NEW u \in Users, Lookup(u)
  PROVE  ServerInv'
<1> DEFINE s == SlotOf(call[u].id)
<1>1. /\ pc[User(u)] = "lookup" /\ UNCHANGED <<left, slot, fresh, mutex>>
  BY DEF Lookup, InCall
<1>2. ~InMutex(User(u)) /\ left' \in Scenario /\ call[u] \in Calls
  BY <1>1, UserFacts DEF Inside
<1>3. call[u].name \in CallNames
  BY <1>1, <1>2 DEF ServerInv, AllInv, InCall, Calls
<1>4. s # NoSlot => s \in Slots /\ call[u].id # None
  BY SlotOfId DEF ServerInv
<1>5. CASE call[u].name \in {"close", "send"} /\ s # NoSlot /\ Valid(s)
  <2>1. /\ on' = [on EXCEPT ![User(u)] = s] /\ call' = [call EXCEPT ![u] = call[u]]
        /\ \/ pc' = [pc EXCEPT ![User(u)] = "goodbye"]
           \/ pc' = [pc EXCEPT ![User(u)] = "send"]
    BY <1>5, UserFacts DEF Lookup, Goto, GotoWith
  <2>2. ~Casts(call[u]) /\ "goodbye" \in Steps /\ "send" \in Steps
    BY <1>5 DEF Casts, Steps
  <2> HIDE DEF s
  <2>3. /\ pc[User(u)] \notin {"pinging", "shut", "clear", "destroy", "unlock"} /\ UNCHANGED <<fresh, slot>>
        /\ mutex' = IF InMutex(User(u)) THEN Nobody ELSE mutex
    BY <1>1, <1>2
  <2>4. PICK step \in {"goodbye", "send"} : pc' = [pc EXCEPT ![User(u)] = step]
    BY <2>1
  <2>5. s \in Slots
    BY <1>4, <1>5
  <2>6. QED
    BY <1>2, <2>1, <2>2, <2>3, <2>4, <2>5, PlainStep
<1>6. CASE call[u].name \in {"close", "send"} /\ ~(s # NoSlot /\ Valid(s))
  <2>1. Returns(u)
    BY <1>6 DEF Lookup
  <2>2. QED
    BY <1>1, <1>2, <2>1, ReturnsInv
<1>7. CASE call[u].name \notin {"close", "send"} /\ s = NoSlot
  <2> DEFINE k == [call[u] EXCEPT !.id = None]
  <2>1. /\ pc' = [pc EXCEPT ![User(u)] = "all"] /\ on' = [on EXCEPT ![User(u)] = NoSlot]
        /\ call' = [call EXCEPT ![u] = k]
    BY <1>7 DEF Lookup, Goto
  <2>2. k \in Calls /\ Casts(k) /\ "all" \in Steps /\ "all" \notin Inside
    BY <1>2, <1>3, <1>7 DEF Calls, Casts, Steps, Ids, CallNames, Inside
  <2> HIDE DEF k
  <2>3. QED
    BY <1>1, <1>2, <2>1, <2>2, PlainStep
<1>8. CASE call[u].name \notin {"close", "send"} /\ s # NoSlot
  <2>1. /\ pc' = [pc EXCEPT ![User(u)] = "ping"] /\ on' = [on EXCEPT ![User(u)] = s]
        /\ call' = [call EXCEPT ![u] = call[u]]
    <3>1. call' = [call EXCEPT ![u].id = call[u].id]
      BY <1>8 DEF Lookup
    <3>2. call' = call
      BY <1>2, <3>1 DEF ServerInv, ServerTypes, Calls
    <3>3. QED
      BY <1>8, <3>2, UserFacts DEF Lookup, Goto
  <2>2. ~Casts(call[u]) /\ "ping" \in Steps
    BY <1>4, <1>8 DEF Casts, Steps
  <2> HIDE DEF s
  <2>3. QED
    BY <1>1, <1>2, <1>4, <1>8, <2>1, <2>2, PlainStep
<1>9. QED
  BY <1>5, <1>6, <1>7, <1>8

LEMMA GoodbyeInv ==
  ASSUME ServerInv, NEW u \in Users, Goodbye(u) \/ SayBye(u)
  PROVE  ServerInv'
<1>1. pc[User(u)] \in {"goodbye", "saybye"} /\ UNCHANGED <<left, slot, fresh, mutex>>
  BY DEF Goodbye, SayBye, InCall
<1>2. ~InMutex(User(u)) /\ left' \in Scenario /\ call[u] \in Calls /\ Spot(u) \in Slots
  BY <1>1, UserFacts DEF Inside
<1>3. CASE Returns(u)
  BY <1>1, <1>2, <1>3, ReturnsInv
<1>4. ASSUME NEW step \in {"saybye", "start"},
             pc' = [pc EXCEPT ![User(u)] = step] /\ UNCHANGED <<on, call>>
      PROVE  ServerInv'
  <2>1. on' = [on EXCEPT ![User(u)] = Spot(u)] /\ call' = [call EXCEPT ![u] = call[u]]
    BY <1>4, UserFacts
  <2>2. step \in Steps /\ step \notin Inside /\ step \notin {"none", "lookup", "all", "destroy"}
    BY DEF Steps, Inside
  <2>3. mutex' = mutex /\ UNCHANGED <<fresh, slot>> /\ pc' = [pc EXCEPT ![User(u)] = step]
    BY <1>1, <1>4
  <2>4. QED
    BY <1>1, <1>2, <2>1, <2>2, <2>3, PlainStep
<1>5. \/ Returns(u)
      \/ \E step \in {"saybye", "start"} : pc' = [pc EXCEPT ![User(u)] = step] /\ UNCHANGED <<on, call>>
  BY Zenon DEF Goodbye, SayBye, Goto, GotoWith
<1>6. QED
  BY <1>3, <1>4, <1>5

LEMMA ToAllInv ==
  ASSUME ServerInv, NEW u \in Users, ToAll(u)
  PROVE  ServerInv'
<1> DEFINE s == CHOOSE x \in Slots : \A r \in Slots : x =< r
           step == IF call[u].name = "broadcast" THEN "deliver" ELSE "ping"
<1>1. /\ pc[User(u)] = "all" /\ UNCHANGED <<left, slot, fresh, call>> /\ mutex = Nobody /\ mutex' = User(u)
      /\ on' = [on EXCEPT ![User(u)] = s] /\ pc' = [pc EXCEPT ![User(u)] = step]
  BY DEF ToAll, InCall, Goto, Each
<1>2. s \in Slots
  BY LeastNumber, WsServerAssumption
<1>3. step \in Steps /\ step \in Inside /\ step \in {"deliver", "ping"}
  BY DEF Steps, Inside
<1>4. /\ Casts(call[u]) /\ call[u] \in Calls /\ left' \in Scenario
      /\ call' = [call EXCEPT ![u] = call[u]]
  BY <1>1, UserFacts DEF ServerInv, AllInv, InCall
<1> HIDE DEF s, step
<1>5. QED
  BY <1>1, <1>2, <1>3, <1>4, PlainStep

\* The next client, or the end of the call, when no mtx_ping is held any more.
LEMMA NextSlotInv ==
  ASSUME ServerInv, NEW u \in Users, NextSlot(u), pc[User(u)] \in {"deliver", "send", "ping", "unlock"},
         UNCHANGED <<left, fresh>>, slot' \in [Slots -> SlotRec],
         \A r \in Slots : slot'[r].id = slot[r].id /\ slot'[r].sock = slot[r].sock,
         \A r \in Slots, q \in Threads \ {User(u)} : slot'[r].lock = q => slot[r].lock = q,
         \A r \in Slots : slot'[r].lock # User(u)
  PROVE  ServerInv'
<1> DEFINE later == {s \in Slots : s > Spot(u)}
           s == CHOOSE x \in later : \A r \in later : x =< r
           step == IF call[u].name = "broadcast" THEN "deliver" ELSE "ping"
<1>1. /\ call[u] \in Calls /\ left' \in Scenario
      /\ InMutex(User(u)) <=> Casts(call[u])
      /\ mutex = User(u) <=> InMutex(User(u))
      /\ Broadcasts(User(u)) <=> Casts(call[u])
  BY UserFacts DEF Inside
<1>2. CASE Casts(call[u]) /\ later # {}
  <2>1. /\ on' = [on EXCEPT ![User(u)] = s] /\ pc' = [pc EXCEPT ![User(u)] = step]
        /\ call' = [call EXCEPT ![u] = call[u]] /\ mutex' = User(u)
    BY <1>1, <1>2, UserFacts DEF NextSlot, Goto, Each
  <2>2. s \in Slots
    <3>1. later \in SUBSET Nat
      BY WsServerAssumption
    <3>2. s \in later
      BY <1>2, <3>1, LeastNumber
    <3>3. QED
      BY <3>2
  <2>3. step \in Steps /\ step \in Inside /\ step \in {"deliver", "ping"}
    BY DEF Steps, Inside
  <2> HIDE DEF s, step
  <2>4. QED
    BY <1>1, <1>2, <2>1, <2>2, <2>3, UserStep
<1>3. CASE ~(Casts(call[u]) /\ later # {})
  <2>1. /\ pc' = [pc EXCEPT ![User(u)] = "none"] /\ on' = [on EXCEPT ![User(u)] = NoSlot]
        /\ call' = [call EXCEPT ![u] = Idle]
        /\ mutex' = IF InMutex(User(u)) THEN Nobody ELSE mutex
    BY <1>1, <1>3 DEF NextSlot, Returns, Goto
  <2>2. Idle \in Calls /\ ~Casts(Idle) /\ "none" \in Steps
    BY DEF Idle, Calls, Ids, Casts, Steps
  <2>3. QED
    BY <1>1, <2>1, <2>2, UserStep
<1>4. QED
  BY <1>2, <1>3

LEMMA ServedInv ==
  ASSUME ServerInv, NEW u \in Users, NextSlot(u), pc[User(u)] \in {"deliver", "send", "ping"},
         UNCHANGED <<left, slot, fresh>>
  PROVE  ServerInv'
<1>1. \A r \in Slots : slot'[r].lock # User(u)
  BY UserFacts DEF HoldsPing
<1>2. slot' \in [Slots -> SlotRec]
  BY UserFacts
<1>3. QED
  BY <1>1, <1>2, NextSlotInv

\* A thread goes on inside its call, or its broadcast.
LEMMA GoesOnInv ==
  ASSUME ServerInv, NEW u \in Users, pc[User(u)] \in {"deliver", "ping"},
         NEW step \in {"send", "lockping"}, pc' = [pc EXCEPT ![User(u)] = step],
         UNCHANGED <<left, slot, fresh, mutex, on, call>>
  PROVE  ServerInv'
<1>1. PICK s \in Slots, k \in Calls, p \in Steps : s = Spot(u) /\ k = call[u] /\ p = step
  BY UserFacts DEF Steps
<1>2. on' = [on EXCEPT ![User(u)] = s] /\ call' = [call EXCEPT ![u] = k] /\ pc' = [pc EXCEPT ![User(u)] = p]
  BY <1>1, UserFacts
<1>3. p \in Inside /\ p \notin {"none", "lookup", "all", "destroy"}
  BY <1>1 DEF Inside
<1>4. /\ left' \in Scenario /\ pc[User(u)] \notin {"pinging", "shut", "clear", "destroy", "unlock"}
      /\ InMutex(User(u)) <=> Casts(k)
      /\ mutex = User(u) <=> InMutex(User(u))
  BY <1>1, UserFacts DEF Inside
<1>5. mutex' = (IF Casts(k) THEN User(u) ELSE IF InMutex(User(u)) THEN Nobody ELSE mutex) /\ UNCHANGED <<fresh, slot>>
  BY <1>4
<1>6. QED
  BY ONLY ServerInv, u \in Users, <1>1, <1>2, <1>3, <1>4, <1>5, PlainStep

LEMMA DeliverInv ==
  ASSUME ServerInv, NEW u \in Users, Deliver(u)
  PROVE  ServerInv'
<1>1. pc[User(u)] = "deliver" /\ UNCHANGED <<left, slot, fresh>>
  BY DEF Deliver, InCall
<1>2. CASE pc' = [pc EXCEPT ![User(u)] = "send"] /\ UNCHANGED <<mutex, on, call>>
  BY <1>1, <1>2, GoesOnInv
<1>3. CASE NextSlot(u)
  BY <1>1, <1>3, ServedInv
<1>4. QED
  BY <1>2, <1>3 DEF Deliver, GotoWith

LEMMA SendInv ==
  ASSUME ServerInv, NEW u \in Users, Send(u)
  PROVE  ServerInv'
<1>1. pc[User(u)] = "send" /\ UNCHANGED <<left, slot, fresh>>
  BY DEF Send, InCall
<1>2. CASE mutex' = (IF Broadcasts(User(u)) THEN Nobody ELSE mutex) /\ Returns(u)
  <2>1. InMutex(User(u)) <=> Broadcasts(User(u))
    BY <1>1, UserFacts DEF Inside
  <2>2. QED
    BY <1>1, <1>2, <2>1, ReturnsInv
<1>3. CASE NextSlot(u)
  BY <1>1, <1>3, ServedInv
<1>4. QED
  BY <1>2, <1>3 DEF Send

LEMMA PingInv ==
  ASSUME ServerInv, NEW u \in Users, Ping(u)
  PROVE  ServerInv'
<1>1. pc[User(u)] = "ping" /\ UNCHANGED <<left, slot, fresh>>
  BY DEF Ping, InCall
<1>2. CASE pc' = [pc EXCEPT ![User(u)] = "lockping"] /\ UNCHANGED <<mutex, on, call>>
  BY <1>1, <1>2, GoesOnInv
<1>3. CASE NextSlot(u)
  BY <1>1, <1>3, ServedInv
<1>4. QED
  BY <1>2, <1>3 DEF Ping, Goto

\* A thread takes a mtx_ping, or goes on with it, in the one slot it works on.
LEMMA HoldingInv ==
  ASSUME ServerInv, NEW u \in Users, pc[User(u)] \in {"lockping", "pinging"},
         NEW step \in {"pinging", "shut", "unlock"}, pc' = [pc EXCEPT ![User(u)] = step],
         UNCHANGED <<left, fresh, mutex, on, call>>,
         NEW x \in SlotRec, slot' = [slot EXCEPT ![Spot(u)] = x],
         x.id = slot[Spot(u)].id, x.sock = slot[Spot(u)].sock,
         x.lock \in {slot[Spot(u)].lock, User(u)}
  PROVE  ServerInv'
<1>1. /\ Spot(u) \in Slots /\ slot \in [Slots -> SlotRec] /\ User(u) \in Threads
      /\ call[u] \in Calls /\ left' \in Scenario
      /\ InMutex(User(u)) <=> Casts(call[u])
      /\ mutex = User(u) <=> InMutex(User(u))
      /\ on' = [on EXCEPT ![User(u)] = Spot(u)] /\ call' = [call EXCEPT ![u] = call[u]]
      /\ \A q \in Slots : slot[q].lock = User(u) => q = Spot(u)
  BY UserFacts DEF Inside, HoldsPing, Spot
<1>2. PICK s \in Slots : s = Spot(u)
  BY <1>1
<1>3. /\ slot' \in [Slots -> SlotRec]
      /\ \A q \in Slots : /\ slot'[q].id = slot[q].id /\ slot'[q].sock = slot[q].sock
                          /\ slot'[q].lock = User(u) => q = s
                          /\ \A v \in Threads \ {User(u)} : slot'[q].lock = v => slot[q].lock = v
  BY <1>1, <1>2
<1>4. step \in Steps /\ step \in Inside /\ step \notin {"none", "lookup", "all", "destroy"}
  BY DEF Steps, Inside
<1>5. /\ mutex' = IF Casts(call[u]) /\ step \in Inside THEN User(u)
                  ELSE IF InMutex(User(u)) THEN Nobody ELSE mutex
      /\ Casts(call[u]) /\ step \in Inside => InMutex(User(u)) \/ mutex = Nobody
      /\ fresh' = fresh /\ on' = [on EXCEPT ![User(u)] = s] /\ s \in Slots \cup {NoSlot}
      /\ \A q \in Slots : slot'[q].lock = User(u) => q = s /\ step \in {"pinging", "shut", "unlock"}
  BY <1>1, <1>2, <1>3, <1>4
<1>6. /\ \A q \in Slots : slot'[q].id = slot[q].id /\ slot'[q].sock = slot[q].sock
      /\ \A q \in Slots, v \in Threads \ {User(u)} : slot'[q].lock = v => slot[q].lock = v
      /\ step \notin {"none", "lookup", "all"} => s \in Slots
      /\ step # "destroy" /\ (step = "all" => Casts(call[u])) /\ (step = "lookup" => call[u].name # "none")
  BY <1>2, <1>3, <1>4
<1>7. PICK k \in Calls, p \in Steps : k = call[u] /\ p = step
  BY <1>1, <1>4
<1>8. /\ call' = [call EXCEPT ![u] = k] /\ pc' = [pc EXCEPT ![User(u)] = p] /\ left' \in Scenario
      /\ p \in Inside /\ p \notin {"none", "lookup", "all", "destroy"}
      /\ \A q \in Slots : slot'[q].lock = User(u) => q = s /\ p \in {"shut", "pinging", "unlock"}
      /\ mutex' = IF Casts(k) /\ p \in Inside THEN User(u) ELSE IF InMutex(User(u)) THEN Nobody ELSE mutex
      /\ Casts(k) /\ p \in Inside => InMutex(User(u)) \/ mutex = Nobody
  BY <1>1, <1>3, <1>4, <1>5, <1>7
<1>9. fresh' = fresh /\ on' = [on EXCEPT ![User(u)] = s] /\ slot' \in [Slots -> SlotRec]
  BY <1>3, <1>5
<1>10. /\ p \notin {"none", "lookup", "all"} => s \in Slots
       /\ p # "destroy" /\ (p = "all" => Casts(k)) /\ (p = "lookup" => k.name # "none")
  BY <1>8
<1>11. \A q \in Slots : slot'[q].lock = User(u) => q = s /\ p \in {"pinging", "shut", "unlock"}
  BY <1>8
<1>12. s \in Slots \cup {NoSlot}
  OBVIOUS
<1>13. QED
  BY ONLY ServerInv, u \in Users, <1>6, <1>8, <1>9, <1>10, <1>11, <1>12, UserStep

LEMMA LockPingInv ==
  ASSUME ServerInv, NEW u \in Users, LockPing(u)
  PROVE  ServerInv'
<1> DEFINE s == Spot(u)
           lock == IF slot[s].lock = Nobody THEN User(u) ELSE slot[s].lock
           sent == [slot[s] EXCEPT !.ping = slot[s].ping + 1]
           x == [sent EXCEPT !.lock = lock]
<1>1. /\ pc[User(u)] = "lockping" /\ UNCHANGED <<left, fresh, mutex, on, call>>
      /\ slot' = [slot EXCEPT ![s] = x] /\ pc' = [pc EXCEPT ![User(u)] = "pinging"]
  BY DEF LockPing, InCall, GotoWith
<1>2. s \in Slots /\ slot \in [Slots -> SlotRec] /\ slot[s] \in SlotRec /\ User(u) \in Threads
  BY <1>1, UserFacts
<1>3. lock \in {slot[s].lock, User(u)} /\ lock \in Threads \cup {Nobody, Destroyed}
  BY <1>2 DEF SlotRec
<1> HIDE DEF lock
<1>4. x \in SlotRec /\ x.id = slot[s].id /\ x.sock = slot[s].sock /\ x.lock = lock
  <2>1. slot[s].ping + 1 \in Int
    BY <1>2 DEF SlotRec
  <2>2. sent \in SlotRec /\ sent.id = slot[s].id /\ sent.sock = slot[s].sock
    BY <1>2, <2>1, SlotFields
  <2> HIDE DEF sent
  <2>3. QED
    BY <1>3, <2>2, SlotFields
<1> HIDE DEF x
<1>5. QED
  BY <1>1, <1>3, <1>4, HoldingInv

LEMMA PingingInv ==
  ASSUME ServerInv, NEW u \in Users, Pinging(u)
  PROVE  ServerInv'
<1>1. pc[User(u)] = "pinging" /\ UNCHANGED <<left, fresh, mutex, on, call>>
  BY DEF Pinging, InCall
<1>2. Spot(u) \in Slots /\ slot \in [Slots -> SlotRec] /\ slot[Spot(u)] \in SlotRec /\ User(u)[1] = "user"
  BY <1>1, UserFacts, ThreadKinds
<1> DEFINE x == [slot[Spot(u)] EXCEPT !.state = "closed"]
<1>3. x \in SlotRec /\ x.id = slot[Spot(u)].id /\ x.sock = slot[Spot(u)].sock /\ x.lock = slot[Spot(u)].lock
  <2>1. "closed" \in States
    BY DEF States
  <2>2. QED
    BY <1>2, <2>1, SlotFields
<1>4. \/ slot' = [slot EXCEPT ![Spot(u)] = x] /\ pc' = [pc EXCEPT ![User(u)] = "shut"]
      \/ slot' = slot /\ pc' = [pc EXCEPT ![User(u)] = "unlock"]
  BY <1>2 DEF Pinging, CloseBegin, After, Goto, GotoWith
<1> HIDE DEF x
<1>5. CASE slot' = [slot EXCEPT ![Spot(u)] = x] /\ pc' = [pc EXCEPT ![User(u)] = "shut"]
  BY <1>1, <1>3, <1>5, HoldingInv
<1>6. CASE slot' = slot /\ pc' = [pc EXCEPT ![User(u)] = "unlock"]
  <2>1. slot' = [slot EXCEPT ![Spot(u)] = slot[Spot(u)]]
    BY <1>2, <1>6
  <2>2. QED
    BY <1>1, <1>2, <1>6, <2>1, HoldingInv
<1>7. QED
  BY <1>4, <1>5, <1>6

LEMMA UnlockPingInv ==
  ASSUME ServerInv, NEW u \in Users, UnlockPing(u)
  PROVE  ServerInv'
<1> DEFINE s == Spot(u)
           lock == IF slot[s].lock = Destroyed THEN Destroyed ELSE Nobody
           x == [slot[s] EXCEPT !.lock = lock]
<1>1. /\ pc[User(u)] = "unlock" /\ UNCHANGED <<left, fresh>> /\ NextSlot(u)
      /\ slot' = [slot EXCEPT ![s] = x]
  BY DEF UnlockPing, InCall
<1>2. s \in Slots /\ slot \in [Slots -> SlotRec] /\ slot[s] \in SlotRec /\ User(u) \in Threads
  BY <1>1, UserFacts
<1>3. lock \in {Nobody, Destroyed}
  OBVIOUS
<1> HIDE DEF lock
<1>4. x \in SlotRec /\ x.id = slot[s].id /\ x.sock = slot[s].sock /\ x.lock = lock
  BY <1>2, <1>3, SlotFields
<1> HIDE DEF x
<1>5. /\ slot' \in [Slots -> SlotRec]
      /\ \A q \in Slots : /\ slot'[q].id = slot[q].id /\ slot'[q].sock = slot[q].sock
                          /\ slot'[q].lock = IF q = s THEN lock ELSE slot[q].lock
  BY <1>1, <1>2, <1>4
<1>6. \A q \in Slots : slot[q].lock = User(u) => q = s
  BY UserFacts DEF HoldsPing, Spot
<1>7. /\ \A q \in Slots : slot'[q].lock # User(u)
      /\ \A q \in Slots, v \in Threads \ {User(u)} : slot'[q].lock = v => slot[q].lock = v
  BY <1>2, <1>3, <1>5, <1>6, ThreadKinds
<1>8. QED
  BY <1>1, <1>5, <1>7, NextSlotInv

\* A timer is started over none that holds the mutex: the slot has a client.
LEMMA StartInv ==
  ASSUME ServerInv, NEW u \in Users, StartCloseTimeout(u)
  PROVE  ServerInv'
<1> DEFINE s == Spot(u)
           c == slot[s].id
           x == [slot[s] EXCEPT !.state = "closing", !.close_thrd = TRUE, !.timer = c]
<1>1. /\ pc[User(u)] = "start" /\ UNCHANGED <<left, fresh, mutex>>
  BY DEF StartCloseTimeout, InCall
<1>2. ~InMutex(User(u)) /\ s \in Slots /\ ServerTypes /\ slot[s] \in SlotRec /\ User(u) \in Threads
  BY <1>1, UserFacts DEF Inside
<1>3. CASE State(s) # "open"
  <2>1. Returns(u) /\ UNCHANGED slot
    BY <1>3 DEF StartCloseTimeout
  <2>2. QED
    BY <1>1, <1>2, <2>1, ReturnsInv
<1>4. CASE State(s) = "open"
  <2> DEFINE timer == <<"timer", c>>
  <2>0. PICK t : t = timer
    OBVIOUS
  <2>1. /\ slot' = [slot EXCEPT ![s] = x]
        /\ pc' = [pc EXCEPT ![t] = "wait", ![User(u)] = "none"]
        /\ on' = [on EXCEPT ![t] = s, ![User(u)] = NoSlot]
        /\ call' = [call EXCEPT ![u] = Idle]
    BY <1>4, <2>0 DEF StartCloseTimeout
  <2>2. slot[s].sock # NoSock /\ c \in Conns /\ ~At(c, "none")
    <3>1. slot[s].sock # NoSock
      BY <1>4 DEF State, Valid
    <3>2. c # None /\ ~At(c, "none")
      BY <1>2, <3>1 DEF ServerInv, IdInv, At
    <3>3. c \in Ids
      BY <1>2 DEF SlotRec
    <3>4. QED
      BY <3>1, <3>2, <3>3 DEF Ids
  <2>3. t \in Threads /\ t[1] = "timer" /\ User(u) # t
        /\ \A d \in Conns : <<"timer", d>> = t => d = c
    BY <2>0, <2>2, ThreadKinds
  <2>4. x \in SlotRec /\ x.id = slot[s].id /\ x.sock = slot[s].sock /\ x.lock = slot[s].lock
    BY <1>2, <2>2 DEF SlotRec, States, Ids
  <2>5. pc[t] # "destroy"
    <3>1. SUFFICES ASSUME pc[t] = "destroy" PROVE FALSE
      OBVIOUS
    <3>2. s = on[t]
      BY <1>2, <2>0, <2>2, <3>1 DEF ServerInv, TimerInv
    <3>3. slot[on[t]].sock = NoSock
      BY <2>3, <3>1 DEF ServerInv, DestroyInv
    <3>4. QED
      BY <2>2, <3>2, <3>3
  <2> HIDE DEF x
  <2>6. /\ slot' \in [Slots -> SlotRec]
        /\ \A q \in Slots : /\ slot'[q].id = slot[q].id /\ slot'[q].sock = slot[q].sock
                            /\ slot'[q].lock = slot[q].lock
    BY <1>2, <2>1, <2>4 DEF ServerTypes
  <2> HIDE DEF timer, s
  <2>7. /\ pc' \in [Threads -> Steps] /\ on' \in [Threads -> Slots \cup {NoSlot}]
        /\ pc'[t] = "wait" /\ on'[t] = s /\ pc'[User(u)] = "none"
        /\ \A r \in Threads \ {t, User(u)} : pc'[r] = pc[r] /\ on'[r] = on[r]
    BY <1>2, <2>1, <2>3 DEF ServerTypes, Steps
  <2>8. call' \in [Users -> Calls] /\ \A v \in Users \ {u} : call'[v] = call[v]
    <3>1. Idle \in Calls
      BY DEF Idle, Calls, Ids
    <3>2. QED
      BY <1>2, <2>1, <3>1 DEF ServerTypes, Calls
  <2>9. \A r \in Threads \ {t, User(u)} : Broadcasts(r)' <=> Broadcasts(r)
    <3>1. ASSUME NEW r \in Threads \ {t, User(u)}, r[1] = "user"
          PROVE  call'[r[2]] = call[r[2]]
      BY <2>8, <3>1, ThreadKinds
    <3>2. QED
      BY <3>1 DEF Broadcasts
  <2>10. ServerTypes' /\ Located'
    <3>1. ServerTypes'
      BY <1>1, <1>2, <2>6, <2>7, <2>8 DEF ServerTypes, Calls
    <3>2. Located'
      BY <1>2, <2>7 DEF ServerInv, Located
    <3>3. QED
      BY <3>1, <3>2
  <2>11. MutexInv'
    <3>1. \A r \in Threads \ {t, User(u)} : InMutex(r)' <=> InMutex(r)
      BY <2>7, <2>9 DEF InMutex
    <3>2. /\ ~InMutex(t) /\ ~InMutex(t)' /\ ~InMutex(User(u))'
      BY <2>3, <2>5, <2>7 DEF InMutex, Broadcasts
    <3>3. QED
      BY <1>1, <1>2, <2>3, <3>1, <3>2 DEF ServerInv, MutexInv
  <2>12. AllInv'
    <3>1. ASSUME NEW v \in Users
          PROVE  /\ InCall(v, "all")' => Broadcasts(User(v))'
                 /\ InCall(v, "lookup")' => call'[v].name # "none"
      <4>1. CASE v = u
        BY <2>7, <4>1 DEF InCall
      <4>2. CASE v # u
        <5>1. User(v) \in Threads \ {t, User(u)}
          BY <2>3, <4>2, ThreadKinds
        <5>2. pc'[User(v)] = pc[User(v)] /\ call'[v] = call[v]
              /\ (Broadcasts(User(v))' <=> Broadcasts(User(v)))
          BY <2>7, <2>8, <2>9, <4>2, <5>1
        <5>3. QED
          BY <5>2 DEF ServerInv, AllInv, InCall
      <4>3. QED
        BY <4>1, <4>2
    <3>2. QED
      BY <3>1 DEF AllInv, InCall, User
  <2>13. LockInv'
    <3>1. ASSUME NEW q \in Slots, NEW r \in Threads, slot'[q].lock = r
          PROVE  HoldsPing(r, q)'
      <4>1. HoldsPing(r, q)
        BY <2>6, <3>1 DEF ServerInv, LockInv
      <4>2. r \in Threads \ {t, User(u)}
        BY <1>1, <2>3, <4>1 DEF HoldsPing
      <4>3. QED
        BY <2>7, <4>1, <4>2 DEF HoldsPing
    <3>2. QED
      BY <3>1 DEF LockInv
  <2>18. \A d \in Conns : At(d, "none")' <=> At(d, "none")
    <3>1. ASSUME NEW d \in Conns
          PROVE  At(d, "none")' <=> At(d, "none")
      <4>0. <<"conn", d>> \in Threads /\ <<"conn", d>>[1] = "conn"
        BY ThreadKinds
      <4>1. PICK r : r = <<"conn", d>> /\ r \in Threads /\ r[1] = "conn"
        BY <4>0
      <4>2. r \in Threads \ {t, User(u)}
        BY <1>2, <2>3, <4>1, ThreadKinds
      <4>3. pc'[r] = pc[r]
        BY <2>7, <4>2
      <4>4. QED
        BY <4>1, <4>3 DEF At
    <3>2. QED
      BY <3>1
  <2>14. IdInv' /\ FreshInv'
    <3>1. \A q \in Slots : slot[q].id \in Ids
      BY <1>2 DEF ServerTypes, SlotRec
    <3>2. ASSUME NEW q \in Slots, slot'[q].id # None
          PROVE  pc'[<<"conn", slot'[q].id>>] # "none"
      <4>1. PICK d \in Conns : d = slot[q].id /\ d = slot'[q].id
        BY <2>6, <3>1, <3>2 DEF Ids
      <4>2. ~At(d, "none")
        BY <2>6, <3>2, <4>1 DEF ServerInv, IdInv, At
      <4>3. ~At(d, "none")'
        BY <2>18, <4>2
      <4>4. QED
        BY <4>1, <4>3 DEF At
    <3>3. ASSUME NEW q \in Slots, NEW r \in Slots, slot'[q].id = slot'[r].id, slot'[q].id # None
          PROVE  q = r
      <4>1. slot[q].id = slot[r].id /\ slot[q].id # None
        BY <2>6, <3>3
      <4>2. QED
        BY <4>1 DEF ServerInv, IdInv
    <3>4. \A q \in Slots : slot'[q].sock # NoSock => slot'[q].id # None
      BY <2>6 DEF ServerInv, IdInv
    <3>5. FreshInv'
      BY <1>1, <2>18 DEF ServerInv, FreshInv, At
    <3>6. QED
      BY <3>2, <3>3, <3>4, <3>5 DEF IdInv
  <2>15. TimerInv'
    <3>1. ASSUME NEW d \in Conns, pc'[<<"timer", d>>] # "none"
          PROVE  /\ ~At(d, "none")'
                 /\ \A q \in Slots : slot'[q].id = d => q = on'[<<"timer", d>>]
      <4>1. CASE d = c
        <5>1. \A q \in Slots : slot[q].id = c => q = s
          BY <1>2, <2>2, NoSlotIsNone DEF ServerInv, IdInv
        <5>2. QED
          BY <2>0, <2>2, <2>6, <2>7, <2>18, <4>1, <5>1 DEF timer
      <4>2. CASE d # c
        <5>1. <<"timer", d>> \in Threads \ {t, User(u)}
          BY <2>3, <4>2, ThreadKinds
        <5>2. pc[<<"timer", d>>] # "none" /\ on'[<<"timer", d>>] = on[<<"timer", d>>]
          BY <2>7, <3>1, <5>1
        <5>3. QED
          BY <2>6, <2>18, <5>2 DEF ServerInv, TimerInv
      <4>3. QED
        BY <4>1, <4>2
    <3>2. QED
      BY <3>1 DEF TimerInv, At
  <2>16. DestroyInv'
    <3>1. ASSUME NEW r \in Threads, pc'[r] = "destroy"
          PROVE  slot'[on'[r]].sock = NoSock
      <4>1. r \in Threads \ {t, User(u)}
        BY <2>7, <3>1
      <4>2. /\ on'[r] = on[r] /\ on[r] \in Slots /\ slot[on[r]].sock = NoSock
        BY <2>7, <3>1, <4>1 DEF ServerInv, Located, DestroyInv
      <4>3. QED
        BY <2>6, <4>2
    <3>2. QED
      BY <3>1 DEF DestroyInv
  <2>17. QED
    BY <2>10, <2>11, <2>12, <2>13, <2>14, <2>15, <2>16 DEF ServerInv
<1>5. QED
  BY <1>3, <1>4

-----------------------------------------------------------------------------
(* A connection is accepted, and given a slot: nobody is in the mutex. *)

LEMMA AcceptInv ==
  ASSUME ServerInv, Accept
  PROVE  ServerInv'
<1>1. /\ left.conns > 0 /\ NextConns # {} /\ left' = [left EXCEPT !.conns = @ - 1]
      /\ UNCHANGED <<slot, mutex, pc, on, call>> /\ ServerTypes
  BY DEF Accept, ServerInv
<1>2. left' \in Scenario
  BY <1>1 DEF ServerTypes, Scenario
<1>0. PICK c : c = CHOOSE n \in NextConns : \A m \in NextConns : n =< m
  OBVIOUS
<1>3. PICK d \in Descriptors : fresh' = [conn |-> c, sock |-> d]
  BY <1>0 DEF Accept
<1>4. c \in Conns /\ At(c, "none")
  <2>1. NextConns \in SUBSET Nat
    BY WsServerAssumption DEF NextConns
  <2>2. c \in NextConns
    BY <1>0, <1>1, <2>1, LeastNumber
  <2>3. QED
    BY <2>2 DEF NextConns
<1>5. ServerTypes' /\ FreshInv'
  BY <1>1, <1>2, <1>3, <1>4 DEF ServerTypes, FreshInv, At, Ids, Socks
<1>6. Located' /\ MutexInv' /\ AllInv' /\ LockInv' /\ IdInv' /\ TimerInv' /\ DestroyInv'
  BY <1>1 DEF ServerInv, Located, MutexInv, InMutex, Broadcasts, AllInv, InCall, LockInv, HoldsPing,
     IdInv, TimerInv, At, DestroyInv
<1>7. QED
  BY <1>5, <1>6 DEF ServerInv

LEMMA AssignInv ==
  ASSUME ServerInv, Assign
  PROVE  ServerInv'
<1>0. PICK c : c = fresh.conn
  OBVIOUS
<1> DEFINE s == CHOOSE r \in FreeSlots : \A q \in FreeSlots : r =< q
           t == <<"conn", c>>
           x == [Unused EXCEPT !.sock = fresh.sock, !.id = c, !.state = "connecting", !.timer = slot[s].timer]
<1>1. /\ fresh # NothingFresh /\ fresh' = NothingFresh
      /\ mutex = Nobody /\ UNCHANGED <<left, mutex, call>> /\ ServerTypes
  BY DEF Assign, ServerInv
<1>2. c \in Conns /\ At(c, "none") /\ fresh.sock \in Socks
  BY <1>0, <1>1 DEF ServerInv, FreshInv, ServerTypes
<1>3. NothingFresh \in [conn : Ids, sock : Socks] /\ FreshInv'
  BY <1>1 DEF NothingFresh, Ids, Socks, FreshInv
<1>4. \A r \in Threads : ~InMutex(r) /\ pc[r] # "destroy"
  BY <1>1, ThreadKinds DEF ServerInv, MutexInv, InMutex
<1>5. /\ \A r \in Threads : Broadcasts(r)' <=> Broadcasts(r)
      /\ \A q \in Slots : slot[q].id # c
      /\ \A d \in Conns : pc[<<"timer", d>>] # "none" => d # c
  BY <1>1, <1>2, SameCalls, NoSlotIsNone DEF ServerInv, IdInv, TimerInv, At
<1>6. PICK step \in {"gone", "handshake"} : pc' = [pc EXCEPT ![t] = step]
  BY <1>0 DEF Assign, Goto
<1>7. t \in Threads /\ t[1] = "conn" /\ \A d \in Conns : <<"conn", d>> = t => d = c
  BY <1>2, ThreadKinds
<1>8. step \in Steps /\ step \notin {"none", "all", "lookup", "destroy"}
  BY DEF Steps
<1>9. \/ FreeSlots = {} /\ step = "gone" /\ UNCHANGED <<slot, on>>
      \/ /\ FreeSlots # {} /\ step = "handshake"
         /\ slot' = [slot EXCEPT ![s] = x] /\ on' = [on EXCEPT ![t] = s]
  <2>1. CASE FreeSlots = {}
    <3>1. pc' = [pc EXCEPT ![t] = "gone"] /\ UNCHANGED <<slot, on>>
      BY <1>0, <2>1 DEF Assign, Goto
    <3>2. pc'[t] = "gone" /\ pc'[t] = step
      BY <1>1, <1>6, <1>7, <3>1 DEF ServerTypes
    <3>3. QED
      BY <2>1, <3>1, <3>2
  <2>2. CASE FreeSlots # {}
    <3>1. /\ pc' = [pc EXCEPT ![t] = "handshake"]
          /\ slot' = [slot EXCEPT ![s] = x] /\ on' = [on EXCEPT ![t] = s]
      BY <1>0, <2>2 DEF Assign
    <3>2. pc'[t] = "handshake" /\ pc'[t] = step
      BY <1>1, <1>6, <1>7, <3>1 DEF ServerTypes
    <3>3. QED
      BY <2>2, <3>1, <3>2
  <2>3. QED
    BY <2>1, <2>2
<1>10. FreeSlots # {} => s \in Slots
  <2>1. FreeSlots \in SUBSET Nat
    BY WsServerAssumption DEF FreeSlots
  <2>2. FreeSlots # {} => s \in FreeSlots
    BY <2>1, LeastNumber
  <2>3. QED
    BY <2>2 DEF FreeSlots
<1>11. s \in Slots => x \in SlotRec /\ x.id = c /\ x.lock = Nobody
  <2> SUFFICES ASSUME s \in Slots
               PROVE  x \in SlotRec /\ x.id = c /\ x.lock = Nobody
    OBVIOUS
  <2>1. slot[s].timer \in Ids
    BY <1>1 DEF ServerTypes, SlotRec
  <2>2. Unused \in SlotRec /\ Unused.lock = Nobody
    BY DEF Unused, SlotRec, Ids, Socks, States
  <2>3. c \in Ids
    BY <1>2 DEF Ids
  <2>4. PICK m \in Ids : m = slot[s].timer
    BY <2>1
  <2>5. PICK y \in SlotRec : y = Unused
    BY <2>2
  <2>6. PICK d \in Socks : d = fresh.sock
    BY <1>2
  <2>7. x = [y EXCEPT !.sock = d, !.id = c, !.state = "connecting", !.timer = m]
    BY <2>4, <2>5, <2>6
  <2> HIDE DEF x
  <2>8. x \in SlotRec /\ x.id = c /\ x.lock = y.lock
    BY <2>3, <2>7 DEF SlotRec, States
  <2>9. QED
    BY <2>2, <2>5, <2>8
<1> HIDE DEF s, x, t
<1>12. /\ pc' \in [Threads -> Steps] /\ on' \in [Threads -> Slots \cup {NoSlot}]
       /\ pc'[t] = step /\ (step # "gone" => on'[t] \in Slots)
       /\ \A r \in Threads \ {t} : pc'[r] = pc[r] /\ on'[r] = on[r]
  BY <1>1, <1>6, <1>7, <1>8, <1>9, <1>10 DEF ServerTypes
<1>13. /\ slot' \in [Slots -> SlotRec]
       /\ \A q \in Slots : slot'[q] = slot[q] \/ (q = s /\ slot'[q].id = c /\ slot'[q].lock = Nobody)
  <2>1. CASE slot' = slot
    BY <1>1, <2>1 DEF ServerTypes
  <2>2. CASE FreeSlots # {} /\ slot' = [slot EXCEPT ![s] = x]
    <3>1. s \in Slots /\ x \in SlotRec /\ x.id = c /\ x.lock = Nobody /\ slot \in [Slots -> SlotRec]
      BY <1>1, <1>10, <1>11, <2>2 DEF ServerTypes
    <3>2. PICK p, y : p = s /\ y = x
      OBVIOUS
    <3>3. QED
      BY <2>2, <3>1, <3>2
  <2>3. QED
    BY <1>9, <2>1, <2>2
<1>14. \A d \in Conns : ~At(d, "none") => ~At(d, "none")'
  <2>1. ASSUME NEW d \in Conns, ~At(d, "none")
        PROVE  ~At(d, "none")'
    <3>1. <<"conn", d>> \in Threads
      BY ThreadKinds
    <3>2. CASE <<"conn", d>> = t
      BY <1>8, <1>12, <3>2 DEF At
    <3>3. CASE <<"conn", d>> # t
      BY <1>12, <2>1, <3>1, <3>3 DEF At
    <3>4. QED
      BY <3>2, <3>3
  <2>2. QED
    BY <2>1
<1>15. ~At(c, "none")'
  BY <1>8, <1>12 DEF At, t
<1>16. ServerTypes' /\ Located' /\ DestroyInv'
  <2>1. ServerTypes'
    BY <1>1, <1>3, <1>12, <1>13 DEF ServerTypes
  <2>2. Located'
    BY <1>12 DEF ServerInv, Located
  <2>3. DestroyInv'
    BY <1>4, <1>8, <1>12 DEF DestroyInv
  <2>4. QED
    BY <2>1, <2>2, <2>3
<1>17. MutexInv'
  <2>1. \A r \in Threads : ~InMutex(r)'
    BY <1>4, <1>5, <1>7, <1>8, <1>12 DEF InMutex, Broadcasts
  <2>2. QED
    BY <1>1, <2>1, ThreadKinds DEF MutexInv
<1>18. AllInv'
  <2>1. \A u \in Users : /\ User(u) \in Threads \ {t} /\ pc'[User(u)] = pc[User(u)]
                         /\ Broadcasts(User(u))' <=> Broadcasts(User(u))
    BY <1>5, <1>7, <1>12, ThreadKinds
  <2>2. QED
    BY <1>1, <2>1 DEF ServerInv, AllInv, InCall
<1>19. LockInv'
  <2>1. ASSUME NEW q \in Slots, NEW r \in Threads, slot'[q].lock = r
        PROVE  HoldsPing(r, q)'
    <3>1. HoldsPing(r, q)
      BY <1>13, <2>1, ThreadKinds DEF ServerInv, LockInv
    <3>2. r \in Threads \ {t}
      BY <1>7, <3>1 DEF HoldsPing
    <3>3. QED
      BY <1>12, <3>1, <3>2 DEF HoldsPing
  <2>2. QED
    BY <2>1 DEF LockInv
<1>20. IdInv'
  <2>1. \A q \in Slots : slot[q].id \in Ids /\ slot'[q].id \in Ids
    BY <1>1, <1>13 DEF ServerTypes, SlotRec
  <2>2. c # None
    BY <1>2, NoSlotIsNone
  <2>3. ASSUME NEW q \in Slots
        PROVE  slot'[q].sock # NoSock => slot'[q].id # None
    BY <1>13, <2>2 DEF ServerInv, IdInv
  <2>4. ASSUME NEW q \in Slots, slot'[q].id # None
        PROVE  pc'[<<"conn", slot'[q].id>>] # "none"
    <3>1. PICK d \in Conns : d = slot'[q].id
      BY <2>1, <2>4 DEF Ids
    <3>2. ~At(d, "none")'
      BY <1>13, <1>14, <1>15, <2>4, <3>1 DEF ServerInv, IdInv, At
    <3>3. QED
      BY <3>1, <3>2 DEF At
  <2>5. ASSUME NEW q \in Slots, NEW r \in Slots, slot'[q].id = slot'[r].id, slot'[q].id # None
        PROVE  q = r
    BY <1>5, <1>13, <2>5 DEF ServerInv, IdInv
  <2>6. QED
    BY <2>3, <2>4, <2>5 DEF IdInv
<1>21. TimerInv'
  <2>1. ASSUME NEW d \in Conns, pc'[<<"timer", d>>] # "none"
        PROVE  /\ ~At(d, "none")'
               /\ \A q \in Slots : slot'[q].id = d => q = on'[<<"timer", d>>]
    <3>1. <<"timer", d>> \in Threads \ {t}
      BY <1>7, ThreadKinds
    <3>2. pc[<<"timer", d>>] # "none" /\ on'[<<"timer", d>>] = on[<<"timer", d>>]
      BY <1>12, <2>1, <3>1
    <3>3. d # c /\ ~At(d, "none") /\ \A q \in Slots : slot[q].id = d => q = on[<<"timer", d>>]
      BY <1>5, <3>2 DEF ServerInv, TimerInv
    <3>4. QED
      BY <1>13, <1>14, <3>2, <3>3
  <2>2. QED
    BY <2>1 DEF TimerInv, At
<1>22. QED
  BY <1>3, <1>16, <1>17, <1>18, <1>19, <1>20, <1>21 DEF ServerInv

-----------------------------------------------------------------------------
LEMMA NextServerInv ==
  ASSUME ServerInv, [Next]_vars
  PROVE  ServerInv'
<1>1. ASSUME NEW c \in Conns, Receives(c) \/ Ends(c) \/ ConnRuns(c) \/ TimerRuns(c)
      PROVE  ServerInv'
  <2>1. <<"conn", c>> \in Threads /\ <<"timer", c>> \in Threads
    BY ThreadKinds
  <2>2. CASE \/ Request(c) \/ HandshakeFails(c) \/ Respond(c) \/ Open(c) \/ ReadEnds(c)
             \/ \E f \in left.kinds : Read(c, f)
             \/ GotPong(c) \/ GotPing(c) \/ Pong(c) \/ GotClose(c)
             \/ SetClosing(c) \/ Reply(c) \/ Replying(c) \/ OnClose(c)
             \/ Closed(c) \/ Join(c) \/ Final(c)
    BY <2>2, ConnQuiet
  <2>3. CASE Expire(c)
    BY <2>3, ExpireQuiet
  <2>4. ASSUME NEW t \in Threads, CloseClient(t)
        PROVE  ServerInv'
    BY <2>4, CloseSocketInv, CloseClearInv, CloseDestroyInv DEF CloseClient
  <2>5. QED
    BY <1>1, <2>1, <2>2, <2>3, <2>4 DEF Receives, Ends, ConnRuns, TimerRuns
<1>2. ASSUME NEW u \in Users, Call(u) \/ UserRuns(u)
      PROVE  ServerInv'
  <2>1. User(u) \in Threads
    BY ThreadKinds
  <2>2. CASE CloseClient(User(u))
    BY <2>1, <2>2, CloseSocketInv, CloseClearInv, CloseDestroyInv DEF CloseClient
  <2>3. QED
    BY <1>2, <2>2, CallInv, LookupInv, GoodbyeInv, StartInv, ToAllInv, DeliverInv, SendInv,
       PingInv, LockPingInv, PingingInv, UnlockPingInv DEF UserRuns
<1>3. CASE UNCHANGED vars
  BY <1>3 DEF vars, ServerInv, ServerTypes, Located, MutexInv, InMutex, Broadcasts, AllInv, InCall,
     LockInv, HoldsPing, IdInv, TimerInv, FreshInv, At, DestroyInv
<1>4. ASSUME NEW t \in Threads, Fetch(t)
      PROVE  ServerInv'
  BY <1>4 DEF Fetch, ServerInv, ServerTypes, Located, MutexInv, InMutex, Broadcasts, AllInv, InCall,
     LockInv, HoldsPing, IdInv, TimerInv, FreshInv, At, DestroyInv
<1>5. QED
  BY <1>1, <1>2, <1>3, <1>4, AcceptInv, AssignInv DEF Next

(* Whatever the threads do: who is where it must be in 'mutex' holds it and *)
(* nobody else is there, a mtx_ping is that of the thread that pings the    *)
(* slot, an id is that of one slot (ws_accept (), close_client (),          *)
(* send_ping_close (), start_close_timeout ()).                             *)
THEOREM ServerInvHolds == Spec => []ServerInv
<1>1. ServerInv /\ [Next]_vars => ServerInv'
  BY NextServerInv
<1>2. QED
  BY InitServerInv, <1>1, PTL DEF Spec

-----------------------------------------------------------------------------
\* Nobody waits for itself, nor two threads for the same one.
LEMMA ServerInvEmbraces == ServerInv => OnlyPingsEmbrace
<1> SUFFICES ASSUME ServerInv, NEW t \in Threads, NEW r \in Embraces(t)
             PROVE  \E u, v \in {t, r} : /\ Broadcasts(u) /\ pc[u] = "lockping"
                                         /\ pc[v] = "clear" /\ ~Broadcasts(v) /\ v[1] = "user"
  BY DEF OnlyPingsEmbrace
<1> DEFINE Locked(p) == pc[p] \in {"lookup", "goodbye", "all", "gotping", "reply"} \/ (pc[p] = "clear" /\ ~Broadcasts(p))
           Blocked(p) == pc[p] \in {"lockping", "gotpong"}
<1>1. /\ r \in WaitsFor(t) /\ t \in WaitsFor(r)
  BY DEF Embraces
<1>2. ASSUME NEW p \in Threads, NEW q \in WaitsFor(p)
      PROVE  \/ Locked(p) /\ mutex = q /\ mutex # Nobody
             \/ Blocked(p) /\ slot[on[p]].lock = q /\ slot[on[p]].lock \notin {Nobody, Destroyed}
  BY <1>2 DEF WaitsFor, TakesMutex
<1>3. r \in Threads
  <2>1. mutex \in Threads \cup {Nobody}
    BY DEF ServerInv, ServerTypes
  <2>2. Blocked(t) => slot[on[t]].lock \in Threads \cup {Nobody, Destroyed}
    <3>1. Blocked(t) => on[t] \in Slots
      BY DEF ServerInv, Located
    <3>2. QED
      BY <3>1 DEF ServerInv, ServerTypes, SlotRec
  <2>3. QED
    BY <1>1, <1>2, <2>1, <2>2
<1>4. \A p \in Threads : Locked(p) => ~InMutex(p)
  BY DEF InMutex
<1>5. \A p \in Threads : mutex = p => InMutex(p)
  BY DEF ServerInv, MutexInv
<1>6. ASSUME NEW p \in Threads, NEW q \in Threads, Locked(p), mutex = q,
             Blocked(q), slot[on[q]].lock = p
      PROVE  /\ Broadcasts(q) /\ pc[q] = "lockping"
             /\ pc[p] = "clear" /\ ~Broadcasts(p) /\ p[1] = "user"
  <2>1. InMutex(q)
    BY <1>5, <1>6
  <2>2. on[q] \in Slots
    BY <1>6 DEF ServerInv, Located
  <2>3. HoldsPing(p, on[q])
    BY <1>6, <2>2 DEF ServerInv, LockInv
  <2>4. QED
    BY <1>6, <2>1, <2>3 DEF InMutex, HoldsPing
<1>7. ASSUME Blocked(t), Blocked(r), slot[on[t]].lock = r
      PROVE  FALSE
  <2>1. on[t] \in Slots
    BY <1>7 DEF ServerInv, Located
  <2>2. HoldsPing(r, on[t])
    BY <1>3, <1>7, <2>1 DEF ServerInv, LockInv
  <2>3. QED
    BY <1>7, <2>2 DEF HoldsPing
<1> HIDE DEF Locked, Blocked
<1>8. CASE Locked(t) /\ mutex = r
  <2>1. ~Locked(r)
    BY <1>3, <1>4, <1>5, <1>8
  <2>2. Blocked(r) /\ slot[on[r]].lock = t
    BY <1>1, <1>2, <1>3, <2>1
  <2>3. QED
    BY <1>3, <1>6, <1>8, <2>2
<1>9. CASE Blocked(t) /\ slot[on[t]].lock = r
  <2>1. Locked(r) /\ mutex = t
    BY <1>1, <1>2, <1>3, <1>7, <1>9
  <2>2. QED
    BY <1>3, <1>6, <1>9, <2>1
<1>10. QED
  BY <1>1, <1>2, <1>8, <1>9

(* Two threads wait for each other's locks only when a PING to all finds a  *)
(* client's mtx_ping held by a PING to that client that closes it, and so   *)
(* wants the mutex (send_ping_close (), close_client ()): the one order in  *)
(* which ws.c takes its two locks the wrong way round.                      *)
THEOREM OnlyPingsDeadlock == Spec => []OnlyPingsEmbrace
BY ServerInvHolds, ServerInvEmbraces, PTL
=============================================================================
