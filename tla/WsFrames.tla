------------------------------ MODULE WsFrames ------------------------------
(***************************************************************************)
(* The frames a client sends and what ws.c makes of them:                  *)
(* next_complete_frame () and read_single_frame ().  A frame is            *)
(* [op, fin, rsv, size, body]: what its bytes are is the body, a number.   *)
(* 'wfd' is the message under assembly: its type, size and bodies so far.  *)
(* The masks, the allocations (they do not fail) and the validation of     *)
(* UTF-8, which the build leaves out, are not modelled.                    *)
(***************************************************************************)
EXTENDS Integers, Sequences, FiniteSets

CONSTANTS MaxFrame,     \* MAX_FRAME_LENGTH
          MaxControl    \* 125

ASSUME WsFramesAssumption == MaxFrame \in Nat /\ MaxControl \in Nat

Control == {"close", "ping", "pong"}
Data    == {"txt", "bin", "cont"}

Frames == [op : STRING, fin : BOOLEAN, rsv : BOOLEAN, size : Nat, body : Nat]

Fresh == [type |-> "none", size |-> 0, msg |-> <<>>]

(* frames that are an error of the client *)
Refused(wfd, f, closing) ==
    \/ f.rsv
    \/ f.op = "cont" /\ wfd.type = "none"
    \/ f.op \in {"txt", "bin"} /\ wfd.type # "none"
    \/ f.op \notin Control \union Data
    \/ closing /\ f.op # "close"
    \/ f.op \in Control /\ (~f.fin \/ f.size > MaxControl)
    \/ f.op \in Data /\ wfd.size + f.size > MaxFrame

(* the message with one more frame of it *)
Joined(wfd, f) ==
    [type |-> IF f.op = "cont" THEN wfd.type ELSE f.op,
     size |-> wfd.size + f.size,
     msg  |-> IF f.size > 0 THEN Append(wfd.msg, f.body) ELSE wfd.msg]

\* Faulty variant for a mutation run: a control frame begins a message anew.
Assembled_Restart(wfd, f) == IF f.op \in Data THEN Joined(wfd, f) ELSE Fresh

(* what is under assembly after a frame, control frames aside *)
Assembled(wfd, f) == IF f.op \in Data THEN Joined(wfd, f) ELSE wfd

(* what the loop comes to with a frame *)
Outcome(wfd, f, closing) ==
    IF Refused(wfd, f, closing) THEN "error"
    ELSE IF f.op = "close" THEN "close"
    ELSE IF f.op \in Data /\ f.fin THEN "message"
    ELSE "more"

(***************************************************************************)
(* do_close () (wfd, -1): a frame without a code, or with a reason, goes   *)
(* back as it came; a code that may not be sent is answered with 1002.     *)
(***************************************************************************)
ValidCode(cc) == cc \in 1000 .. 1003 \union 1007 .. 1011 \union 3000 .. 4999

CloseAnswer(size, cc) == IF size \in {1, 2} /\ ~ValidCode(cc) THEN 1002 ELSE cc

-----------------------------------------------------------------------------
(* For comparison: what a sequence of frames holds, by their places in it. *)

(* the number of i among the numbers in S *)
Place(S, i) == Cardinality({j \in S : j <= i})

(* s is the bodies of the frames at S, in their order *)
BodiesAt(frames, S, s) ==
    Len(s) = Cardinality(S) /\ \A i \in S : s[Place(S, i)] = frames[i].body

PingsIn(frames) == {i \in DOMAIN frames : frames[i].op = "ping"}
DataIn(frames)  == {i \in DOMAIN frames : frames[i].op \in Data}
LastsIn(frames) == {i \in DataIn(frames) : frames[i].fin}

(* what belongs to the message that ends at e: all since the end before *)
PartsOf(frames, e) == {i \in DataIn(frames) : i <= e /\ \A d \in LastsIn(frames) : d < e => d < i}

(* the first part has the type, those that are not empty the contents *)
IsMessage(frames, P, m) ==
    /\ \E i \in P : m.type = frames[i].op /\ \A j \in P : i <= j
    /\ BodiesAt(frames, {i \in P : frames[i].size > 0}, m.msg)

AreMessages(frames, messages) ==
    /\ Len(messages) = Cardinality(LastsIn(frames))
    /\ \A e \in LastsIn(frames) :
          IsMessage(frames, PartsOf(frames, e), messages[Place(LastsIn(frames), e)])
=============================================================================
