-------------------------- MODULE PushClientProofs --------------------------
(***************************************************************************)
(* OpenIsWatched, LoopStopped and EndIsTold of PushClient for any number   *)
(* of calls in progress and of connections.                                *)
(*                                                                         *)
(* None is inductive: the fields are read and cleared without a lock, and  *)
(* that the loop is not dropped between two calls rests on where each of   *)
(* them is.  The strengthening says, of a connection no close of which     *)
(* overlapped its ConnectAsync: the fields name it only while it is the    *)
(* client's or a Dispose of it has yet to clear them (Held), so the calls  *)
(* in progress are all about it (Owns); what a close has read of the       *)
(* fields is what they still hold, or they are cleared (Reads); and a loop *)
(* that runs is in the field, or a close holds it and will wait for it, or *)
(* its source was cancelled (Accounted).  Where no two calls overlapped at *)
(* all, nothing but the one call may touch the connection (Single), which  *)
(* makes what it found when it began still true at its end (Tells).        *)
(***************************************************************************)
EXTENDS PushClient, TLAPS

\* A call that closes or disposes.
Ending(t) == ~Sending(t) /\ ~Connecting(t)

\* The only call but sends.
Alone(t) == \A u \in Tasks \ {t} : Sending(u)

BeforeClear == {"close", "shake", "wait", "stop", "readLoop", "clearSource"}

\* What a call may be, and what it keeps the others from.
Shape ==
  /\ raced \subseteq crossed
  /\ \A t \in Tasks :
       /\ call[t].at # "idle" => call[t].on \in Sockets
       /\ call[t].dispose => Ending(t) /\ ws \in {call[t].on, None}
       /\ call[t].at \in {"forget", "dispose"} => call[t].dispose
       /\ call[t].owed => Ending(t) /\ ~call[t].dispose
       /\ call[t].at \in {"connect", "assign"} => ws = None /\ \A u \in Tasks : ~call[u].dispose
       /\ \A u \in Tasks : Connecting(t) /\ Connecting(u) => t = u

Unused(s) == loop[s] = "none" /\ source[s] = "none"

NotYet ==
  /\ \A s \in Sockets : socket[s].state = "none" => Unused(s)
  /\ \A t \in Tasks :
       /\ call[t].at \in {"connect", "assign", "source"} =>
            Unused(call[t].on) /\ socket[call[t].on].state # "none"
       /\ call[t].at = "start" => loop[call[t].on] = "none"
       /\ call[t].cts # None => source[call[t].cts] # "none"

\* ConnectAsync sets the fields of a connection that no close races.
Connects ==
  \A t \in Tasks : Connecting(t) /\ call[t].on \notin raced =>
    /\ Alone(t)
    /\ call[t].at \in {"source", "start", "keep"} => ws = call[t].on
    /\ call[t].at \in {"start", "keep"} =>
         receiveLoopCts = call[t].on /\ source[call[t].on] = "live"
    /\ call[t].at = "keep" => loop[call[t].on] # "none"

Forgetting(u, s) == call[u].dispose /\ call[u].on = s

Held ==
  \A s \in Sockets \ raced :
    /\ receiveLoop = s =>
         /\ receiveLoopCts \in {s, None}
         /\ \/ ws = s
            \/ \E u \in Tasks : Forgetting(u, s) /\ call[u].at \in BeforeClear \cup {"clearLoop"}
    /\ receiveLoopCts = s =>
         ws = s \/ \E u \in Tasks : Forgetting(u, s) /\ call[u].at \in BeforeClear

Owns ==
  \A s \in Sockets \ raced : \A t \in Tasks :
    ~Sending(t) /\ s \in {receiveLoop, receiveLoopCts} => call[t].on = s

Reads ==
  \A s \in Sockets \ raced : \A t \in Tasks :
    /\ call[t].at = "readLoop" /\ receiveLoop = s => call[t].cts \in {s, None}
    /\ call[t].at \in {"clearSource", "clearLoop"} /\ receiveLoop = s => call[t].loop = s
    /\ call[t].at \in {"clearLoop", "cancel", "await"} => receiveLoopCts # s
    /\ call[t].at \in {"cancel", "await"} => receiveLoop # s
    /\ Stopping(t, s) => call[t].cts \in {s, None} /\ call[t].on = s
    /\ call[t].at \in {"readLoop", "clearSource", "clearLoop", "cancel", "await"} /\ call[t].cts = s
         => call[t].on = s

Accounted ==
  \A s \in Sockets \ raced : loop[s] = "receiving" /\ (s \in crossed => source[s] = "live") =>
    \/ receiveLoop = s
    \/ \E u \in Tasks : call[u].on = s /\ call[u].at = "keep"
    \/ \E u \in Tasks : Stopping(u, s)

Watched ==
  /\ \A s \in Sockets \ raced :
       /\ loop[s] = "ended" => socket[s].state # "open"
       /\ loop[s] = "none" /\ (ws = s \/ socket[s].state = "open") =>
            \E u \in Tasks : Connecting(u) /\ call[u].on = s
  /\ \A t \in Tasks : Ending(t) /\ call[t].on \notin raced => loop[call[t].on] # "none"

Single ==
  /\ \A t \in Tasks : ~Sending(t) /\ call[t].on \notin crossed => Alone(t)
  /\ \A s \in Sockets \ crossed : source[s] = "disposed" =>
       /\ receiveLoopCts # s
       /\ \A t \in Tasks :
            call[t].at \in {"readLoop", "clearSource", "clearLoop", "cancel"} => call[t].cts # s

Told(s, code) == wire[s].told = code \/ ~wire[s].up \/ socket[s].state = "aborted"

Tells ==
  /\ \A s \in Sockets : socket[s].state \in {"closeSent", "closed"} => wire[s].told # None
  /\ \A t \in Tasks : call[t].owed /\ call[t].on \notin crossed =>
       IF call[t].at \in {"close", "shake"}
       THEN socket[call[t].on].state \in {"open", "closeReceived", "aborted"}
       ELSE Told(call[t].on, call[t].code)

\* All that the steps of a close handshake leave alone.
Loops == TypeOK /\ Shape /\ NotYet /\ Connects /\ Held /\ Owns /\ Reads /\ Accounted /\ Watched /\ Single

IInv == Loops /\ Tells

-----------------------------------------------------------------------------
(* The types of what a step writes.                                        *)

Calls == [at : Labels, on : Sockets \cup {None}, code : Codes, dispose : BOOLEAN,
          cts : Sockets \cup {None}, loop : Sockets \cup {None},
          fullSeen : BOOLEAN, owed : BOOLEAN]
Wire == [told : Codes \cup {None}, sent : Frames \cup {None}, up : BOOLEAN]
States == {"none", "connecting", "open", "closeSent", "closeReceived", "closed", "aborted", "disposed"}

LEMMA IdleType == Idle \in Calls
BY CodesAssumption DEF Idle, Calls, Labels

LEMMA CallType ==
  ASSUME TypeOK, NEW t \in Tasks, NEW c \in Calls, call' = [call EXCEPT ![t] = c]
  PROVE  call' \in [Tasks -> Calls]
BY DEF TypeOK, Calls

LEMMA GotoType ==
  ASSUME TypeOK, NEW t \in Tasks, NEW label \in Labels, Goto(t, label)
  PROVE  call' \in [Tasks -> Calls]
<1>1. call \in [Tasks -> Calls] /\ call' = [call EXCEPT ![t] = [call[t] EXCEPT !.at = label]]
  BY DEF TypeOK, Calls, Goto
<1>2. [call[t] EXCEPT !.at = label] \in Calls
  BY <1>1 DEF Calls
<1>. QED BY <1>1, <1>2

LEMMA ReturnType ==
  ASSUME TypeOK, NEW t \in Tasks, Return(t)
  PROVE  call' \in [Tasks -> Calls]
BY IdleType, CallType DEF Return

LEMMA WireType ==
  ASSUME TypeOK, NEW s \in Sockets, NEW w \in Wire, wire' = [wire EXCEPT ![s] = w]
  PROVE  wire' \in [Sockets -> Wire]
BY DEF TypeOK, Wire

LEMMA StateType ==
  ASSUME TypeOK, NEW s \in Sockets, NEW st \in States, socket' = [socket EXCEPT ![s].state = st]
  PROVE  socket' \in [Sockets -> Socket]
<1>1. socket \in [Sockets -> Socket] /\ socket' = [socket EXCEPT ![s] = [socket[s] EXCEPT !.state = st]]
  BY DEF TypeOK
<1>2. [socket[s] EXCEPT !.state = st] \in Socket
  BY <1>1 DEF Socket, States
<1>. QED BY <1>1, <1>2

LEMMA AbortType ==
  ASSUME TypeOK, NEW s \in Sockets, socket' \in {socket, Aborted(s)}
  PROVE  socket' \in [Sockets -> Socket]
BY StateType DEF TypeOK, Aborted, States

\* Of all the sockets only s has changed its state, and only to aborted.
MayAbort(s) ==
  \A r \in Sockets :
    \/ socket'[r].state = socket[r].state
    \/ r = s /\ socket[r].state # "none" /\ socket'[r].state = "aborted"

LEMMA AbortStates ==
  ASSUME TypeOK, NEW s \in Sockets, socket' \in {socket, Aborted(s)}
  PROVE  MayAbort(s)
BY DEF TypeOK, Socket, Aborted, Usable, MayAbort

\* The witnesses of Held stay.
LEMMA HeldStays ==
  ASSUME Held, UNCHANGED <<ws, receiveLoopCts, receiveLoop, raced>>,
         \A u \in Tasks, s \in Sockets : Forgetting(u, s) /\ call[u].at \in BeforeClear \cup {"clearLoop"} =>
           /\ Forgetting(u, s)'
           /\ call[u].at = "clearLoop" => call'[u].at = "clearLoop"
           /\ call[u].at \in BeforeClear => call'[u].at \in BeforeClear
  PROVE  Held'
BY DEF Held

\* Who accounts for a running loop goes on doing so.
LEMMA AccountedStays ==
  ASSUME Accounted, UNCHANGED <<receiveLoop, raced, crossed>>,
         \A u \in Tasks, s \in Sockets :
           /\ Stopping(u, s) => Stopping(u, s)' \/ loop'[s] = "ended" \/ s \in raced
           /\ call[u].on = s /\ call[u].at = "keep" => call'[u].on = s /\ call'[u].at = "keep",
         \A s \in Sockets : loop'[s] = "receiving" => loop[s] = "receiving",
         \A s \in Sockets : source'[s] = "live" => source[s] = "live"
  PROVE  Accounted'
BY DEF Accounted

-----------------------------------------------------------------------------
(* Each lemma below is about a step taken from a state that satisfies      *)
(* IInv.                                                                   *)

USE NoneAssumption DEF IInv, Loops, Sending, Connecting, Ending, Alone, Stopping, Unused, Forgetting,
    BeforeClear, Told, fields, Goto, Return, Begin, Overlaps, Idle, MayConnect, Closable

LEMMA BeginConnectKeeps == ASSUME IInv, NEW t \in Tasks, NEW s \in Sockets, BeginConnect(t, s) PROVE IInv'
<1>1. TypeOK'
  <2>1. socket' \in [Sockets -> Socket]
    BY StateType DEF BeginConnect, States
  <2>2. [Idle EXCEPT !.at = "connect", !.on = s] \in Calls
    BY IdleType DEF Calls, Labels
  <2>3. call' \in [Tasks -> Calls]
    BY <2>2, CallType DEF BeginConnect
  <2>4. raced' \cup crossed' \subseteq Sockets
    BY DEF BeginConnect, TypeOK
  <2>. QED BY <2>1, <2>3, <2>4 DEF BeginConnect, TypeOK, Calls
<1>2. Shape'
  BY DEF BeginConnect, TypeOK, Shape
<1>3. NotYet'
  BY DEF BeginConnect, TypeOK, Shape, NotYet
<1>4. Connects'
  BY SMTT(60) DEF BeginConnect, TypeOK, Shape, NotYet, Connects
<1>5. Held' /\ Owns'
  BY SMTT(60) DEF BeginConnect, TypeOK, Shape, Connects, Held, Owns
<1>6. Reads'
  BY SMTT(60) DEF BeginConnect, TypeOK, Shape, Connects, Held, Owns, Reads
<1>7. Accounted'
  BY SMTT(60) DEF BeginConnect, TypeOK, Shape, NotYet, Connects, Held, Owns, Reads, Accounted, Single
<1>8. Watched'
  BY SMTT(60) DEF BeginConnect, TypeOK, Shape, NotYet, Connects, Watched
<1>9. Single'
  BY DEF BeginConnect, TypeOK, Shape, Connects, Owns, Reads, Single
<1>10. Tells'
  BY DEF BeginConnect, TypeOK, Shape, Connects, Single, Tells
<1>. QED BY <1>1, <1>2, <1>3, <1>4, <1>5, <1>6, <1>7, <1>8, <1>9, <1>10

LEMMA FailHandshakeKeeps == ASSUME IInv, NEW t \in Tasks, FailHandshake(t) PROVE IInv'
<1>1. TypeOK'
  <2>1. call' \in [Tasks -> Calls]
    BY ReturnType DEF FailHandshake
  <2>2. socket' \in [Sockets -> Socket]
    BY StateType DEF FailHandshake, Shape, States
  <2>. QED BY <2>1, <2>2 DEF FailHandshake, TypeOK, Calls
<1>2. Shape'
  BY DEF FailHandshake, TypeOK, Shape
<1>3. NotYet'
  BY DEF FailHandshake, TypeOK, Shape, NotYet
<1>4. Connects'
  BY SMTT(60) DEF FailHandshake, TypeOK, Shape, NotYet, Connects
<1>5. Held' /\ Owns'
  BY SMTT(60) DEF FailHandshake, TypeOK, Shape, Connects, Held, Owns
<1>6. Reads'
  BY SMTT(60) DEF FailHandshake, TypeOK, Shape, Connects, Held, Owns, Reads
<1>7. Accounted'
  BY SMTT(60) DEF FailHandshake, TypeOK, Shape, NotYet, Connects, Held, Owns, Reads, Accounted, Single
<1>8. Watched'
  BY SMTT(60) DEF FailHandshake, TypeOK, Shape, NotYet, Connects, Watched
<1>9. Single'
  BY DEF FailHandshake, TypeOK, Shape, Connects, Owns, Reads, Single
<1>10. Tells'
  BY DEF FailHandshake, TypeOK, Shape, Connects, Single, Tells
<1>. QED BY <1>1, <1>2, <1>3, <1>4, <1>5, <1>6, <1>7, <1>8, <1>9, <1>10

LEMMA FinishHandshakeKeeps == ASSUME IInv, NEW t \in Tasks, FinishHandshake(t) PROVE IInv'
<1>1. TypeOK'
  <2>1. call' \in [Tasks -> Calls]
    BY GotoType DEF FinishHandshake, Labels
  <2>2. socket' \in [Sockets -> Socket]
    BY StateType DEF FinishHandshake, Shape, States
  <2>3. wire' \in [Sockets -> Wire]
    <3>1. wire[call[t].on] \in Wire /\ call[t].code \in Codes
      BY DEF FinishHandshake, TypeOK, Shape, Wire
    <3>2. [wire[call[t].on] EXCEPT !.up = TRUE] \in Wire
      BY <3>1 DEF Wire
    <3>. QED BY <3>2, WireType DEF FinishHandshake, Shape
  <2>. QED BY <2>1, <2>2, <2>3 DEF FinishHandshake, TypeOK, Calls, Wire
<1>2. Shape'
  BY DEF FinishHandshake, TypeOK, Shape
<1>3. NotYet'
  BY DEF FinishHandshake, TypeOK, Shape, NotYet
<1>4. Connects'
  BY SMTT(60) DEF FinishHandshake, TypeOK, Shape, NotYet, Connects
<1>5. Held' /\ Owns'
  BY SMTT(60) DEF FinishHandshake, TypeOK, Shape, Connects, Held, Owns
<1>6. Reads'
  BY SMTT(60) DEF FinishHandshake, TypeOK, Shape, Connects, Held, Owns, Reads
<1>7. Accounted'
  <2>1. /\ \A u \in Tasks \ {t} : call'[u] = call[u]
        /\ call[t].at = "connect" /\ UNCHANGED <<receiveLoop, loop, source, raced, crossed>>
    BY DEF FinishHandshake, TypeOK
  <2>. QED BY <2>1, AccountedStays
<1>8. Watched'
  BY SMTT(60) DEF FinishHandshake, TypeOK, Shape, NotYet, Connects, Watched
<1>9. Single'
  BY DEF FinishHandshake, TypeOK, Shape, Connects, Owns, Reads, Single
<1>10. Tells'
  BY DEF FinishHandshake, TypeOK, Shape, Connects, Single, Tells
<1>. QED BY <1>1, <1>2, <1>3, <1>4, <1>5, <1>6, <1>7, <1>8, <1>9, <1>10

LEMMA AssignSocketKeeps == ASSUME IInv, NEW t \in Tasks, AssignSocket(t) PROVE IInv'
<1>1. TypeOK'
  <2>1. call' \in [Tasks -> Calls]
    BY GotoType DEF AssignSocket, Labels
  <2>. QED BY <2>1 DEF AssignSocket, TypeOK, Calls
<1>2. Shape'
  BY DEF AssignSocket, TypeOK, Shape
<1>3. NotYet'
  BY DEF AssignSocket, TypeOK, Shape, NotYet
<1>4. Connects'
  BY SMTT(60) DEF AssignSocket, TypeOK, Shape, NotYet, Connects
<1>5. Held' /\ Owns'
  BY SMTT(60) DEF AssignSocket, TypeOK, Shape, Connects, Held, Owns
<1>6. Reads'
  BY SMTT(60) DEF AssignSocket, TypeOK, Shape, Connects, Held, Owns, Reads
<1>7. Accounted'
  BY SMTT(60) DEF AssignSocket, TypeOK, Shape, NotYet, Connects, Held, Owns, Reads, Accounted, Single
<1>8. Watched'
  BY SMTT(60) DEF AssignSocket, TypeOK, Shape, NotYet, Connects, Watched
<1>9. Single'
  BY DEF AssignSocket, TypeOK, Shape, Connects, Owns, Reads, Single
<1>10. Tells'
  BY DEF AssignSocket, TypeOK, Shape, Connects, Single, Tells
<1>. QED BY <1>1, <1>2, <1>3, <1>4, <1>5, <1>6, <1>7, <1>8, <1>9, <1>10

LEMMA AssignSourceKeeps == ASSUME IInv, NEW t \in Tasks, AssignSource(t) PROVE IInv'
<1>1. TypeOK'
  <2>1. call' \in [Tasks -> Calls]
    BY GotoType DEF AssignSource, Labels
  <2>. QED BY <2>1, ZenonT(60) DEF AssignSource, TypeOK, Calls
<1>2. Shape'
  BY DEF AssignSource, TypeOK, Shape
<1>3. NotYet'
  BY DEF AssignSource, TypeOK, Shape, NotYet
<1>4. Connects'
  BY SMTT(60) DEF AssignSource, TypeOK, Shape, NotYet, Connects
<1>5. Held' /\ Owns'
  BY SMTT(60) DEF AssignSource, TypeOK, Shape, Connects, Held, Owns
<1>6. Reads'
  <2>1. /\ call[t].at = "source" /\ receiveLoopCts' = call[t].on /\ UNCHANGED <<receiveLoop, raced>>
        /\ (\A u \in Tasks \ {t} : call'[u] = call[u]) /\ call'[t].at = "start"
    BY DEF AssignSource, TypeOK
  <2>2. call[t].on \notin raced => \A u \in Tasks \ {t} : Sending(u)
    BY <2>1 DEF Connects
  <2>. QED BY <2>1, <2>2 DEF Reads
<1>7. Accounted'
  BY SMTT(60) DEF AssignSource, TypeOK, Shape, NotYet, Connects, Held, Owns, Reads, Accounted, Single
<1>8. Watched'
  BY SMTT(60) DEF AssignSource, TypeOK, Shape, NotYet, Connects, Watched
<1>9. Single'
  BY DEF AssignSource, TypeOK, Shape, Connects, Owns, Reads, Single
<1>10. Tells'
  BY DEF AssignSource, TypeOK, Shape, Connects, Single, Tells
<1>. QED BY <1>1, <1>2, <1>3, <1>4, <1>5, <1>6, <1>7, <1>8, <1>9, <1>10

LEMMA StartWithoutSourceKeeps == ASSUME IInv, NEW t \in Tasks, StartWithoutSource(t) PROVE IInv'
<1>1. TypeOK'
  <2>1. call' \in [Tasks -> Calls]
    BY ReturnType DEF StartWithoutSource
  <2>. QED BY <2>1 DEF StartWithoutSource, TypeOK, Calls
<1>2. Shape'
  BY DEF StartWithoutSource, TypeOK, Shape
<1>3. NotYet'
  BY DEF StartWithoutSource, TypeOK, Shape, NotYet
<1>4. Connects'
  BY SMTT(60) DEF StartWithoutSource, TypeOK, Shape, NotYet, Connects
<1>5. Held' /\ Owns'
  BY SMTT(60) DEF StartWithoutSource, TypeOK, Shape, Connects, Held, Owns
<1>6. Reads'
  BY SMTT(60) DEF StartWithoutSource, TypeOK, Shape, Connects, Held, Owns, Reads
<1>7. Accounted'
  BY SMTT(60) DEF StartWithoutSource, TypeOK, Shape, NotYet, Connects, Held, Owns, Reads, Accounted, Single
<1>8. Watched'
  BY SMTT(60) DEF StartWithoutSource, TypeOK, Shape, NotYet, Connects, Watched
<1>9. Single'
  BY DEF StartWithoutSource, TypeOK, Shape, Connects, Owns, Reads, Single
<1>10. Tells'
  BY DEF StartWithoutSource, TypeOK, Shape, Connects, Single, Tells
<1>. QED BY <1>1, <1>2, <1>3, <1>4, <1>5, <1>6, <1>7, <1>8, <1>9, <1>10

LEMMA StartLoopKeeps == ASSUME IInv, NEW t \in Tasks, StartLoop(t) PROVE IInv'
<1>1. TypeOK'
  <2>1. call' \in [Tasks -> Calls]
    BY GotoType DEF StartLoop, Labels
  <2>. QED BY <2>1 DEF StartLoop, TypeOK, Calls
<1>2. Shape'
  BY DEF StartLoop, TypeOK, Shape
<1>3. NotYet'
  BY DEF StartLoop, TypeOK, Shape, NotYet
<1>4. Connects'
  BY SMTT(60) DEF StartLoop, TypeOK, Shape, NotYet, Connects
<1>5. Held' /\ Owns'
  BY SMTT(60) DEF StartLoop, TypeOK, Shape, Connects, Held, Owns
<1>6. Reads'
  BY SMTT(60) DEF StartLoop, TypeOK, Shape, Connects, Held, Owns, Reads
<1>7. Accounted'
  BY SMTT(60) DEF StartLoop, TypeOK, Shape, NotYet, Connects, Held, Owns, Reads, Accounted, Single
<1>8. Watched'
  BY SMTT(60) DEF StartLoop, TypeOK, Shape, NotYet, Connects, Watched
<1>9. Single'
  BY DEF StartLoop, TypeOK, Shape, Connects, Owns, Reads, Single
<1>10. Tells'
  BY DEF StartLoop, TypeOK, Shape, Connects, Single, Tells
<1>. QED BY <1>1, <1>2, <1>3, <1>4, <1>5, <1>6, <1>7, <1>8, <1>9, <1>10

LEMMA KeepLoopKeeps == ASSUME IInv, NEW t \in Tasks, KeepLoop(t) PROVE IInv'
<1>1. TypeOK'
  <2>1. call' \in [Tasks -> Calls]
    BY ReturnType DEF KeepLoop
  <2>. QED BY <2>1 DEF KeepLoop, TypeOK, Calls
<1>2. Shape'
  BY DEF KeepLoop, TypeOK, Shape
<1>3. NotYet'
  BY DEF KeepLoop, TypeOK, Shape, NotYet
<1>4. Connects'
  BY SMTT(60) DEF KeepLoop, TypeOK, Shape, NotYet, Connects
<1>5. Held' /\ Owns'
  BY SMTT(60) DEF KeepLoop, TypeOK, Shape, Connects, Held, Owns
<1>6. Reads'
  BY SMTT(60) DEF KeepLoop, TypeOK, Shape, Connects, Held, Owns, Reads
<1>7. Accounted'
  BY SMTT(60) DEF KeepLoop, TypeOK, Shape, NotYet, Connects, Held, Owns, Reads, Accounted, Single
<1>8. Watched'
  BY SMTT(60) DEF KeepLoop, TypeOK, Shape, NotYet, Connects, Watched
<1>9. Single'
  BY DEF KeepLoop, TypeOK, Shape, Connects, Owns, Reads, Single
<1>10. Tells'
  BY DEF KeepLoop, TypeOK, Shape, Connects, Single, Tells
<1>. QED BY <1>1, <1>2, <1>3, <1>4, <1>5, <1>6, <1>7, <1>8, <1>9, <1>10

LEMMA BeginSendKeeps == ASSUME IInv, NEW t \in Tasks, BeginSend(t) PROVE IInv'
<1>1. TypeOK'
  <2>1. [Idle EXCEPT !.at = "send", !.on = ws, !.fullSeen = socket[ws].status = "full"] \in Calls
    BY IdleType DEF Calls, Labels, TypeOK, BeginSend
  <2>2. call' \in [Tasks -> Calls]
    BY <2>1, CallType DEF BeginSend
  <2>. QED BY <2>2 DEF BeginSend, TypeOK, Calls
<1>2. Shape'
  BY DEF BeginSend, TypeOK, Shape
<1>3. NotYet'
  BY DEF BeginSend, TypeOK, Shape, NotYet
<1>4. Connects'
  BY SMTT(60) DEF BeginSend, TypeOK, Shape, NotYet, Connects
<1>5. Held' /\ Owns'
  BY SMTT(60) DEF BeginSend, TypeOK, Shape, Connects, Held, Owns
<1>6. Reads'
  BY SMTT(60) DEF BeginSend, TypeOK, Shape, Connects, Held, Owns, Reads
<1>7. Accounted'
  BY SMTT(60) DEF BeginSend, TypeOK, Shape, NotYet, Connects, Held, Owns, Reads, Accounted, Single
<1>8. Watched'
  BY SMTT(60) DEF BeginSend, TypeOK, Shape, NotYet, Connects, Watched
<1>9. Single'
  BY DEF BeginSend, TypeOK, Shape, Connects, Owns, Reads, Single
<1>10. Tells'
  BY DEF BeginSend, TypeOK, Shape, Connects, Single, Tells
<1>. QED BY <1>1, <1>2, <1>3, <1>4, <1>5, <1>6, <1>7, <1>8, <1>9, <1>10

LEMMA SendSucceedsKeeps == ASSUME IInv, NEW t \in Tasks, SendSucceeds(t) PROVE IInv'
<1>1. TypeOK'
  <2>1. call' \in [Tasks -> Calls]
    BY ReturnType DEF SendSucceeds
  <2>. QED BY <2>1 DEF SendSucceeds, TypeOK, Calls
<1>2. Shape'
  BY DEF SendSucceeds, TypeOK, Shape
<1>3. NotYet'
  BY DEF SendSucceeds, TypeOK, Shape, NotYet
<1>4. Connects'
  BY SMTT(60) DEF SendSucceeds, TypeOK, Shape, NotYet, Connects
<1>5. Held' /\ Owns'
  BY SMTT(60) DEF SendSucceeds, TypeOK, Shape, Connects, Held, Owns
<1>6. Reads'
  BY SMTT(60) DEF SendSucceeds, TypeOK, Shape, Connects, Held, Owns, Reads
<1>7. Accounted'
  <2>1. /\ \A u \in Tasks \ {t} : call'[u] = call[u]
        /\ call[t].at = "send" /\ UNCHANGED <<receiveLoop, loop, source, raced, crossed>>
    BY DEF SendSucceeds, TypeOK
  <2>. QED BY <2>1, AccountedStays
<1>8. Watched'
  BY SMTT(60) DEF SendSucceeds, TypeOK, Shape, NotYet, Connects, Watched
<1>9. Single'
  BY DEF SendSucceeds, TypeOK, Shape, Connects, Owns, Reads, Single
<1>10. Tells'
  BY DEF SendSucceeds, TypeOK, Shape, Connects, Single, Tells
<1>. QED BY <1>1, <1>2, <1>3, <1>4, <1>5, <1>6, <1>7, <1>8, <1>9, <1>10

LEMMA SendThrowsKeeps == ASSUME IInv, NEW t \in Tasks, SendThrows(t) PROVE IInv'
<1>1. TypeOK'
  <2>1. call' \in [Tasks -> Calls]
    BY ReturnType DEF SendThrows
  <2>2. socket' \in [Sockets -> Socket]
    BY AbortType DEF SendThrows, Shape
  <2>. QED BY <2>1, <2>2 DEF SendThrows, TypeOK, Calls
<1>2. Shape'
  BY DEF SendThrows, TypeOK, Shape
<1>3. NotYet'
  <2>1. MayAbort(call[t].on) /\ UNCHANGED source
    BY AbortStates DEF SendThrows, Shape
  <2>2. \A u \in Tasks : \/ call'[u] = call[u]
                         \/ call'[u].at \in {"idle", "stop"} /\ call'[u].cts \in {call[u].cts, None}
    BY DEF SendThrows, TypeOK
  <2>3. \A r \in Sockets : loop[r] = "none" => loop'[r] = "none"
    BY DEF SendThrows, TypeOK
  <2>. QED BY <2>1, <2>2, <2>3, SMTT(60) DEF TypeOK, Shape, NotYet, MayAbort
<1>4. Connects'
  BY SMTT(60) DEF SendThrows, TypeOK, Shape, NotYet, Connects
<1>5. Held' /\ Owns'
  BY SMTT(60) DEF SendThrows, TypeOK, Shape, Connects, Held, Owns
<1>6. Reads'
  BY SMTT(60) DEF SendThrows, TypeOK, Shape, Connects, Held, Owns, Reads
<1>7. Accounted'
  BY SMTT(60) DEF SendThrows, TypeOK, Shape, NotYet, Connects, Held, Owns, Reads, Accounted, Single
<1>8. Watched'
  <2>1. MayAbort(call[t].on) /\ UNCHANGED <<ws, raced>>
    BY AbortStates DEF SendThrows, Shape
  <2>2. \A u \in Tasks : (Connecting(u)' <=> Connecting(u)) /\ (~Sending(u) => call'[u].on = call[u].on) /\ (~Sending(u)' => ~Sending(u))
    BY DEF SendThrows, TypeOK
  <2>3. \A r \in Sockets \ raced : loop'[r] = "ended" => socket'[r].state # "open"
    BY <2>1 DEF SendThrows, TypeOK, Watched, MayAbort
  <2>4. \A r \in Sockets : (loop'[r] = "none" <=> loop[r] = "none") /\ (socket'[r].state = "open" => socket[r].state = "open")
    BY <2>1 DEF SendThrows, TypeOK, MayAbort
  <2>. QED BY <2>1, <2>2, <2>3, <2>4 DEF Watched, TypeOK, Shape
<1>9. Single'
  BY DEF SendThrows, TypeOK, Shape, Connects, Owns, Reads, Single
<1>10. Tells'
  <2>1. MayAbort(call[t].on) /\ UNCHANGED <<wire, crossed>>
    BY AbortStates DEF SendThrows, Shape
  <2>2. (\A u \in Tasks \ {t} : call'[u] = call[u]) /\ ~call'[t].owed
    BY DEF SendThrows, TypeOK
  <2>. QED BY <2>1, <2>2 DEF Tells, MayAbort, Shape
<1>. QED BY <1>1, <1>2, <1>3, <1>4, <1>5, <1>6, <1>7, <1>8, <1>9, <1>10

LEMMA BeginCloseKeeps == ASSUME IInv, NEW t \in Tasks, NEW code \in Codes, BeginClose(t, code) PROVE IInv'
<1>1. TypeOK'
  <2>1. [Idle EXCEPT !.at = "close", !.on = ws, !.code = code,
              !.owed = Usable(ws) /\ wire[ws].up /\ wire[ws].told = None] \in Calls
    BY IdleType DEF Calls, Labels, TypeOK, BeginClose, Usable
  <2>2. call' \in [Tasks -> Calls]
    BY <2>1, CallType DEF BeginClose
  <2>3. raced' \cup crossed' \subseteq Sockets
    BY DEF BeginClose, TypeOK
  <2>. QED BY <2>2, <2>3 DEF BeginClose, TypeOK, Calls
<1>2. Shape'
  BY DEF BeginClose, TypeOK, Shape
<1>3. NotYet'
  BY DEF BeginClose, TypeOK, Shape, NotYet
<1>4. Connects'
  BY SMTT(60) DEF BeginClose, TypeOK, Shape, NotYet, Connects
<1>5. Held' /\ Owns'
  BY SMTT(60) DEF BeginClose, TypeOK, Shape, Connects, Held, Owns
<1>6. Reads'
  BY SMTT(60) DEF BeginClose, TypeOK, Shape, Connects, Held, Owns, Reads
<1>7. Accounted'
  BY SMTT(60) DEF BeginClose, TypeOK, Shape, NotYet, Connects, Held, Owns, Reads, Accounted, Single
<1>8. Watched'
  BY SMTT(60) DEF BeginClose, TypeOK, Shape, NotYet, Connects, Watched
<1>9. Single'
  BY DEF BeginClose, TypeOK, Shape, Connects, Owns, Reads, Single
<1>10. Tells'
  <2>1. Usable(ws) /\ wire[ws].told = None => socket[ws].state \in {"open", "closeReceived"}
    BY DEF BeginClose, Tells, Usable, TypeOK
  <2>2. /\ \A u \in Tasks \ {t} : call'[u] = call[u]
        /\ call'[t].at = "close" /\ call'[t].on = ws /\ (call'[t].owed => Usable(ws) /\ wire[ws].told = None)
        /\ UNCHANGED <<socket, wire>> /\ crossed \subseteq crossed'
    BY DEF BeginClose, TypeOK
  <2>. QED BY <2>1, <2>2 DEF Tells
<1>. QED BY <1>1, <1>2, <1>3, <1>4, <1>5, <1>6, <1>7, <1>8, <1>9, <1>10

LEMMA BeginDisposeKeeps == ASSUME IInv, NEW t \in Tasks, BeginDispose(t) PROVE IInv'
<1>1. TypeOK'
  <2>1. [Idle EXCEPT !.at = "forget", !.on = ws, !.dispose = TRUE] \in Calls
    BY IdleType DEF Calls, Labels, TypeOK, BeginDispose
  <2>2. call' \in [Tasks -> Calls]
    BY <2>1, CallType DEF BeginDispose
  <2>3. raced' \cup crossed' \subseteq Sockets
    BY DEF BeginDispose, TypeOK
  <2>. QED BY <2>2, <2>3 DEF BeginDispose, TypeOK, Calls
<1>2. Shape'
  BY DEF BeginDispose, TypeOK, Shape
<1>3. NotYet'
  BY DEF BeginDispose, TypeOK, Shape, NotYet
<1>4. Connects'
  BY SMTT(60) DEF BeginDispose, TypeOK, Shape, NotYet, Connects
<1>5. Held' /\ Owns'
  BY SMTT(60) DEF BeginDispose, TypeOK, Shape, Connects, Held, Owns
<1>6. Reads'
  BY SMTT(60) DEF BeginDispose, TypeOK, Shape, Connects, Held, Owns, Reads
<1>7. Accounted'
  BY SMTT(60) DEF BeginDispose, TypeOK, Shape, NotYet, Connects, Held, Owns, Reads, Accounted, Single
<1>8. Watched'
  BY SMTT(60) DEF BeginDispose, TypeOK, Shape, NotYet, Connects, Watched
<1>9. Single'
  BY DEF BeginDispose, TypeOK, Shape, Connects, Owns, Reads, Single
<1>10. Tells'
  BY DEF BeginDispose, TypeOK, Shape, Connects, Single, Tells
<1>. QED BY <1>1, <1>2, <1>3, <1>4, <1>5, <1>6, <1>7, <1>8, <1>9, <1>10

LEMMA ForgetSocketKeeps == ASSUME IInv, NEW t \in Tasks, ForgetSocket(t) PROVE IInv'
<1>1. TypeOK'
  <2>1. call' \in [Tasks -> Calls]
    BY GotoType DEF ForgetSocket, Labels
  <2>. QED BY <2>1 DEF ForgetSocket, TypeOK, Calls
<1>2. Shape'
  BY DEF ForgetSocket, TypeOK, Shape
<1>3. NotYet'
  BY DEF ForgetSocket, TypeOK, Shape, NotYet
<1>4. Connects'
  BY SMTT(60) DEF ForgetSocket, TypeOK, Shape, NotYet, Connects
<1>5. Held' /\ Owns'
  BY SMTT(60) DEF ForgetSocket, TypeOK, Shape, Connects, Held, Owns
<1>6. Reads'
  BY SMTT(60) DEF ForgetSocket, TypeOK, Shape, Connects, Held, Owns, Reads
<1>7. Accounted'
  BY SMTT(60) DEF ForgetSocket, TypeOK, Shape, NotYet, Connects, Held, Owns, Reads, Accounted, Single
<1>8. Watched'
  BY SMTT(60) DEF ForgetSocket, TypeOK, Shape, NotYet, Connects, Watched
<1>9. Single'
  BY DEF ForgetSocket, TypeOK, Shape, Connects, Owns, Reads, Single
<1>10. Tells'
  BY DEF ForgetSocket, TypeOK, Shape, Connects, Single, Tells
<1>. QED BY <1>1, <1>2, <1>3, <1>4, <1>5, <1>6, <1>7, <1>8, <1>9, <1>10

LEMMA LookAtStateKeeps == ASSUME IInv, NEW t \in Tasks, LookAtState(t) PROVE IInv'
<1>1. TypeOK'
  <2>1. call' \in [Tasks -> Calls]
    BY GotoType DEF LookAtState, Labels
  <2>. QED BY <2>1 DEF LookAtState, TypeOK, Calls
<1>2. Shape'
  BY DEF LookAtState, TypeOK, Shape
<1>3. NotYet'
  BY DEF LookAtState, TypeOK, Shape, NotYet
<1>4. Connects'
  BY SMTT(60) DEF LookAtState, TypeOK, Shape, NotYet, Connects
<1>5. Held' /\ Owns'
  BY SMTT(60) DEF LookAtState, TypeOK, Shape, Connects, Held, Owns
<1>6. Reads'
  BY SMTT(60) DEF LookAtState, TypeOK, Shape, Connects, Held, Owns, Reads
<1>7. Accounted'
  BY SMTT(60) DEF LookAtState, TypeOK, Shape, NotYet, Connects, Held, Owns, Reads, Accounted, Single
<1>8. Watched'
  BY SMTT(60) DEF LookAtState, TypeOK, Shape, NotYet, Connects, Watched
<1>9. Single'
  BY DEF LookAtState, TypeOK, Shape, Connects, Owns, Reads, Single
<1>10. Tells'
  BY DEF LookAtState, TypeOK, Shape, Connects, Single, Tells
<1>. QED BY <1>1, <1>2, <1>3, <1>4, <1>5, <1>6, <1>7, <1>8, <1>9, <1>10

LEMMA SendCloseKeeps == ASSUME IInv, NEW t \in Tasks, SendClose(t) PROVE IInv'
<1>1. TypeOK'
  <2>1. call' \in [Tasks -> Calls]
    BY GotoType DEF SendClose, Labels
  <2>2. socket' \in [Sockets -> Socket]
    <3>1. PICK st \in States : socket' = [socket EXCEPT ![call[t].on].state = st]
      BY DEF SendClose, States
    <3>. QED BY <3>1, StateType DEF SendClose, Shape
  <2>3. wire' \in [Sockets -> Wire]
    <3>1. wire[call[t].on] \in Wire /\ call[t].code \in Codes
      BY DEF SendClose, TypeOK, Shape, Wire
    <3>2. [wire[call[t].on] EXCEPT !.told = call[t].code] \in Wire
      BY <3>1 DEF Wire
    <3>. QED BY <3>2, WireType DEF SendClose, Shape
  <2>. QED BY <2>1, <2>2, <2>3 DEF SendClose, TypeOK, Calls, Wire
<1>2. Shape'
  BY DEF SendClose, TypeOK, Shape
<1>3. NotYet'
  BY DEF SendClose, TypeOK, Shape, NotYet
<1>4. Connects'
  BY SMTT(60) DEF SendClose, TypeOK, Shape, NotYet, Connects
<1>5. Held' /\ Owns'
  BY SMTT(60) DEF SendClose, TypeOK, Shape, Connects, Held, Owns
<1>6. Reads'
  BY SMTT(60) DEF SendClose, TypeOK, Shape, Connects, Held, Owns, Reads
<1>7. Accounted'
  BY SMTT(60) DEF SendClose, TypeOK, Shape, NotYet, Connects, Held, Owns, Reads, Accounted, Single
<1>8. Watched'
  BY SMTT(60) DEF SendClose, TypeOK, Shape, NotYet, Connects, Watched
<1>9. Single'
  BY DEF SendClose, TypeOK, Shape, Connects, Owns, Reads, Single
<1>10. Tells'
  <2>1. /\ \A u \in Tasks \ {t} : call'[u] = call[u]
        /\ call'[t].at = "wait" /\ call'[t].on = call[t].on /\ call'[t].code = call[t].code
        /\ UNCHANGED crossed
    BY DEF SendClose, TypeOK
  <2>2. /\ \A r \in Sockets \ {call[t].on} : wire'[r] = wire[r] /\ socket'[r] = socket[r]
        /\ wire'[call[t].on].told = call[t].code
    BY DEF SendClose, TypeOK, Shape
  <2>3. call[t].code # None
    BY DEF TypeOK, Frames
  <2>4. \A u \in Tasks \ {t} : call[u].owed /\ call[u].on \notin crossed => call[u].on # call[t].on
    BY DEF SendClose, Shape, Single
  <2>. QED BY <2>1, <2>2, <2>3, <2>4 DEF Tells, Shape
<1>. QED BY <1>1, <1>2, <1>3, <1>4, <1>5, <1>6, <1>7, <1>8, <1>9, <1>10

LEMMA JoinCloseKeeps == ASSUME IInv, NEW t \in Tasks, JoinClose(t) PROVE IInv'
<1>1. TypeOK'
  <2>1. call' \in [Tasks -> Calls]
    BY GotoType DEF JoinClose, Labels
  <2>. QED BY <2>1 DEF JoinClose, TypeOK, Calls
<1>2. Shape'
  BY DEF JoinClose, TypeOK, Shape
<1>3. NotYet'
  BY DEF JoinClose, TypeOK, Shape, NotYet
<1>4. Connects'
  BY SMTT(60) DEF JoinClose, TypeOK, Shape, NotYet, Connects
<1>5. Held' /\ Owns'
  BY SMTT(60) DEF JoinClose, TypeOK, Shape, Connects, Held, Owns
<1>6. Reads'
  BY SMTT(60) DEF JoinClose, TypeOK, Shape, Connects, Held, Owns, Reads
<1>7. Accounted'
  BY SMTT(60) DEF JoinClose, TypeOK, Shape, NotYet, Connects, Held, Owns, Reads, Accounted, Single
<1>8. Watched'
  BY SMTT(60) DEF JoinClose, TypeOK, Shape, NotYet, Connects, Watched
<1>9. Single'
  BY DEF JoinClose, TypeOK, Shape, Connects, Owns, Reads, Single
<1>10. Tells'
  BY DEF JoinClose, TypeOK, Shape, Connects, Single, Tells
<1>. QED BY <1>1, <1>2, <1>3, <1>4, <1>5, <1>6, <1>7, <1>8, <1>9, <1>10

LEMMA CloseEndsKeeps == ASSUME IInv, NEW t \in Tasks, CloseEnds(t) PROVE IInv'
<1>1. TypeOK'
  <2>1. call' \in [Tasks -> Calls]
    BY GotoType DEF CloseEnds, Labels
  <2>2. socket' \in [Sockets -> Socket]
    BY AbortType DEF CloseEnds, Shape
  <2>. QED BY <2>1, <2>2 DEF CloseEnds, TypeOK, Calls
<1>2. Shape'
  BY DEF CloseEnds, TypeOK, Shape
<1>3. NotYet'
  <2>1. MayAbort(call[t].on) /\ UNCHANGED source
    BY AbortStates DEF CloseEnds, Shape
  <2>2. \A u \in Tasks : \/ call'[u] = call[u]
                         \/ call'[u].at \in {"idle", "stop"} /\ call'[u].cts \in {call[u].cts, None}
    BY DEF CloseEnds, TypeOK
  <2>3. \A r \in Sockets : loop[r] = "none" => loop'[r] = "none"
    BY DEF CloseEnds, TypeOK
  <2>. QED BY <2>1, <2>2, <2>3, SMTT(60) DEF TypeOK, Shape, NotYet, MayAbort
<1>4. Connects'
  BY SMTT(60) DEF CloseEnds, TypeOK, Shape, NotYet, Connects
<1>5. Held' /\ Owns'
  BY SMTT(60) DEF CloseEnds, TypeOK, Shape, Connects, Held, Owns
<1>6. Reads'
  BY SMTT(60) DEF CloseEnds, TypeOK, Shape, Connects, Held, Owns, Reads
<1>7. Accounted'
  BY SMTT(60) DEF CloseEnds, TypeOK, Shape, NotYet, Connects, Held, Owns, Reads, Accounted, Single
<1>8. Watched'
  <2>1. MayAbort(call[t].on) /\ UNCHANGED <<ws, raced>>
    BY AbortStates DEF CloseEnds, Shape
  <2>2. \A u \in Tasks : (Connecting(u)' <=> Connecting(u)) /\ (~Sending(u) => call'[u].on = call[u].on) /\ (~Sending(u)' => ~Sending(u))
    BY DEF CloseEnds, TypeOK
  <2>3. \A r \in Sockets \ raced : loop'[r] = "ended" => socket'[r].state # "open"
    BY <2>1 DEF CloseEnds, TypeOK, Watched, MayAbort
  <2>4. \A r \in Sockets : (loop'[r] = "none" <=> loop[r] = "none") /\ (socket'[r].state = "open" => socket[r].state = "open")
    BY <2>1 DEF CloseEnds, TypeOK, MayAbort
  <2>. QED BY <2>1, <2>2, <2>3, <2>4 DEF Watched, TypeOK, Shape
<1>9. Single'
  BY DEF CloseEnds, TypeOK, Shape, Connects, Owns, Reads, Single
<1>10. Tells'
  <2>1. MayAbort(call[t].on) /\ UNCHANGED <<wire, crossed>>
    BY AbortStates DEF CloseEnds, Shape
  <2>2. call[t].owed /\ call[t].on \notin crossed => Told(call[t].on, call[t].code)
    BY DEF CloseEnds, Tells, Usable
  <2>3. /\ \A u \in Tasks \ {t} : call'[u] = call[u]
        /\ call'[t].at = "stop" /\ call'[t].on = call[t].on /\ call'[t].code = call[t].code
        /\ call'[t].owed = call[t].owed
    BY DEF CloseEnds, TypeOK
  <2>. QED BY <2>1, <2>2, <2>3 DEF Tells, MayAbort, Shape
<1>. QED BY <1>1, <1>2, <1>3, <1>4, <1>5, <1>6, <1>7, <1>8, <1>9, <1>10

LEMMA CloseReceivesKeeps == ASSUME IInv, NEW t \in Tasks, CloseReceives(t) PROVE IInv'
<1>1. TypeOK'
  <2>1. call' \in [Tasks -> Calls]
    BY GotoType DEF CloseReceives, Labels
  <2>2. [state |-> "closed", status |-> wire[call[t].on].sent] \in Socket
    BY DEF CloseReceives, TypeOK, Shape, Socket
  <2>3. socket' \in [Sockets -> Socket]
    BY <2>2 DEF CloseReceives, TypeOK
  <2>. QED BY <2>1, <2>3 DEF CloseReceives, TypeOK, Calls
<1>2. Shape'
  BY DEF CloseReceives, TypeOK, Shape
<1>3. NotYet'
  BY DEF CloseReceives, TypeOK, Shape, NotYet
<1>4. Connects'
  BY SMTT(60) DEF CloseReceives, TypeOK, Shape, NotYet, Connects
<1>5. Held' /\ Owns'
  BY SMTT(60) DEF CloseReceives, TypeOK, Shape, Connects, Held, Owns
<1>6. Reads'
  BY SMTT(60) DEF CloseReceives, TypeOK, Shape, Connects, Held, Owns, Reads
<1>7. Accounted'
  BY SMTT(60) DEF CloseReceives, TypeOK, Shape, NotYet, Connects, Held, Owns, Reads, Accounted, Single
<1>8. Watched'
  BY SMTT(60) DEF CloseReceives, TypeOK, Shape, NotYet, Connects, Watched
<1>9. Single'
  BY DEF CloseReceives, TypeOK, Shape, Connects, Owns, Reads, Single
<1>10. Tells'
  BY DEF CloseReceives, TypeOK, Shape, Connects, Single, Tells
<1>. QED BY <1>1, <1>2, <1>3, <1>4, <1>5, <1>6, <1>7, <1>8, <1>9, <1>10

LEMMA CloseCancelledKeeps == ASSUME IInv, NEW t \in Tasks, CloseCancelled(t) PROVE IInv'
<1>1. TypeOK'
  <2>1. socket' \in [Sockets -> Socket]
    BY AbortType DEF CloseCancelled, Shape
  <2>2. call' = [call EXCEPT ![t] = [call[t] EXCEPT !.at = "stop", !.owed = FALSE]] /\ call \in [Tasks -> Calls]
    BY DEF CloseCancelled, TypeOK, Calls
  <2>3. [call[t] EXCEPT !.at = "stop", !.owed = FALSE] \in Calls
    BY <2>2, ZenonT(60) DEF Calls, Labels
  <2>4. call' \in [Tasks -> Calls]
    BY <2>2, <2>3
  <2>. QED BY <2>1, <2>4 DEF CloseCancelled, TypeOK, Calls
<1>2. Shape'
  BY DEF CloseCancelled, TypeOK, Shape
<1>3. NotYet'
  <2>1. MayAbort(call[t].on) /\ UNCHANGED source
    BY AbortStates DEF CloseCancelled, Shape
  <2>2. \A u \in Tasks : \/ call'[u] = call[u]
                         \/ call'[u].at \in {"idle", "stop"} /\ call'[u].cts \in {call[u].cts, None}
    BY DEF CloseCancelled, TypeOK
  <2>3. \A r \in Sockets : loop[r] = "none" => loop'[r] = "none"
    BY DEF CloseCancelled, TypeOK
  <2>. QED BY <2>1, <2>2, <2>3, SMTT(60) DEF TypeOK, Shape, NotYet, MayAbort
<1>4. Connects'
  BY SMTT(60) DEF CloseCancelled, TypeOK, Shape, NotYet, Connects
<1>5. Held' /\ Owns'
  <2>1. /\ \A u \in Tasks \ {t} : call'[u] = call[u]
        /\ call'[t].at = "stop" /\ call'[t].on = call[t].on /\ call'[t].dispose = call[t].dispose
    BY DEF CloseCancelled, TypeOK
  <2>2. UNCHANGED <<ws, receiveLoopCts, receiveLoop, raced>> /\ call[t].at \in BeforeClear
    BY DEF CloseCancelled
  <2>3. Held'
    BY <2>1, <2>2, HeldStays
  <2>. QED BY <2>1, <2>2, <2>3 DEF Owns
<1>6. Reads'
  BY SMTT(60) DEF CloseCancelled, TypeOK, Shape, Connects, Held, Owns, Reads
<1>7. Accounted'
  <2>1. /\ \A u \in Tasks \ {t} : call'[u] = call[u]
        /\ call[t].at \in {"shake", "wait"} /\ UNCHANGED <<receiveLoop, loop, source, raced, crossed>>
    BY DEF CloseCancelled, TypeOK
  <2>. QED BY <2>1, AccountedStays
<1>8. Watched'
  <2>1. MayAbort(call[t].on) /\ UNCHANGED <<ws, raced>>
    BY AbortStates DEF CloseCancelled, Shape
  <2>2. \A u \in Tasks : (Connecting(u)' <=> Connecting(u)) /\ (~Sending(u) => call'[u].on = call[u].on) /\ (~Sending(u)' => ~Sending(u))
    BY DEF CloseCancelled, TypeOK
  <2>3. \A r \in Sockets \ raced : loop'[r] = "ended" => socket'[r].state # "open"
    BY <2>1 DEF CloseCancelled, TypeOK, Watched, MayAbort
  <2>4. \A r \in Sockets : (loop'[r] = "none" <=> loop[r] = "none") /\ (socket'[r].state = "open" => socket[r].state = "open")
    BY <2>1 DEF CloseCancelled, TypeOK, MayAbort
  <2>. QED BY <2>1, <2>2, <2>3, <2>4 DEF Watched, TypeOK, Shape
<1>9. Single'
  BY DEF CloseCancelled, TypeOK, Shape, Connects, Owns, Reads, Single
<1>10. Tells'
  <2>1. MayAbort(call[t].on)
    BY AbortStates DEF CloseCancelled, Shape
  <2>. QED BY <2>1 DEF CloseCancelled, TypeOK, Shape, Single, Tells, MayAbort
<1>. QED BY <1>1, <1>2, <1>3, <1>4, <1>5, <1>6, <1>7, <1>8, <1>9, <1>10

LEMMA ReadSourceKeeps == ASSUME IInv, NEW t \in Tasks, ReadSource(t) PROVE IInv'
<1>1. TypeOK'
  <2>1. /\ call' = [call EXCEPT ![t] = [call[t] EXCEPT !.at = "readLoop", !.cts = receiveLoopCts]]
        /\ call \in [Tasks -> Calls]
    BY DEF ReadSource, TypeOK, Calls
  <2>2. [call[t] EXCEPT !.at = "readLoop", !.cts = receiveLoopCts] \in Calls
    <3>1. receiveLoopCts \in Sockets \cup {None}
      BY DEF TypeOK
    <3>. QED BY <2>1, <3>1, ZenonT(60) DEF Calls, Labels
  <2>3. call' \in [Tasks -> Calls]
    BY <2>1, <2>2
  <2>. QED BY <2>3 DEF ReadSource, TypeOK, Calls
<1>2. Shape'
  BY DEF ReadSource, TypeOK, Shape
<1>3. NotYet'
  BY DEF ReadSource, TypeOK, Shape, NotYet
<1>4. Connects'
  BY SMTT(60) DEF ReadSource, TypeOK, Shape, NotYet, Connects
<1>5. Held' /\ Owns'
  <2>1. /\ \A u \in Tasks \ {t} : call'[u] = call[u]
        /\ call'[t].at = "readLoop" /\ call'[t].on = call[t].on /\ call'[t].dispose = call[t].dispose
    BY DEF ReadSource, TypeOK
  <2>2. UNCHANGED <<ws, receiveLoopCts, receiveLoop, raced>> /\ call[t].at \in BeforeClear
    BY DEF ReadSource
  <2>3. Held'
    BY <2>1, <2>2, HeldStays
  <2>. QED BY <2>1, <2>2, <2>3 DEF Owns
<1>6. Reads'
  BY SMTT(60) DEF ReadSource, TypeOK, Shape, Connects, Held, Owns, Reads
<1>7. Accounted'
  <2>1. /\ \A u \in Tasks \ {t} : call'[u] = call[u]
        /\ call[t].at = "stop" /\ UNCHANGED <<receiveLoop, loop, source, raced, crossed>>
    BY DEF ReadSource, TypeOK
  <2>. QED BY <2>1, AccountedStays
<1>8. Watched'
  BY SMTT(60) DEF ReadSource, TypeOK, Shape, NotYet, Connects, Watched
<1>9. Single'
  BY DEF ReadSource, TypeOK, Shape, Connects, Owns, Reads, Single
<1>10. Tells'
  BY DEF ReadSource, TypeOK, Shape, Connects, Single, Tells
<1>. QED BY <1>1, <1>2, <1>3, <1>4, <1>5, <1>6, <1>7, <1>8, <1>9, <1>10

LEMMA ReadLoopKeeps == ASSUME IInv, NEW t \in Tasks, ReadLoop(t) PROVE IInv'
<1>1. TypeOK'
  <2>1. /\ call' = [call EXCEPT ![t] = [call[t] EXCEPT !.at = "clearSource", !.loop = receiveLoop]]
        /\ call \in [Tasks -> Calls]
    BY DEF ReadLoop, TypeOK, Calls
  <2>2. [call[t] EXCEPT !.at = "clearSource", !.loop = receiveLoop] \in Calls
    <3>1. receiveLoop \in Sockets \cup {None}
      BY DEF TypeOK
    <3>. QED BY <2>1, <3>1, ZenonT(60) DEF Calls, Labels
  <2>3. call' \in [Tasks -> Calls]
    BY <2>1, <2>2
  <2>. QED BY <2>3 DEF ReadLoop, TypeOK, Calls
<1>2. Shape'
  BY DEF ReadLoop, TypeOK, Shape
<1>3. NotYet'
  BY DEF ReadLoop, TypeOK, Shape, NotYet
<1>4. Connects'
  BY SMTT(60) DEF ReadLoop, TypeOK, Shape, NotYet, Connects
<1>5. Held' /\ Owns'
  <2>1. /\ \A u \in Tasks \ {t} : call'[u] = call[u]
        /\ call'[t].at = "clearSource" /\ call'[t].on = call[t].on /\ call'[t].dispose = call[t].dispose
    BY DEF ReadLoop, TypeOK
  <2>2. UNCHANGED <<ws, receiveLoopCts, receiveLoop, raced>> /\ call[t].at \in BeforeClear
    BY DEF ReadLoop
  <2>3. Held'
    BY <2>1, <2>2, HeldStays
  <2>. QED BY <2>1, <2>2, <2>3 DEF Owns
<1>6. Reads'
  BY SMTT(60) DEF ReadLoop, TypeOK, Shape, Connects, Held, Owns, Reads
<1>7. Accounted'
  <2>1. /\ \A u \in Tasks \ {t} : call'[u] = call[u]
        /\ call[t].at = "readLoop" /\ UNCHANGED <<receiveLoop, loop, source, raced, crossed>>
    BY DEF ReadLoop, TypeOK
  <2>. QED BY <2>1, AccountedStays
<1>8. Watched'
  BY SMTT(60) DEF ReadLoop, TypeOK, Shape, NotYet, Connects, Watched
<1>9. Single'
  BY DEF ReadLoop, TypeOK, Shape, Connects, Owns, Reads, Single
<1>10. Tells'
  BY DEF ReadLoop, TypeOK, Shape, Connects, Single, Tells
<1>. QED BY <1>1, <1>2, <1>3, <1>4, <1>5, <1>6, <1>7, <1>8, <1>9, <1>10

LEMMA ClearSourceKeeps == ASSUME IInv, NEW t \in Tasks, ClearSource(t) PROVE IInv'
<1>1. TypeOK'
  <2>1. call' \in [Tasks -> Calls]
    BY GotoType DEF ClearSource, Labels
  <2>. QED BY <2>1 DEF ClearSource, TypeOK, Calls
<1>2. Shape'
  BY DEF ClearSource, TypeOK, Shape
<1>3. NotYet'
  BY DEF ClearSource, TypeOK, Shape, NotYet
<1>4. Connects'
  BY SMTT(60) DEF ClearSource, TypeOK, Shape, NotYet, Connects
<1>5. Held' /\ Owns'
  BY SMTT(60) DEF ClearSource, TypeOK, Shape, Connects, Held, Owns
<1>6. Reads'
  BY SMTT(60) DEF ClearSource, TypeOK, Shape, Connects, Held, Owns, Reads
<1>7. Accounted'
  BY SMTT(60) DEF ClearSource, TypeOK, Shape, NotYet, Connects, Held, Owns, Reads, Accounted, Single
<1>8. Watched'
  BY SMTT(60) DEF ClearSource, TypeOK, Shape, NotYet, Connects, Watched
<1>9. Single'
  BY DEF ClearSource, TypeOK, Shape, Connects, Owns, Reads, Single
<1>10. Tells'
  BY DEF ClearSource, TypeOK, Shape, Connects, Single, Tells
<1>. QED BY <1>1, <1>2, <1>3, <1>4, <1>5, <1>6, <1>7, <1>8, <1>9, <1>10

LEMMA ClearLoopKeeps == ASSUME IInv, NEW t \in Tasks, ClearLoop(t) PROVE IInv'
<1>1. TypeOK'
  <2>1. call' \in [Tasks -> Calls]
    BY GotoType DEF ClearLoop, Labels
  <2>. QED BY <2>1 DEF ClearLoop, TypeOK, Calls
<1>2. Shape'
  BY DEF ClearLoop, TypeOK, Shape
<1>3. NotYet'
  BY DEF ClearLoop, TypeOK, Shape, NotYet
<1>4. Connects'
  BY SMTT(60) DEF ClearLoop, TypeOK, Shape, NotYet, Connects
<1>5. Held' /\ Owns'
  BY SMTT(60) DEF ClearLoop, TypeOK, Shape, Connects, Held, Owns
<1>6. Reads'
  BY SMTT(60) DEF ClearLoop, TypeOK, Shape, Connects, Held, Owns, Reads
<1>7. Accounted'
  BY SMTT(60) DEF ClearLoop, TypeOK, Shape, NotYet, Connects, Held, Owns, Reads, Accounted, Single
<1>8. Watched'
  BY SMTT(60) DEF ClearLoop, TypeOK, Shape, NotYet, Connects, Watched
<1>9. Single'
  BY DEF ClearLoop, TypeOK, Shape, Connects, Owns, Reads, Single
<1>10. Tells'
  BY DEF ClearLoop, TypeOK, Shape, Connects, Single, Tells
<1>. QED BY <1>1, <1>2, <1>3, <1>4, <1>5, <1>6, <1>7, <1>8, <1>9, <1>10

LEMMA CancelThrowsKeeps == ASSUME IInv, NEW t \in Tasks, CancelThrows(t) PROVE IInv'
<1>1. TypeOK'
  <2>1. call' \in [Tasks -> Calls]
    BY ReturnType DEF CancelThrows
  <2>. QED BY <2>1 DEF CancelThrows, TypeOK, Calls
<1>2. Shape'
  BY DEF CancelThrows, TypeOK, Shape
<1>3. NotYet'
  BY DEF CancelThrows, TypeOK, Shape, NotYet
<1>4. Connects'
  BY SMTT(60) DEF CancelThrows, TypeOK, Shape, NotYet, Connects
<1>5. Held' /\ Owns'
  <2>1. /\ \A u \in Tasks \ {t} : call'[u] = call[u]
        /\ UNCHANGED <<ws, receiveLoopCts, receiveLoop, raced>>
        /\ call[t].at \in {"cancel", "await", "dispose"}
    BY DEF CancelThrows, TypeOK
  <2>2. Held'
    BY <2>1, HeldStays
  <2>3. Owns'
    BY DEF CancelThrows, TypeOK, Owns
  <2>. QED BY <2>2, <2>3
<1>6. Reads'
  BY SMTT(60) DEF CancelThrows, TypeOK, Shape, Connects, Held, Owns, Reads
<1>7. Accounted'
  BY SMTT(60) DEF CancelThrows, TypeOK, Shape, NotYet, Connects, Held, Owns, Reads, Accounted, Single
<1>8. Watched'
  BY SMTT(60) DEF CancelThrows, TypeOK, Shape, NotYet, Connects, Watched
<1>9. Single'
  BY DEF CancelThrows, TypeOK, Shape, Connects, Owns, Reads, Single
<1>10. Tells'
  BY DEF CancelThrows, TypeOK, Shape, Connects, Single, Tells
<1>. QED BY <1>1, <1>2, <1>3, <1>4, <1>5, <1>6, <1>7, <1>8, <1>9, <1>10

LEMMA CancelSourceKeeps == ASSUME IInv, NEW t \in Tasks, CancelSource(t) PROVE IInv'
<1>1. TypeOK'
  <2>1. call' \in [Tasks -> Calls]
    BY GotoType DEF CancelSource, Labels
  <2>. QED BY <2>1 DEF CancelSource, TypeOK, Calls
<1>2. Shape'
  BY DEF CancelSource, TypeOK, Shape
<1>3. NotYet'
  <2>1. /\ \A u \in Tasks \ {t} : call'[u] = call[u]
        /\ call'[t].at = "await" /\ call'[t].cts = call[t].cts
    BY DEF CancelSource, TypeOK
  <2>2. \A s \in Sockets : source'[s] = "none" <=> source[s] = "none"
    BY DEF CancelSource, TypeOK, NotYet
  <2>. QED BY <2>1, <2>2 DEF CancelSource, NotYet, Shape, TypeOK
<1>4. Connects'
  BY SMTT(60) DEF CancelSource, TypeOK, Shape, NotYet, Connects
<1>5. Held' /\ Owns'
  BY SMTT(60) DEF CancelSource, TypeOK, Shape, Connects, Held, Owns
<1>6. Reads'
  BY SMTT(60) DEF CancelSource, TypeOK, Shape, Connects, Held, Owns, Reads
<1>7. Accounted'
  BY SMTT(60) DEF CancelSource, TypeOK, Shape, NotYet, Connects, Held, Owns, Reads, Accounted, Single
<1>8. Watched'
  BY SMTT(60) DEF CancelSource, TypeOK, Shape, NotYet, Connects, Watched
<1>9. Single'
  BY DEF CancelSource, TypeOK, Shape, Connects, Owns, Reads, Single
<1>10. Tells'
  BY DEF CancelSource, TypeOK, Shape, Connects, Single, Tells
<1>. QED BY <1>1, <1>2, <1>3, <1>4, <1>5, <1>6, <1>7, <1>8, <1>9, <1>10

LEMMA AwaitLoopKeeps == ASSUME IInv, NEW t \in Tasks, AwaitLoop(t) PROVE IInv'
<1>1. TypeOK'
  <2>1. call' \in [Tasks -> Calls]
    BY GotoType, ReturnType DEF AwaitLoop, Labels
  <2>2. source' \in [Sockets -> {"none", "live", "cancelled", "disposed"}]
    BY DEF AwaitLoop, TypeOK
  <2>3. receiveLoopCts # None => source'[receiveLoopCts] # "none"
    BY DEF AwaitLoop, TypeOK
  <2>. QED BY <2>1, <2>2, <2>3 DEF AwaitLoop, TypeOK, Calls
<1>2. Shape'
  <2>1. \A u \in Tasks \ {t} : call'[u] = call[u]
    BY DEF AwaitLoop, TypeOK
  <2>2. call[t].at = "await" /\ UNCHANGED <<ws, raced, crossed>>
    BY DEF AwaitLoop
  <2>3. \/ call'[t].at = "idle" /\ ~call'[t].dispose
        \/ call'[t].at = "dispose" /\ call'[t].dispose /\ call[t].dispose
    BY DEF AwaitLoop, TypeOK
  <2>4. call'[t].at = "dispose" => call'[t].on = call[t].on
    BY DEF AwaitLoop, TypeOK
  <2>5. ~call'[t].owed
    <3>1. call[t].dispose => ~call[t].owed
      BY DEF Shape
    <3>2. call'[t].owed => call[t].owed
      BY <2>3 DEF AwaitLoop, TypeOK
    <3>. QED BY <2>3, <3>1, <3>2 DEF AwaitLoop, TypeOK
  <2>. QED BY <2>1, <2>2, <2>3, <2>4, <2>5 DEF Shape
<1>3. NotYet'
  <2>1. \A u \in Tasks \ {t} : call'[u] = call[u]
    BY DEF AwaitLoop, TypeOK
  <2>2. call'[t].at \in {"dispose", "idle"} /\ call'[t].cts \in {call[t].cts, None}
    BY DEF AwaitLoop, TypeOK
  <2>3. \A s \in Sockets : source'[s] = "none" <=> source[s] = "none"
    BY DEF AwaitLoop, TypeOK, NotYet
  <2>. QED BY <2>1, <2>2, <2>3, SMTT(60) DEF AwaitLoop, NotYet, Shape, TypeOK
<1>4. Connects'
  BY SMTT(60) DEF AwaitLoop, TypeOK, Shape, NotYet, Connects
<1>5. Held' /\ Owns'
  <2>1. /\ \A u \in Tasks \ {t} : call'[u] = call[u]
        /\ UNCHANGED <<ws, receiveLoopCts, receiveLoop, raced>> /\ call[t].at = "await"
        /\ Sending(t)' \/ call'[t].on = call[t].on
    BY DEF AwaitLoop, TypeOK
  <2>2. Held'
    BY <2>1, HeldStays
  <2>. QED BY <2>1, <2>2 DEF Owns
<1>6. Reads'
  BY SMTT(60) DEF AwaitLoop, TypeOK, Shape, Connects, Held, Owns, Reads
<1>7. Accounted'
  <2>1. \A u \in Tasks \ {t} : call'[u] = call[u]
    BY DEF AwaitLoop, TypeOK
  <2>2. /\ call[t].at = "await" /\ (call[t].loop # None => loop[call[t].loop] = "ended")
        /\ UNCHANGED <<receiveLoop, loop, raced, crossed>>
    BY DEF AwaitLoop
  <2>3. \A s \in Sockets : source'[s] = "live" => source[s] = "live"
    BY DEF AwaitLoop, TypeOK
  <2>. QED BY <2>1, <2>2, <2>3, AccountedStays
<1>8. Watched'
  <2>1. \A u \in Tasks \ {t} : call'[u] = call[u]
    BY DEF AwaitLoop, TypeOK
  <2>2. /\ call[t].at = "await" /\ UNCHANGED <<ws, socket, loop, raced>>
        /\ call'[t].at \in {"dispose", "idle"} /\ (call'[t].at = "dispose" => call'[t].on = call[t].on)
    BY DEF AwaitLoop, TypeOK
  <2>. QED BY <2>1, <2>2 DEF Watched
<1>9. Single'
  <2>1. /\ \A u \in Tasks \ {t} : call'[u] = call[u]
        /\ call[t].at = "await" /\ UNCHANGED <<receiveLoopCts, raced, crossed>>
        /\ call'[t].at \in {"dispose", "idle"} /\ (call'[t].at = "dispose" => call'[t].on = call[t].on)
    BY DEF AwaitLoop, TypeOK
  <2>2. \A s \in Sockets : source'[s] = "disposed" => source[s] = "disposed" \/ call[t].cts = s
    BY DEF AwaitLoop, TypeOK
  <2>3. \A s \in Sockets \ crossed : call[t].cts = s => receiveLoopCts # s /\ Alone(t)
    BY <2>1 DEF Reads, Single, Shape
  <2>. QED BY <2>1, <2>2, <2>3 DEF Single
<1>10. Tells'
  BY DEF AwaitLoop, TypeOK, Shape, Connects, Single, Tells
<1>. QED BY <1>1, <1>2, <1>3, <1>4, <1>5, <1>6, <1>7, <1>8, <1>9, <1>10

LEMMA DisposeSocketKeeps == ASSUME IInv, NEW t \in Tasks, DisposeSocket(t) PROVE IInv'
<1>1. TypeOK'
  <2>1. call' \in [Tasks -> Calls]
    BY ReturnType DEF DisposeSocket
  <2>2. socket' \in [Sockets -> Socket]
    BY StateType DEF DisposeSocket, Shape, States
  <2>. QED BY <2>1, <2>2 DEF DisposeSocket, TypeOK, Calls
<1>2. Shape'
  BY DEF DisposeSocket, TypeOK, Shape
<1>3. NotYet'
  BY DEF DisposeSocket, TypeOK, Shape, NotYet
<1>4. Connects'
  BY SMTT(60) DEF DisposeSocket, TypeOK, Shape, NotYet, Connects
<1>5. Held' /\ Owns'
  <2>1. /\ \A u \in Tasks \ {t} : call'[u] = call[u]
        /\ UNCHANGED <<ws, receiveLoopCts, receiveLoop, raced>>
        /\ call[t].at \in {"cancel", "await", "dispose"}
    BY DEF DisposeSocket, TypeOK
  <2>2. Held'
    BY <2>1, HeldStays
  <2>3. Owns'
    BY DEF DisposeSocket, TypeOK, Owns
  <2>. QED BY <2>2, <2>3
<1>6. Reads'
  BY SMTT(60) DEF DisposeSocket, TypeOK, Shape, Connects, Held, Owns, Reads
<1>7. Accounted'
  BY SMTT(60) DEF DisposeSocket, TypeOK, Shape, NotYet, Connects, Held, Owns, Reads, Accounted, Single
<1>8. Watched'
  BY SMTT(60) DEF DisposeSocket, TypeOK, Shape, NotYet, Connects, Watched
<1>9. Single'
  BY DEF DisposeSocket, TypeOK, Shape, Connects, Owns, Reads, Single
<1>10. Tells'
  BY DEF DisposeSocket, TypeOK, Shape, Connects, Single, Tells
<1>. QED BY <1>1, <1>2, <1>3, <1>4, <1>5, <1>6, <1>7, <1>8, <1>9, <1>10

LEMMA LoopReceivesCloseKeeps == ASSUME IInv, NEW s \in Sockets, LoopReceivesClose(s) PROVE IInv'
<1>1. TypeOK'
  <2>1. PICK st \in {"closeReceived", "closed"} :
          socket' = [socket EXCEPT ![s] = [state |-> st, status |-> wire[s].sent]]
    BY DEF LoopReceivesClose, TypeOK
  <2>2. [state |-> st, status |-> wire[s].sent] \in Socket
    BY DEF TypeOK, Socket
  <2>3. socket' \in [Sockets -> Socket]
    BY <2>1, <2>2 DEF TypeOK
  <2>. QED BY <2>3 DEF LoopReceivesClose, TypeOK
<1>2. Shape'
  BY DEF LoopReceivesClose, TypeOK, Shape
<1>3. NotYet'
  BY DEF LoopReceivesClose, TypeOK, Shape, NotYet
<1>4. Connects'
  BY SMTT(60) DEF LoopReceivesClose, TypeOK, Shape, NotYet, Connects
<1>5. Held' /\ Owns'
  BY SMTT(60) DEF LoopReceivesClose, TypeOK, Shape, Connects, Held, Owns
<1>6. Reads'
  BY SMTT(60) DEF LoopReceivesClose, TypeOK, Shape, Connects, Held, Owns, Reads
<1>7. Accounted'
  BY SMTT(60) DEF LoopReceivesClose, TypeOK, Shape, NotYet, Connects, Held, Owns, Reads, Accounted, Single
<1>8. Watched'
  BY SMTT(60) DEF LoopReceivesClose, TypeOK, Shape, NotYet, Connects, Watched
<1>9. Single'
  BY DEF LoopReceivesClose, TypeOK, Shape, Connects, Owns, Reads, Single
<1>10. Tells'
  BY DEF LoopReceivesClose, TypeOK, Shape, Connects, Single, Tells
<1>. QED BY <1>1, <1>2, <1>3, <1>4, <1>5, <1>6, <1>7, <1>8, <1>9, <1>10

LEMMA LoopFailsKeeps == ASSUME IInv, NEW s \in Sockets, LoopFails(s) PROVE IInv'
<1>1. TypeOK'
  <2>1. socket' \in [Sockets -> Socket]
    BY AbortType DEF LoopFails, Shape
  <2>. QED BY <2>1 DEF LoopFails, TypeOK, Calls
<1>2. Shape'
  BY DEF LoopFails, TypeOK, Shape
<1>3. NotYet'
  <2>1. MayAbort(s) /\ UNCHANGED source
    BY AbortStates DEF LoopFails
  <2>. QED BY <2>1, SMTT(60) DEF LoopFails, TypeOK, Shape, NotYet, MayAbort
<1>4. Connects'
  BY SMTT(60) DEF LoopFails, TypeOK, Shape, NotYet, Connects
<1>5. Held' /\ Owns'
  BY SMTT(60) DEF LoopFails, TypeOK, Shape, Connects, Held, Owns
<1>6. Reads'
  BY SMTT(60) DEF LoopFails, TypeOK, Shape, Connects, Held, Owns, Reads
<1>7. Accounted'
  BY SMTT(60) DEF LoopFails, TypeOK, Shape, NotYet, Connects, Held, Owns, Reads, Accounted, Single
<1>8. Watched'
  <2>1. MayAbort(s) /\ UNCHANGED <<ws, raced>>
    BY AbortStates DEF LoopFails
  <2>2. call' = call
    BY DEF LoopFails, TypeOK
  <2>3. \A r \in Sockets \ raced : loop'[r] = "ended" => socket'[r].state # "open"
    BY <2>1 DEF LoopFails, TypeOK, Socket, Watched, Aborted, Usable
  <2>4. \A r \in Sockets : (loop'[r] = "none" <=> loop[r] = "none") /\ (socket'[r].state = "open" => socket[r].state = "open")
    BY <2>1 DEF LoopFails, TypeOK, MayAbort
  <2>. QED BY <2>1, <2>2, <2>3, <2>4 DEF Watched, TypeOK, Shape
<1>9. Single'
  BY DEF LoopFails, TypeOK, Shape, Connects, Owns, Reads, Single
<1>10. Tells'
  <2>1. MayAbort(s)
    BY AbortStates DEF LoopFails
  <2>. QED BY <2>1 DEF LoopFails, TypeOK, Shape, Single, Tells, MayAbort
<1>. QED BY <1>1, <1>2, <1>3, <1>4, <1>5, <1>6, <1>7, <1>8, <1>9, <1>10

LEMMA LoopCancelledKeeps == ASSUME IInv, NEW s \in Sockets, LoopCancelled(s) PROVE IInv'
<1>1. TypeOK'
  <2>1. socket' \in [Sockets -> Socket]
    BY AbortType DEF LoopCancelled, Shape
  <2>. QED BY <2>1 DEF LoopCancelled, TypeOK, Calls
<1>2. Shape'
  BY DEF LoopCancelled, TypeOK, Shape
<1>3. NotYet'
  <2>1. MayAbort(s) /\ UNCHANGED source
    BY AbortStates DEF LoopCancelled
  <2>2. \A u \in Tasks : \/ call'[u] = call[u]
                         \/ call'[u].at \in {"idle", "stop"} /\ call'[u].cts \in {call[u].cts, None}
    BY DEF LoopCancelled, TypeOK
  <2>3. \A r \in Sockets : loop[r] = "none" => loop'[r] = "none"
    BY DEF LoopCancelled, TypeOK
  <2>. QED BY <2>1, <2>2, <2>3, SMTT(60) DEF TypeOK, Shape, NotYet, MayAbort
<1>4. Connects'
  BY SMTT(60) DEF LoopCancelled, TypeOK, Shape, NotYet, Connects
<1>5. Held' /\ Owns'
  BY SMTT(60) DEF LoopCancelled, TypeOK, Shape, Connects, Held, Owns
<1>6. Reads'
  BY SMTT(60) DEF LoopCancelled, TypeOK, Shape, Connects, Held, Owns, Reads
<1>7. Accounted'
  BY SMTT(60) DEF LoopCancelled, TypeOK, Shape, NotYet, Connects, Held, Owns, Reads, Accounted, Single
<1>8. Watched'
  <2>1. MayAbort(s) /\ UNCHANGED <<ws, raced>>
    BY AbortStates DEF LoopCancelled
  <2>2. call' = call
    BY DEF LoopCancelled, TypeOK
  <2>3. \A r \in Sockets \ raced : loop'[r] = "ended" => socket'[r].state # "open"
    BY <2>1 DEF LoopCancelled, TypeOK, Socket, Watched, Aborted, Usable
  <2>4. \A r \in Sockets : (loop'[r] = "none" <=> loop[r] = "none") /\ (socket'[r].state = "open" => socket[r].state = "open")
    BY <2>1 DEF LoopCancelled, TypeOK, MayAbort
  <2>. QED BY <2>1, <2>2, <2>3, <2>4 DEF Watched, TypeOK, Shape
<1>9. Single'
  BY DEF LoopCancelled, TypeOK, Shape, Connects, Owns, Reads, Single
<1>10. Tells'
  <2>1. MayAbort(s) /\ UNCHANGED <<wire, crossed, call>>
    BY AbortStates DEF LoopCancelled
  <2>. QED BY <2>1 DEF Tells, MayAbort, Shape
<1>. QED BY <1>1, <1>2, <1>3, <1>4, <1>5, <1>6, <1>7, <1>8, <1>9, <1>10

LEMMA GatewayKeeps ==
  ASSUME IInv, NEW s \in Sockets, GatewayFull(s) \/ GatewayAnswers(s) \/ Lose(s) PROVE IInv'
<1>1. PICK w \in Wire : wire' = [wire EXCEPT ![s] = w] /\ w.told = wire[s].told /\ (w.up => wire[s].up)
  <2>1. wire[s] \in Wire /\ "full" \in Frames /\ Codes \subseteq Frames
    BY DEF TypeOK, Wire, Frames
  <2>2. CASE Lose(s)
    <3>1. [wire[s] EXCEPT !.up = FALSE] \in Wire
      BY <2>1 DEF Wire
    <3>. QED BY <2>1, <2>2, <3>1 DEF Lose, Wire
  <2>3. CASE GatewayFull(s) \/ GatewayAnswers(s)
    <3>1. PICK f \in Frames : GatewayCloses(s, f)
      BY <2>1, <2>3 DEF GatewayFull, GatewayAnswers, Wire
    <3>2. [wire[s] EXCEPT !.sent = f] \in Wire
      BY <2>1 DEF Wire
    <3>. QED BY <2>1, <3>1, <3>2 DEF GatewayCloses, Wire
  <2>. QED BY <2>2, <2>3
<1>2. UNCHANGED <<fields, socket, source, loop, call, raced, crossed>>
  BY DEF GatewayFull, GatewayAnswers, GatewayCloses, Lose
<1>3. TypeOK'
  BY <1>1, <1>2, WireType DEF TypeOK, Wire
<1>4. Shape' /\ NotYet' /\ Connects'
  BY <1>2 DEF Shape, NotYet, Connects
<1>5. Held' /\ Owns' /\ Reads' /\ Accounted' /\ Watched' /\ Single'
  BY <1>2 DEF Held, Owns, Reads, Accounted, Watched, Single
<1>6. Tells'
  BY <1>1, <1>2 DEF Tells, TypeOK, Shape, Wire
<1>. QED BY <1>3, <1>4, <1>5, <1>6

-----------------------------------------------------------------------------
LEMMA InitHolds == Init => IInv
<1>. SUFFICES ASSUME Init PROVE IInv
  OBVIOUS
<1>1. TypeOK
  BY IdleType DEF Init, TypeOK, Calls, Socket
<1>2. Shape /\ NotYet /\ Connects
  BY DEF Init, Shape, NotYet, Connects
<1>3. Held /\ Owns /\ Reads /\ Accounted /\ Watched /\ Single
  BY DEF Init, Held, Owns, Reads, Accounted, Watched, Single
<1>4. Tells
  BY DEF Init, Tells
<1>. QED BY <1>1, <1>2, <1>3, <1>4

LEMMA NextPreserves == ASSUME IInv, [Next]_vars PROVE IInv'
<1>1. CASE UNCHANGED vars
  <2>1. UNCHANGED vars
    BY <1>1
  <2>2. TypeOK'
    BY <2>1 DEF vars, TypeOK
  <2>3. Shape'
    BY <2>1 DEF vars, Shape
  <2>4. NotYet' /\ Connects'
    BY <2>1 DEF vars, NotYet, Connects
  <2>5. Held' /\ Owns' /\ Reads'
    BY <2>1 DEF vars, Held, Owns, Reads
  <2>6. Accounted'
    BY <2>1 DEF vars, Accounted, Single, Reads
  <2>7. Watched' /\ Single' /\ Tells'
    BY <2>1 DEF vars, Watched, Single, Tells
  <2>. QED BY <2>2, <2>3, <2>4, <2>5, <2>6, <2>7
<1>2. ASSUME NEW t \in Tasks, Step(t) PROVE IInv'
  <2>1. CASE AssignSocket(t) \/ AssignSource(t) \/ StartLoop(t) \/ StartWithoutSource(t) \/ KeepLoop(t)
    BY <2>1, AssignSocketKeeps, AssignSourceKeeps, StartLoopKeeps, StartWithoutSourceKeeps, KeepLoopKeeps
  <2>2. CASE ForgetSocket(t) \/ LookAtState(t) \/ SendClose(t) \/ JoinClose(t) \/ CloseEnds(t) \/ CloseReceives(t)
    BY <2>2, ForgetSocketKeeps, LookAtStateKeeps, SendCloseKeeps, JoinCloseKeeps, CloseEndsKeeps, CloseReceivesKeeps
  <2>3. CASE ReadSource(t) \/ ReadLoop(t) \/ ClearSource(t) \/ ClearLoop(t)
    BY <2>3, ReadSourceKeeps, ReadLoopKeeps, ClearSourceKeeps, ClearLoopKeeps
  <2>4. CASE CancelSource(t) \/ CancelThrows(t) \/ AwaitLoop(t) \/ DisposeSocket(t)
    BY <2>4, CancelSourceKeeps, CancelThrowsKeeps, AwaitLoopKeeps, DisposeSocketKeeps
  <2>. QED BY ONLY <1>2, <2>1, <2>2, <2>3, <2>4 DEF Step
<1>3. ASSUME NEW t \in Tasks, NEW s \in Sockets, BeginConnect(t, s) PROVE IInv'
  BY <1>3, BeginConnectKeeps
<1>4. ASSUME NEW t \in Tasks, FailHandshake(t) \/ FinishHandshake(t) PROVE IInv'
  BY <1>4, FailHandshakeKeeps, FinishHandshakeKeeps
<1>5. ASSUME NEW t \in Tasks, BeginSend(t) \/ SendSucceeds(t) \/ SendThrows(t) PROVE IInv'
  BY <1>5, BeginSendKeeps, SendSucceedsKeeps, SendThrowsKeeps
<1>6. ASSUME NEW t \in Tasks, BeginDispose(t) \/ CloseCancelled(t) PROVE IInv'
  BY <1>6, BeginDisposeKeeps, CloseCancelledKeeps
<1>7. ASSUME NEW t \in Tasks, NEW code \in Codes, BeginClose(t, code) PROVE IInv'
  BY <1>7, BeginCloseKeeps
<1>8. ASSUME NEW s \in Sockets, LoopStep(s) PROVE IInv'
  BY <1>8, LoopReceivesCloseKeeps, LoopFailsKeeps, LoopCancelledKeeps DEF LoopStep
<1>9. ASSUME NEW t \in Tasks, CallRefused(t) PROVE IInv'
  BY <1>1, <1>9 DEF CallRefused
<1>10. CASE Next
  BY ONLY <1>2, <1>3, <1>4, <1>5, <1>6, <1>7, <1>8, <1>9, <1>10, IInv, GatewayKeeps DEF Next
<1>. QED BY <1>1, <1>10

LEMMA Inductive == Spec => []IInv
<1>1. Init => IInv
  BY InitHolds
<1>2. IInv /\ [Next]_vars => IInv'
  BY NextPreserves
<1>. QED BY <1>1, <1>2, PTL DEF Spec

\* An open connection on which no close is at work has its receive loop, so
\* that a close frame of the gateway is noticed, unless ConnectAsync raced with
\* a close: for any number of calls at once and of connections in sequence.
THEOREM OpenStaysWatched == Spec => []OpenIsWatched
<1>1. IInv => OpenIsWatched
  <2>. SUFFICES ASSUME IInv, ws # None, ws \notin raced, socket[ws].state = "open",
                       \A t \in Tasks : Sending(t)
                PROVE  loop[ws] = "receiving"
    BY DEF OpenIsWatched
  <2>1. ws \in Sockets \ raced /\ loop[ws] \in {"none", "receiving", "ended"}
    BY DEF TypeOK
  <2>. QED BY <2>1 DEF Watched
<1>. QED BY <1>1, Inductive, PTL

\* Only these two steps bring a call that closes to its end.
LEMMA DealtWith ==
  ASSUME IInv, Next, NEW t \in Tasks, LoopDealtWith(t)
  PROVE  CancelThrows(t) \/ AwaitLoop(t)
<1>1. call[t].at \in {"cancel", "await"} /\ call'[t].at \in {"idle", "dispose"}
  BY DEF LoopDealtWith
<1>2. ASSUME NEW u \in Tasks, Step(u) PROVE CancelThrows(t) \/ AwaitLoop(t)
  <2>1. CASE AssignSocket(u) \/ AssignSource(u) \/ StartLoop(u) \/ StartWithoutSource(u) \/ KeepLoop(u)
    BY <1>1, <2>1 DEF AssignSocket, AssignSource, StartLoop, StartWithoutSource, KeepLoop, TypeOK
  <2>2. CASE ForgetSocket(u) \/ LookAtState(u) \/ SendClose(u) \/ JoinClose(u) \/ CloseEnds(u) \/ CloseReceives(u)
    BY <1>1, <2>2 DEF ForgetSocket, LookAtState, SendClose, JoinClose, CloseEnds, CloseReceives, TypeOK
  <2>3. CASE ReadSource(u) \/ ReadLoop(u) \/ ClearSource(u) \/ ClearLoop(u)
    BY <1>1, <2>3 DEF ReadSource, ReadLoop, ClearSource, ClearLoop, TypeOK
  <2>4. CASE CancelSource(u) \/ DisposeSocket(u)
    BY <1>1, <2>4 DEF CancelSource, DisposeSocket, TypeOK
  <2>5. CASE CancelThrows(u) \/ AwaitLoop(u)
    <3>1. u = t
      BY <1>1, <2>5 DEF CancelThrows, AwaitLoop, TypeOK
    <3>. QED BY <2>5, <3>1
  <2>. QED BY ONLY <1>2, <2>1, <2>2, <2>3, <2>4, <2>5 DEF Step
<1>3. ASSUME NEW u \in Tasks, \/ FailHandshake(u) \/ FinishHandshake(u)
                              \/ BeginSend(u) \/ SendSucceeds(u) \/ SendThrows(u)
      PROVE  FALSE
  BY <1>1, <1>3 DEF FailHandshake, FinishHandshake, BeginSend, SendSucceeds, SendThrows, TypeOK
<1>4. ASSUME NEW u \in Tasks, NEW s \in Sockets, BeginConnect(u, s) PROVE FALSE
  BY <1>1, <1>4 DEF BeginConnect, TypeOK
<1>5. ASSUME NEW u \in Tasks, NEW code \in Codes, BeginDispose(u) \/ CloseCancelled(u) \/ BeginClose(u, code)
      PROVE  FALSE
  BY <1>1, <1>5 DEF BeginDispose, CloseCancelled, BeginClose, TypeOK
<1>6. ASSUME call' = call PROVE FALSE
  BY <1>1, <1>6
<1>7. ASSUME NEW s \in Sockets, LoopStep(s) \/ GatewayFull(s) \/ GatewayAnswers(s) \/ Lose(s) PROVE FALSE
  <2>1. call' = call
    BY <1>7 DEF LoopStep, LoopReceivesClose, LoopFails, LoopCancelled, GatewayFull, GatewayAnswers,
       GatewayCloses, Lose
  <2>. QED BY <1>6, <2>1
<1>8. ASSUME NEW u \in Tasks, CallRefused(u) PROVE FALSE
  BY <1>6, <1>8 DEF CallRefused, vars
<1>9. "normal" \in Codes
  BY CodesAssumption
<1>. QED BY ONLY <1>2, <1>3, <1>4, <1>5, <1>7, <1>8, <1>9, Next DEF Next

\* CloseAsync, EndRecordingAsync and DisposeAsync leave no receive loop that
\* nobody stops, however their steps interleave with those of other calls, the
\* loop's and the gateway's.
THEOREM LoopsAreStopped == Spec => LoopStopped
<1> DEFINE Ended(t) ==
      \/ loop[call[t].on] = "ended"
      \/ /\ call[t].on \in crossed
         /\ \/ source[call[t].on] # "live"
            \/ \E u \in Tasks \ {t} : Stopping(u, call[t].on)
<1>1. ASSUME IInv, Next, NEW t \in Tasks, LoopDealtWith(t), call[t].on \notin raced
      PROVE  Ended(t)
  <2> DEFINE s == call[t].on
  <2>1. call[t].at \in {"cancel", "await"} /\ (CancelThrows(t) \/ AwaitLoop(t))
    BY <1>1, DealtWith DEF LoopDealtWith
  <2>2. s \in Sockets \ raced /\ Ending(t) /\ loop[s] # "none" /\ receiveLoop # s
    BY <1>1, <2>1 DEF Shape, Watched, Reads
  <2>3. loop[s] \in {"ended", "receiving"}
    BY <1>1, <2>2 DEF TypeOK
  <2>4. \A u \in Tasks : call[u].at = "keep" => call[u].on # s
    BY <1>1, <2>2 DEF Connects
  <2>5. Stopping(t, s) => \/ loop[s] = "ended"
                          \/ call[t].at = "cancel" /\ call[t].cts = s /\ source[s] = "disposed"
    BY <1>1, <2>1, <2>2 DEF CancelThrows, AwaitLoop, Reads
  <2>6. CASE s \in crossed
    BY <1>1, <2>2, <2>3, <2>4, <2>5, <2>6 DEF Accounted
  <2>7. CASE s \notin crossed
    <3>1. \A u \in Tasks : Stopping(u, s) => u = t
      BY <1>1, <2>2, <2>7 DEF Single
    <3>2. ~(call[t].at = "cancel" /\ call[t].cts = s /\ source[s] = "disposed")
      BY <1>1, <2>2, <2>7 DEF Single
    <3>. QED BY <1>1, <2>2, <2>3, <2>4, <2>5, <2>7, <3>1, <3>2 DEF Accounted
  <2>. QED BY <2>6, <2>7
<1>2. IInv /\ [Next]_vars => [\A t \in Tasks : LoopDealtWith(t) /\ call[t].on \notin raced => Ended(t)]_vars
  BY <1>1
<1>. QED BY <1>2, Inductive, PTL DEF Spec, LoopStopped

\* A close that no other call overlaps has told the gateway the code it was
\* called with, or found the link lost or the socket aborted.
THEOREM EndsAreTold == Spec => EndIsTold
<1>1. ASSUME IInv, NEW t \in Tasks, LoopDealtWith(t), call[t].on \notin crossed, call[t].owed
      PROVE  Told(call[t].on, call[t].code)
  BY <1>1 DEF Tells, LoopDealtWith
<1>2. IInv => [ \A t \in Tasks :
        LoopDealtWith(t) /\ call[t].on \notin crossed /\ call[t].owed =>
          \/ wire[call[t].on].told = call[t].code
          \/ ~wire[call[t].on].up
          \/ socket[call[t].on].state = "aborted" ]_vars
  BY <1>1
<1>. QED BY <1>2, Inductive, PTL DEF EndIsTold
=============================================================================
