----------------------------- MODULE PushClient -----------------------------
(***************************************************************************)
(* DucPushClient (.NET): the calls of an application on one client, its    *)
(* receive loop, the ClientWebSocket under it and the gateway at the other *)
(* end.  The methods are asynchronous and the class has no lock, so a call *)
(* is a sequence of steps between which other calls, the receive loop and  *)
(* the gateway run.  The three fields ws, receiveLoopCts and receiveLoop   *)
(* change in separate steps wherever the code changes them separately.     *)
(*                                                                         *)
(* The socket, the cancellation source and the loop of a connection are    *)
(* all named by its socket.  ClientWebSocket and the gateway are external; *)
(* only close frames matter here, payloads are not modelled.  The          *)
(* application connects from one place, and not while it disposes.         *)
(***************************************************************************)
EXTENDS Integers

CONSTANTS
  Tasks,    \* what may be inside a call of the client at the same time
  Sockets,  \* bound: the sockets ConnectAsync may create
  Codes,    \* the codes an application closes with
  None      \* null

ASSUME CodesAssumption == "normal" \in Codes /\ Codes \subseteq {"normal", "ended"}

\* The close codes: 1000, 4011 (GatewayPushCloseCodes.RecordingEnded), and
\* 4010 (StorageFullCloseCode), which only the gateway sends.
Frames == Codes \cup {"full"}

ASSUME NoneAssumption == None \notin Sockets \cup Frames

VARIABLES
  ws,              \* this.ws
  receiveLoopCts,  \* this.receiveLoopCts, the connection it belongs to
  receiveLoop,     \* this.receiveLoop, the connection it belongs to
  socket,          \* the sockets: State and CloseStatus
  source,          \* the cancellation sources
  loop,            \* the receive loops
  wire,            \* close frames sent by the client and by the gateway; is the link up
  call,            \* the calls in progress, and what the last ones led to
  raced,           \* history: the sockets whose ConnectAsync overlapped a close
  crossed          \* history: the sockets with any two overlapping calls, sends apart

fields == <<ws, receiveLoopCts, receiveLoop>>
vars == <<ws, receiveLoopCts, receiveLoop, socket, source, loop, wire, call, raced, crossed>>

\* fullSeen and owed are history: the socket had seen 4010 when the send began; the
\* connection was up, and the gateway not told of any end, when the close began,
\* and the close was not cancelled.
Idle == [at |-> "idle", on |-> None, code |-> "normal", dispose |-> FALSE, cts |-> None,
         loop |-> None, fullSeen |-> FALSE, owed |-> FALSE]

Init ==
  /\ ws = None
  /\ receiveLoopCts = None
  /\ receiveLoop = None
  /\ socket = [s \in Sockets |-> [state |-> "none", status |-> None]]
  /\ source = [s \in Sockets |-> "none"]
  /\ loop = [s \in Sockets |-> "none"]
  /\ wire = [s \in Sockets |-> [told |-> None, sent |-> None, up |-> FALSE]]
  /\ call = [t \in Tasks |-> Idle]
  /\ raced = {}
  /\ crossed = {}

Usable(s) == socket[s].state \in {"open", "closeSent", "closeReceived"}

Aborted(s) == IF Usable(s) THEN [socket EXCEPT ![s].state = "aborted"] ELSE socket

Goto(t, label) == call' = [call EXCEPT ![t].at = label]
Return(t) == call' = [call EXCEPT ![t] = Idle]

Sending(t) == call[t].at \in {"idle", "send"}

Connecting(t) == call[t].at \in {"connect", "assign", "source", "start", "keep"}

\* A call on socket s, other than SendAsync, begins.
Begin(t, s, c) ==
  /\ call' = [call EXCEPT ![t] = c]
  /\ crossed' = IF \A u \in Tasks \ {t} : Sending(u) THEN crossed
                ELSE crossed \cup {s} \cup ({call[u].on : u \in Tasks} \ {None})

-----------------------------------------------------------------------------
(* ConnectAsync.                                                           *)

MayConnect(t) ==
  /\ call[t].at = "idle"
  /\ \A u \in Tasks : ~Connecting(u) /\ ~call[u].dispose

RefusesConnect(t) == MayConnect(t) /\ ws # None

BeginConnect(t, s) ==
  /\ MayConnect(t)
  /\ ws = None
  /\ socket[s].state = "none"
  /\ socket' = [socket EXCEPT ![s].state = "connecting"]
  /\ Begin(t, s, [Idle EXCEPT !.at = "connect", !.on = s])
  /\ raced' = IF \A u \in Tasks \ {t} : Sending(u) THEN raced ELSE raced \cup {s}
  /\ UNCHANGED <<fields, source, loop, wire>>

\* HTTP 507, any other refusal, the timeout or the caller's cancellation.
FailHandshake(t) ==
  /\ call[t].at = "connect"
  /\ socket' = [socket EXCEPT ![call[t].on].state = "disposed"]
  /\ Return(t)
  /\ UNCHANGED <<fields, source, loop, wire, raced, crossed>>

FinishHandshake(t) ==
  /\ call[t].at = "connect"
  /\ socket' = [socket EXCEPT ![call[t].on].state = "open"]
  /\ wire' = [wire EXCEPT ![call[t].on].up = TRUE]
  /\ Goto(t, "assign")
  /\ UNCHANGED <<fields, source, loop, raced, crossed>>

AssignSocket(t) ==
  /\ call[t].at = "assign"
  /\ ws' = call[t].on
  /\ Goto(t, "source")
  /\ UNCHANGED <<receiveLoopCts, receiveLoop, socket, source, loop, wire, raced, crossed>>

\* Mutant: the field is set before the source exists.
AssignNoSource(t) ==
  /\ call[t].at = "source"
  /\ receiveLoopCts' = call[t].on
  /\ Goto(t, "start")
  /\ UNCHANGED <<ws, receiveLoop, socket, source, loop, wire, raced, crossed>>

AssignSource(t) ==
  /\ call[t].at = "source"
  /\ receiveLoopCts' = call[t].on
  /\ source' = [source EXCEPT ![call[t].on] = "live"]
  /\ Goto(t, "start")
  /\ UNCHANGED <<ws, receiveLoop, socket, loop, wire, raced, crossed>>

\* The source is read back from the field, which another call may have cleared.
StartWithoutSource(t) ==
  /\ call[t].at = "start"
  /\ receiveLoopCts = None
  /\ Return(t)
  /\ UNCHANGED <<fields, socket, source, loop, wire, raced, crossed>>

\* Mutant: the loop runs on the handshake's token, whose timeout may have passed.
StartLoopTimed(t) ==
  /\ call[t].at = "start"
  /\ receiveLoopCts = call[t].on
  /\ \E l \in {"receiving", "ended"} : loop' = [loop EXCEPT ![call[t].on] = l]
  /\ Goto(t, "keep")
  /\ UNCHANGED <<fields, socket, source, wire, raced, crossed>>

\* RunReceiveLoopAsync as far as its first await; it takes the socket from the
\* field and ends at once when that is null or the source cancelled.
StartLoop(t) ==
  LET s == call[t].on
      receives == ws = s /\ source[s] = "live" /\ socket[s].state \in {"open", "closeSent"}
  IN /\ call[t].at = "start"
     /\ receiveLoopCts = s
     /\ loop' = [loop EXCEPT ![s] = IF receives THEN "receiving" ELSE "ended"]
     /\ Goto(t, "keep")
     /\ UNCHANGED <<fields, socket, source, wire, raced, crossed>>

KeepLoop(t) ==
  /\ call[t].at = "keep"
  /\ receiveLoop' = call[t].on
  /\ Return(t)
  /\ UNCHANGED <<ws, receiveLoopCts, socket, source, loop, wire, raced, crossed>>

-----------------------------------------------------------------------------
(* SendAsync.                                                              *)

BeginSend(t) ==
  /\ call[t].at = "idle"
  /\ ws # None
  /\ call' = [call EXCEPT ![t] = [Idle EXCEPT !.at = "send", !.on = ws,
                                              !.fullSeen = socket[ws].status = "full"]]
  /\ UNCHANGED <<fields, socket, source, loop, wire, raced, crossed>>

\* A ClientWebSocket sends until it has sent its own close frame.
SendSucceeds(t) ==
  /\ call[t].at = "send"
  /\ socket[call[t].on].state \in {"open", "closeReceived"}
  /\ Return(t)
  /\ UNCHANGED <<fields, socket, source, loop, wire, raced, crossed>>

\* Cancelling a send aborts the socket; whatever it throws is the caller's or,
\* by IsStorageFullClose, DucStorageFullException.
SendThrows(t) ==
  LET s == call[t].on
  IN /\ call[t].at = "send"
     /\ \/ /\ socket[s].state \notin {"open", "closeReceived"} \/ ~wire[s].up
           /\ UNCHANGED socket
        \/ socket' = Aborted(s)
     /\ Return(t)
     /\ UNCHANGED <<fields, source, loop, wire, raced, crossed>>

-----------------------------------------------------------------------------
(* CloseAsync, EndRecordingAsync and DisposeAsync.                         *)

\* A close of s begins, perhaps before ConnectAsync has set all the fields.
Overlaps(s) == raced' = IF \E u \in Tasks : Connecting(u) THEN raced \cup {s} ELSE raced

BeginClose(t, code) ==
  /\ call[t].at = "idle"
  /\ ws # None
  /\ Begin(t, ws, [Idle EXCEPT !.at = "close", !.on = ws, !.code = code,
                           !.owed = Usable(ws) /\ wire[ws].up /\ wire[ws].told = None])
  /\ Overlaps(ws)
  /\ UNCHANGED <<fields, socket, source, loop, wire>>

BeginDispose(t) ==
  /\ call[t].at = "idle"
  /\ ws # None
  /\ Begin(t, ws, [Idle EXCEPT !.at = "forget", !.on = ws, !.dispose = TRUE])
  /\ Overlaps(ws)
  /\ UNCHANGED <<fields, socket, source, loop, wire>>

ForgetSocket(t) ==
  /\ call[t].at = "forget"
  /\ ws' = None
  /\ Goto(t, "close")
  /\ UNCHANGED <<receiveLoopCts, receiveLoop, socket, source, loop, wire, raced, crossed>>

\* Mutant: a close frame of the gateway is not answered.
ClosableOpenOnly(t) == {"open"}

\* The states in which the close handshake is attempted.
Closable(t) == IF call[t].dispose THEN {"open"} ELSE {"open", "closeReceived"}

LookAtState(t) ==
  /\ call[t].at = "close"
  /\ Goto(t, IF socket[call[t].on].state \in Closable(t) THEN "shake" ELSE "stop")
  /\ UNCHANGED <<fields, socket, source, loop, wire, raced, crossed>>

\* ClientWebSocket.CloseAsync sends the close frame unless one was sent.
SendClose(t) ==
  LET s == call[t].on
  IN /\ call[t].at = "shake"
     /\ socket[s].state \in {"open", "closeReceived"}
     /\ wire[s].up
     /\ wire' = [wire EXCEPT ![s].told = call[t].code]
     /\ socket' = [socket EXCEPT ![s].state = IF @ = "open" THEN "closeSent" ELSE "closed"]
     /\ Goto(t, "wait")
     /\ UNCHANGED <<fields, source, loop, raced, crossed>>

JoinClose(t) ==
  /\ call[t].at = "shake"
  /\ socket[call[t].on].state = "closeSent"
  /\ Goto(t, "wait")
  /\ UNCHANGED <<fields, socket, source, loop, wire, raced, crossed>>

\* The handshake is over, or throws; what it throws is only logged.
CloseEnds(t) ==
  LET s == call[t].on
  IN /\ call[t].at \in {"shake", "wait"}
     /\ \/ ~Usable(s)
        \/ ~wire[s].up /\ (call[t].at = "shake" \/ loop[s] # "receiving")
     /\ socket' \in {socket, Aborted(s)}
     /\ Goto(t, "stop")
     /\ UNCHANGED <<fields, source, loop, wire, raced, crossed>>

\* Without a loop to receive it, the close itself receives the gateway's frame.
CloseReceives(t) ==
  LET s == call[t].on
  IN /\ call[t].at = "wait"
     /\ loop[s] # "receiving"
     /\ socket[s].state = "closeSent"
     /\ wire[s].sent # None
     /\ socket' = [socket EXCEPT ![s] = [state |-> "closed", status |-> wire[s].sent]]
     /\ Goto(t, "stop")
     /\ UNCHANGED <<fields, source, loop, wire, raced, crossed>>

\* The caller's token, or the second that DisposeAsync waits.
CloseCancelled(t) ==
  /\ call[t].at \in {"shake", "wait"}
  /\ socket' \in {socket, Aborted(call[t].on)}
  /\ call' = [call EXCEPT ![t].at = "stop", ![t].owed = FALSE]
  /\ UNCHANGED <<fields, source, loop, wire, raced, crossed>>

\* StopReceiveLoopAsync, a step for each field it reads and each it clears.
ReadSource(t) ==
  /\ call[t].at = "stop"
  /\ call' = [call EXCEPT ![t].at = "readLoop", ![t].cts = receiveLoopCts]
  /\ UNCHANGED <<fields, socket, source, loop, wire, raced, crossed>>

ReadLoop(t) ==
  /\ call[t].at = "readLoop"
  /\ call' = [call EXCEPT ![t].at = "clearSource", ![t].loop = receiveLoop]
  /\ UNCHANGED <<fields, socket, source, loop, wire, raced, crossed>>

ClearSource(t) ==
  /\ call[t].at = "clearSource"
  /\ receiveLoopCts' = None
  /\ Goto(t, "clearLoop")
  /\ UNCHANGED <<ws, receiveLoop, socket, source, loop, wire, raced, crossed>>

ClearLoop(t) ==
  /\ call[t].at = "clearLoop"
  /\ receiveLoop' = None
  /\ Goto(t, "cancel")
  /\ UNCHANGED <<ws, receiveLoopCts, socket, source, loop, wire, raced, crossed>>

\* Cancel throws when another call has disposed the source; the rest of the
\* call, the socket's Dispose included, is then skipped.
CancelThrows(t) ==
  /\ call[t].at = "cancel"
  /\ call[t].cts # None /\ source[call[t].cts] = "disposed"
  /\ Return(t)
  /\ UNCHANGED <<fields, socket, source, loop, wire, raced, crossed>>

\* Mutant: the source is not cancelled.
CancelNothing(t) ==
  /\ call[t].at = "cancel"
  /\ Goto(t, "await")
  /\ UNCHANGED <<fields, socket, source, loop, wire, raced, crossed>>

CancelSource(t) ==
  LET c == call[t].cts
  IN /\ call[t].at = "cancel"
     /\ c # None => source[c] # "disposed"
     /\ source' = IF c = None THEN source ELSE [source EXCEPT ![c] = "cancelled"]
     /\ Goto(t, "await")
     /\ UNCHANGED <<fields, socket, loop, wire, raced, crossed>>

\* Mutant: the loop is cancelled and not waited for.
AwaitNothing(t) ==
  /\ call[t].at = "await"
  /\ source' = IF call[t].cts = None THEN source ELSE [source EXCEPT ![call[t].cts] = "disposed"]
  /\ IF call[t].dispose THEN Goto(t, "dispose") ELSE Return(t)
  /\ UNCHANGED <<fields, socket, loop, wire, raced, crossed>>

AwaitLoop(t) ==
  /\ call[t].at = "await"
  /\ call[t].loop # None => loop[call[t].loop] = "ended"
  /\ source' = IF call[t].cts = None THEN source ELSE [source EXCEPT ![call[t].cts] = "disposed"]
  /\ IF call[t].dispose THEN Goto(t, "dispose") ELSE Return(t)
  /\ UNCHANGED <<fields, socket, loop, wire, raced, crossed>>

DisposeSocket(t) ==
  /\ call[t].at = "dispose"
  /\ socket' = [socket EXCEPT ![call[t].on].state = "disposed"]
  /\ Return(t)
  /\ UNCHANGED <<fields, source, loop, wire, raced, crossed>>

-----------------------------------------------------------------------------
(* The receive loop.                                                       *)

LoopReceivesClose(s) ==
  /\ loop[s] = "receiving"
  /\ socket[s].state \in {"open", "closeSent"}
  /\ wire[s].sent # None
  /\ socket' = [socket EXCEPT ![s] = [state |-> IF @.state = "open" THEN "closeReceived" ELSE "closed",
                                      status |-> wire[s].sent]]
  /\ loop' = [loop EXCEPT ![s] = "ended"]
  /\ UNCHANGED <<fields, source, wire, call, raced, crossed>>

LoopFails(s) ==
  /\ loop[s] = "receiving"
  /\ socket[s].state \notin {"open", "closeSent"} \/ ~wire[s].up
  /\ socket' = Aborted(s)
  /\ loop' = [loop EXCEPT ![s] = "ended"]
  /\ UNCHANGED <<fields, source, wire, call, raced, crossed>>

\* Cancelling a receive aborts the socket.
LoopCancelled(s) ==
  /\ loop[s] = "receiving"
  /\ source[s] \in {"cancelled", "disposed"}
  /\ socket' = Aborted(s)
  /\ loop' = [loop EXCEPT ![s] = "ended"]
  /\ UNCHANGED <<fields, source, wire, call, raced, crossed>>

-----------------------------------------------------------------------------
(* The gateway and the network; nobody sees them once the socket is dead.  *)

GatewayCloses(s, frame) ==
  /\ Usable(s) /\ wire[s].up /\ wire[s].sent = None
  /\ wire' = [wire EXCEPT ![s].sent = frame]
  /\ UNCHANGED <<fields, socket, source, loop, call, raced, crossed>>

\* Storage is full, or the answer to the client's close frame.
GatewayFull(s) == GatewayCloses(s, "full")
GatewayAnswers(s) == wire[s].told # None /\ GatewayCloses(s, wire[s].told)

Lose(s) ==
  /\ Usable(s) /\ wire[s].up
  /\ wire' = [wire EXCEPT ![s].up = FALSE]
  /\ UNCHANGED <<fields, socket, source, loop, call, raced, crossed>>

\* A ConnectAsync with ws set and a SendAsync without throw, a close without it
\* returns: nothing changes.
CallRefused(t) == call[t].at = "idle" /\ UNCHANGED vars

\* What a call does on its own, once it has begun.
Step(t) ==
  \/ AssignSocket(t) \/ AssignSource(t) \/ StartLoop(t) \/ StartWithoutSource(t) \/ KeepLoop(t)
  \/ ForgetSocket(t) \/ LookAtState(t) \/ SendClose(t) \/ JoinClose(t) \/ CloseEnds(t) \/ CloseReceives(t)
  \/ ReadSource(t) \/ ReadLoop(t) \/ ClearSource(t) \/ ClearLoop(t)
  \/ CancelSource(t) \/ CancelThrows(t) \/ AwaitLoop(t) \/ DisposeSocket(t)

LoopStep(s) == LoopReceivesClose(s) \/ LoopFails(s) \/ LoopCancelled(s)

Next ==
  \/ \E t \in Tasks :
       \/ Step(t)
       \/ CallRefused(t)
       \/ \E s \in Sockets : BeginConnect(t, s)
       \/ FailHandshake(t) \/ FinishHandshake(t)
       \/ BeginSend(t) \/ SendSucceeds(t) \/ SendThrows(t)
       \/ BeginDispose(t) \/ CloseCancelled(t)
       \/ \E code \in Codes : BeginClose(t, code)
  \/ \E s \in Sockets : LoopStep(s) \/ GatewayFull(s) \/ GatewayAnswers(s) \/ Lose(s)

\* Calls and loops proceed, and the second of DisposeAsync passes; nothing makes
\* the gateway answer, a caller cancel, or a send or a handshake complete.
DisposeTimer(t) == call[t].dispose /\ CloseCancelled(t)

Spec ==
  /\ Init /\ [][Next]_vars
  /\ \A t \in Tasks : WF_vars(Step(t)) /\ WF_vars(DisposeTimer(t))
  /\ \A s \in Sockets : WF_vars(LoopStep(s))

-----------------------------------------------------------------------------
Labels == {"idle", "connect", "assign", "source", "start", "keep", "send", "forget", "close", "shake",
           "wait", "stop", "readLoop", "clearSource", "clearLoop", "cancel", "await", "dispose"}
Socket == [state : {"none", "connecting", "open", "closeSent", "closeReceived", "closed",
                    "aborted", "disposed"}, status : Frames \cup {None}]

\* Fields name connections of the client, and no source is used before it exists.
TypeOK ==
  /\ {ws, receiveLoopCts, receiveLoop} \subseteq Sockets \cup {None}
  /\ socket \in [Sockets -> Socket]
  /\ source \in [Sockets -> {"none", "live", "cancelled", "disposed"}]
  /\ loop \in [Sockets -> {"none", "receiving", "ended"}]
  /\ wire \in [Sockets -> [told : Codes \cup {None}, sent : Frames \cup {None}, up : BOOLEAN]]
  /\ call \in [Tasks -> [at : Labels, on : Sockets \cup {None}, code : Codes, dispose : BOOLEAN,
                         cts : Sockets \cup {None}, loop : Sockets \cup {None},
                         fullSeen : BOOLEAN, owed : BOOLEAN]]
  /\ raced \cup crossed \subseteq Sockets
  /\ receiveLoopCts # None => source[receiveLoopCts] # "none"

\* Call u will yet wait for the loop of s.
Stopping(u, s) ==
  call[u].loop = s /\ call[u].at \in {"clearSource", "clearLoop", "cancel", "await"}

\* The step with which a close or dispose has done all it does about the loop.
LoopDealtWith(t) == call[t].at \in {"cancel", "await"} /\ call'[t].at \in {"idle", "dispose"}

\* CloseAsync, EndRecordingAsync and DisposeAsync do not leave the receive loop
\* running: it has ended when one of them is through ("waits for the receive loop
\* to terminate").  When others of them overlap it, the loop is at least
\* cancelled, or another one holds it and will wait for it: the fields are read
\* and cleared without a lock, and yet the loop is not dropped between two calls.
LoopStopped ==
  [][ \A t \in Tasks :
        LoopDealtWith(t) /\ call[t].on \notin raced =>
          \/ loop[call[t].on] = "ended"
          \/ /\ call[t].on \in crossed
             /\ \/ source[call[t].on] # "live"
                \/ \E u \in Tasks \ {t} : Stopping(u, call[t].on) ]_vars

\* An open connection that no close is at work on has its receive loop, without
\* which the close code 4010 would go unnoticed for ever.
OpenIsWatched ==
  /\ TypeOK
  /\ ws # None /\ ws \notin raced /\ socket[ws].state = "open"
       => loop[ws] = "receiving" \/ \E t \in Tasks : ~Sending(t)

\* EndRecordingAsync tells the gateway that the recording is over (4011), and
\* CloseAsync that it may go on (1000), also as the answer to a close frame of
\* the gateway; only a lost link, an aborted socket or a cancelled close excuse
\* it.
EndIsTold ==
  [][ \A t \in Tasks :
        LoopDealtWith(t) /\ call[t].on \notin crossed /\ call[t].owed =>
          \/ wire[call[t].on].told = call[t].code
          \/ ~wire[call[t].on].up
          \/ socket[call[t].on].state = "aborted" ]_vars

\* DisposeAsync returns within its second plus what the loop takes to end,
\* whatever the gateway does and whoever else closes the client.
DisposeReturns ==
  \A t \in Tasks : (call[t].dispose /\ call[t].on \notin raced) ~> ~call[t].dispose

\* "CloseStatus is now populated; SendAsync callers will surface
\* DucStorageFullException if appropriate" (DucPushClient.cs:235).
FullIsSurfaced == [][ \A t \in Tasks : call[t].fullSeen => ~SendSucceeds(t) ]_vars

\* ConnectAsync is documented to throw InvalidOperationException when "Already
\* connected" (DucPushClient.cs:56), and Connected to be true "until the socket
\* closes" (DucPushClient.cs:44).
Connected == ws # None /\ socket[ws].state = "open"
RefusedWhenConnected == \A t \in Tasks : RefusesConnect(t) => Connected
=============================================================================
