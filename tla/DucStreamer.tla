----------------------------- MODULE DucStreamer -----------------------------
(***************************************************************************)
(* DucStreamer (.NET): an application's calls on one streamer, the backends   *)
(* it creates, and under them the web sockets (protocol 3) or the plain       *)
(* stream of the older protocols.  The class has no lock and reads its        *)
(* Streamer again in every expression, so a call is a sequence of steps       *)
(* between which another one runs, and the token that a call was given may be *)
(* cancelled at any of them.  A backend and its socket have one name.         *)
(*                                                                         *)
(* ClientWebSocket and the gateway are external.  XmfWsStream never receives: *)
(* the end of a connection is seen by a send, or by the close itself.  The    *)
(* application connects from one place.                                      *)
(***************************************************************************)
EXTENDS Integers

CONSTANTS
  Tasks,     \* what may be inside a call at the same time
  Backends,  \* bound: the backends, and sockets, that are created
  MaxCalls,  \* bound: the calls of the application
  None       \* null

ASSUME StreamerConstants == None \notin Backends

\* 1000 and GatewayPushCloseCodes.RecordingEnded
Codes == {"normal", "ended"}

VARIABLES
  streamer,  \* this.streamer, a backend
  adaptor,   \* the backend of this.writeAdaptor
  stream,    \* the backends whose Stream is set
  socket,    \* the state of each socket
  asked,     \* the calls of CloseAsync that have not ended: the code, and whether it can be cancelled
  link,      \* the sockets whose connection is up
  call,      \* the calls in progress
  calls,     \* how many have begun
  owed,      \* history: the codes of which the gateway must still be told one
  why,       \* history: what last happened to a connection that may keep it from being ended
  hasty      \* history: the connections that Connect stopped waiting for

streamerVars == <<streamer, adaptor, stream, socket, asked, link, call, calls, owed, why, hasty>>

Idle == [at |-> "idle", on |-> None, code |-> "normal", token |-> FALSE]

StreamerInit ==
  /\ streamer = None
  /\ adaptor = None
  /\ stream = {}
  /\ socket = [b \in Backends |-> "none"]
  /\ asked = [b \in Backends |-> {}]
  /\ link = {}
  /\ call = [t \in Tasks |-> Idle]
  /\ calls = 0
  /\ owed = [b \in Backends |-> {}]
  /\ why = [b \in Backends |-> None]
  /\ hasty = {}

Begin(t, c) ==
  /\ call[t] = Idle /\ calls < MaxCalls
  /\ call' = [call EXCEPT ![t] = c]
  /\ calls' = calls + 1
Goto(t, c) == call' = [call EXCEPT ![t] = c] /\ UNCHANGED calls
Return(t) == Goto(t, Idle)
Connecting(t) == call[t].at \in {"connect", "connect async", "wait", "await"}
Ending(t) == call[t].at \in {"close", "dispose", "clear"}

\* A backend is connected as long as it has a stream.
Connected(b) == b \in stream

\* ClientWebSocket.Abort
Abort(b) ==
  /\ socket' = [socket EXCEPT ![b] = "aborted"]
  /\ asked' = [asked EXCEPT ![b] = {}]
  /\ link' = link \ {b}

---------------------------------------------------------------------------
(* ConnectUrl and ConnectUrlAsync, protocol 3 *)

\* this.Streamer = CreateV3Backend().  The one before is not disposed, and a
\* call that ends a connection at this moment may take the new one for it.
ConnectUrl(t) ==
  /\ \A u \in Tasks : ~Connecting(u)
  /\ \E b \in Backends, at \in {"connect", "connect async"} :
       /\ socket[b] = "none"
       /\ streamer' = b
       /\ adaptor' = b
       /\ socket' = [socket EXCEPT ![b] = "new"]
       /\ Begin(t, [Idle EXCEPT !.at = at, !.on = b])
       /\ why' = IF \E u \in Tasks : Ending(u)
                 THEN [c \in Backends |-> IF c \in {b, streamer} THEN "crossed" ELSE why[c]]
                 ELSE [c \in Backends |-> IF c = streamer THEN "replaced" ELSE why[c]]
  /\ UNCHANGED <<stream, asked, link, owed, hasty>>

\* this.Streamer.Connect or ConnectAsync: an exception if it is null by now.
BeginConnect(t) ==
  /\ call[t].at \in {"connect", "connect async"}
  /\ IF streamer = None THEN Return(t) /\ UNCHANGED socket
     ELSE /\ socket' = [socket EXCEPT ![streamer] = "connecting"]
          /\ Goto(t, [call[t] EXCEPT !.at = IF @ = "connect" THEN "wait" ELSE "await", !.on = streamer])
  /\ UNCHANGED <<streamer, adaptor, stream, asked, link, owed, why, hasty>>

\* Wait(this.ConnectTimeout): the result is not looked at, only a failure throws.
EndConnect(t) ==
  LET b == call[t].on IN
  /\ call[t].at = "wait"
  /\ stream' = IF socket[b] = "failed" THEN stream ELSE stream \cup {b}
  /\ hasty' = IF socket[b] = "connecting" THEN hasty \cup {b} ELSE hasty
  /\ Return(t)
  /\ UNCHANGED <<streamer, adaptor, socket, asked, link, owed, why>>

\* The await ends when the socket is open; a timeout or the token is a failure.
EndConnectAsync(t) ==
  LET b == call[t].on IN
  /\ call[t].at = "await" /\ socket[b] # "connecting"
  /\ stream' = IF socket[b] = "failed" THEN stream ELSE stream \cup {b}
  /\ Return(t)
  /\ UNCHANGED <<streamer, adaptor, socket, asked, link, owed, why, hasty>>

---------------------------------------------------------------------------
(* Disconnect and EndRecording; ConnectUrl for the older protocols *)

\* A streamer that is not connected is only disposed.
FirstStep == IF streamer # None /\ ~Connected(streamer) THEN "dispose" ELSE "close"

BeginEnd(t, code, token) ==
  /\ Begin(t, [Idle EXCEPT !.at = FirstStep, !.code = code, !.token = token])
  /\ why' = IF streamer # None /\ (\E u \in Tasks : Connecting(u))
            THEN [why EXCEPT ![streamer] = "crossed"] ELSE why
  /\ UNCHANGED <<streamer, adaptor, stream, socket, asked, link, hasty>>

\* An end that overlaps with EndRecording may be the one the gateway hears of.
MayTellInstead ==
  owed' = [b \in Backends |-> IF b = streamer /\ owed[b] # {} THEN owed[b] \cup {"normal"} ELSE owed[b]]

Disconnect(t) == (\E token \in BOOLEAN : BeginEnd(t, "normal", token)) /\ MayTellInstead

\* The client's hello reads the metadata of a backend that nobody has set, so
\* every handshake fails, and what the streamer had before is disconnected.
ConnectOld(t) ==
  /\ \A u \in Tasks : ~Connecting(u)
  /\ BeginEnd(t, "normal", FALSE)
  /\ MayTellInstead

EndRecording(t) ==
  /\ \E token \in BOOLEAN : BeginEnd(t, "ended", token)
  /\ owed' = IF streamer \in stream /\ socket[streamer] = "open" /\ (\A u \in Tasks : ~Connecting(u))
             THEN [owed EXCEPT ![streamer] = @ \cup {"ended"} \cup {call[u].code : u \in {v \in Tasks : Ending(v)}}]
             ELSE owed

\* Mutant: the backend inherits a Disconnect that only returns null.
CloseNothing(t) ==
  /\ call[t].at = "close"
  /\ Goto(t, [call[t] EXCEPT !.at = "dispose"])
  /\ UNCHANGED <<streamer, adaptor, stream, socket, asked, link, owed, why, hasty>>

\* this.Streamer?.EndRecording(token): CloseAsync where there is a stream.  On a
\* socket that is not open yet, or not any more, it throws; what follows is a
\* finally, so that the connection, once open, is nobody's.
Close(t) ==
  LET closes == streamer \in stream
      c == [code |-> call[t].code, token |-> call[t].token]
  IN /\ call[t].at = "close"
     /\ asked' = IF closes /\ socket[streamer] \in {"open", "close sent"}
                 THEN [asked EXCEPT ![streamer] = @ \cup {c}] ELSE asked
     /\ why' = IF closes /\ socket[streamer] = "connecting"
               THEN [why EXCEPT ![streamer] = "abandoned"] ELSE why
     /\ Goto(t, [call[t] EXCEPT !.at = "dispose", !.token = FALSE])
     /\ UNCHANGED <<streamer, adaptor, stream, socket, link, owed, hasty>>

\* Mutant: the stream owns its socket, as a NetworkStream may, and ends it.
DisposeSocket(t) ==
  /\ call[t].at = "dispose"
  /\ stream' = stream \ {streamer}
  /\ socket' = IF streamer \in stream THEN [socket EXCEPT ![streamer] = "aborted"] ELSE socket
  /\ Goto(t, [call[t] EXCEPT !.at = "clear"])
  /\ UNCHANGED <<streamer, adaptor, asked, link, owed, why, hasty>>

\* this.Streamer?.Dispose().  XmfWsStream leaves its socket alone.
Dispose(t) ==
  /\ call[t].at = "dispose"
  /\ stream' = stream \ {streamer}
  /\ Goto(t, [call[t] EXCEPT !.at = "clear"])
  /\ UNCHANGED <<streamer, adaptor, socket, asked, link, owed, why, hasty>>

\* this.Streamer = null: the setter leaves the adaptor as it was.
Clear(t) ==
  /\ call[t].at = "clear"
  /\ streamer' = None
  /\ Return(t)
  /\ UNCHANGED <<adaptor, stream, socket, asked, link, owed, why, hasty>>

---------------------------------------------------------------------------
(* SendPayload, SendRawData and WriteAsync *)

\* The first two go to the streamer if it is connected, the last one, which has
\* a token, to the adaptor's backend; it throws when that has no stream any more.
Send(t) ==
  /\ \E b \in {streamer, adaptor} \cap stream, token \in BOOLEAN :
       /\ token => b = adaptor
       /\ Begin(t, [Idle EXCEPT !.at = "write", !.on = b, !.token = token])
  /\ UNCHANGED <<streamer, adaptor, stream, socket, asked, link, owed, why, hasty>>

\* this.Stream?.Write: the stream may be gone before it is read, and then nothing
\* is sent.  A send on a broken connection may still succeed; when it does not,
\* and when it is cancelled while it runs, the socket is lost.
Write(t) ==
  LET b == call[t].on IN
  /\ call[t].at = "write"
  /\ \/ UNCHANGED <<socket, asked, link>>
     \/ socket[b] = "open" /\ (b \notin link \/ call[t].token) /\ Abort(b)
  /\ Return(t)
  /\ UNCHANGED <<streamer, adaptor, stream, owed, why, hasty>>

---------------------------------------------------------------------------
(* The sockets and the gateway *)

Opens(b) ==
  /\ socket[b] = "connecting"
  /\ socket' = [socket EXCEPT ![b] = "open"]
  /\ link' = link \cup {b}
  /\ UNCHANGED <<streamer, adaptor, stream, asked, call, calls, owed, why, hasty>>

FailsToOpen(b) ==
  /\ socket[b] = "connecting"
  /\ socket' = [socket EXCEPT ![b] = "failed"]
  /\ UNCHANGED <<streamer, adaptor, stream, asked, link, call, calls, owed, why, hasty>>

LinkDrops(b) ==
  /\ b \in link
  /\ link' = link \ {b}
  /\ UNCHANGED <<streamer, adaptor, stream, socket, asked, call, calls, owed, why, hasty>>

\* CloseAsync: the close frame, and then the gateway's.
SendsClose(b) ==
  /\ socket[b] = "open"
  /\ \E c \in asked[b] :
       IF b \in link
       THEN /\ owed' = [owed EXCEPT ![b] = IF c.code \in @ THEN {} ELSE @]
            /\ socket' = [socket EXCEPT ![b] = "close sent"]
            /\ UNCHANGED <<asked, link>>
       ELSE Abort(b) /\ UNCHANGED owed
  /\ UNCHANGED <<streamer, adaptor, stream, call, calls, why, hasty>>

\* The token of a CloseAsync is cancelled: while it waits to send, nothing is
\* sent and the socket is as it was; while it sends, or waits for the gateway's
\* frame, the socket is aborted.
CancelsClose(b) ==
  /\ socket[b] \in {"open", "close sent"}
  /\ \E c \in asked[b] :
       /\ c.token
       /\ \/ asked' = [asked EXCEPT ![b] = @ \ {c}] /\ UNCHANGED <<socket, link>>
          \/ Abort(b)
  /\ why' = [why EXCEPT ![b] = "cancelled"]
  /\ UNCHANGED <<streamer, adaptor, stream, call, calls, owed, hasty>>

IsClosed(b) ==
  /\ socket[b] = "close sent"
  /\ socket' = [socket EXCEPT ![b] = IF b \in link THEN "closed" ELSE "aborted"]
  /\ asked' = [asked EXCEPT ![b] = {}]
  /\ link' = link \ {b}
  /\ UNCHANGED <<streamer, adaptor, stream, call, calls, owed, why, hasty>>

---------------------------------------------------------------------------
Finish(t) == Close(t) \/ Dispose(t) \/ Clear(t)
Connect(t) == ConnectUrl(t) \/ BeginConnect(t) \/ EndConnect(t) \/ EndConnectAsync(t) \/ ConnectOld(t)
CallStep(t) == Connect(t) \/ Disconnect(t) \/ EndRecording(t) \/ Finish(t) \/ Send(t) \/ Write(t)
SocketStep(b) ==
  Opens(b) \/ FailsToOpen(b) \/ LinkDrops(b) \/ SendsClose(b) \/ CancelsClose(b) \/ IsClosed(b)

StreamerNext == (\E t \in Tasks : CallStep(t)) \/ (\E b \in Backends : SocketStep(b))

\* A call that has begun to end a connection goes on, and a close that is asked
\* for is sent, unless it is cancelled before.
StreamerSpec ==
  /\ StreamerInit /\ [][StreamerNext]_streamerVars
  /\ \A t \in Tasks : WF_streamerVars(Finish(t))
  /\ \A b \in Backends : WF_streamerVars(SendsClose(b))

---------------------------------------------------------------------------
\* The gateway is told that the recording is over, or what a call that
\* overlapped said, or the connection breaks, although its backend is disposed
\* as soon as the close has been started (DucStreamer.cs:141,
\* XmfWsStream.EndRecording).  It is told nothing only if the token of a close
\* was cancelled, if a call that connects ran at that time, or if another end
\* had come too early for the socket.
EndIsTold ==
  \A b \in Backends :
    owed[b] # {} ~> \/ owed[b] = {}
                    \/ b \notin link
                    \/ why[b] \in {"cancelled", "crossed", "abandoned"}

\* A connection that is open is the streamer's, or is being closed, however
\* many calls end it at once.  The code leaves one open that nobody will close
\* in four cases: ConnectUrl replaced it, or ran at the time of an end; the end
\* came before it was open; the token of its close was cancelled
\* (DucStreamer.cs, Disconnect's finally).  And what the streamer calls
\* connected was open once, unless Connect stopped waiting for it
\* (DucStreamerBackendV3.cs:46, BaseDucStreamerBackend.cs:16).
NoStrayConnection ==
  \A b \in Backends :
    /\ socket[b] = "open" /\ asked[b] = {} /\ streamer # b
         => why[b] \in {"replaced", "crossed", "abandoned", "cancelled"}
    /\ b \in stream /\ socket[b] \in {"new", "connecting", "failed"} => b \in hasty
=============================================================================
