---------------------------- MODULE ClientSession ----------------------------
(* One connection of the client to a server (client/src/server.rs and           *)
(* client/src/network.rs): the connecting task, the reader of the reliable      *)
(* stream, the two keep-alive tasks and the voice receiver.  They share         *)
(* ServerState, one atomic byte, and the slot of the keep-alive handler.  A     *)
(* task whose unwrap() fails is "panicked"; nobody waits for it.                *)
EXTENDS Integers, FiniteSets

CONSTANT MaxBeats   \* bound: keep-alives that are sent while all is well

ASSUME BoundOK == MaxBeats \in Nat

VARIABLES
  link,       \* the QUIC connection: "none", "up", "down"
  state,      \* ServerState
  connector, reader, sender, receiver, voice,   \* where each task stands
  handler,    \* keep_alive_handler has been stored
  noticed,    \* the tasks that have won the swap and not yet closed
  reports,    \* how often the user has been told of the loss
  shown,      \* the last screen the UI was sent: "none", "connected", "error"
  beats

vars == <<link, state, connector, reader, sender, receiver, voice, handler, noticed,
          reports, shown, beats>>

Tasks == {"reader", "sender", "receiver", "voice"}

TypeOK ==
  /\ link \in {"none", "up", "down"}
  /\ state \in {"pending", "auth", "connected", "disconnected"}
  /\ connector \in {"connect", "request", "done", "panicked"}
  /\ reader \in {"none", "read", "open", "store", "voice", "panicked", "ended"}
  /\ sender \in {"none", "run", "panicked"}
  /\ receiver \in {"none", "run", "ended"}
  /\ voice \in {"none", "run", "panicked"}
  /\ handler \in BOOLEAN /\ noticed \in SUBSET Tasks
  /\ reports \in Nat /\ shown \in {"none", "connected", "error"} /\ beats \in Nat

Init ==
  /\ link = "none" /\ state = "pending"
  /\ connector = "connect" /\ reader = "none"
  /\ sender = "none" /\ receiver = "none" /\ voice = "none"
  /\ handler = FALSE /\ noticed = {} /\ reports = 0 /\ shown = "none" /\ beats = 0

-------------------------------------------------------------------------------
(* ServerState.                                                                 *)

\* compare_exchange, whose outcome the callers ignore.
TrySet(from, to) == state' = IF state = from THEN to ELSE state

\* Mutant: a load and a store.
NoticeAgain(t) == state' = "disconnected" /\ noticed' = noticed \cup {t}

\* Mutant: only an authenticating server can be lost.
NoticeAuthOnly(t) ==
  /\ state' = IF state = "auth" THEN "disconnected" ELSE state
  /\ noticed' = IF state = "auth" THEN noticed \cup {t} ELSE noticed

\* try_set_disconnected: a swap; the task that finds another value goes on to close.
Notice(t) ==
  /\ state' = "disconnected"
  /\ noticed' = IF state # "disconnected" THEN noticed \cup {t} ELSE noticed

-------------------------------------------------------------------------------
(* The connecting task.                                                         *)

Connect ==
  /\ connector = "connect"
  /\ \/ /\ link' = "up"
        /\ TrySet("pending", "auth")
        /\ connector' = "request"
        /\ UNCHANGED shown
     \/ /\ shown' = "error" /\ connector' = "done"
        /\ UNCHANGED <<link, state>>
  /\ UNCHANGED <<reader, sender, receiver, voice, handler, noticed, reports, beats>>

\* The AuthRequest is sent (unwrap), then the reader is spawned.
SendAuthRequest ==
  /\ connector = "request"
  /\ IF link = "up" THEN connector' = "done" /\ reader' = "read"
                    ELSE connector' = "panicked" /\ UNCHANGED reader
  /\ UNCHANGED <<link, state, sender, receiver, voice, handler, noticed, reports,
                 shown, beats>>

-------------------------------------------------------------------------------
(* The reader.                                                                  *)

\* AuthResponse::Success: the lists are stored and finish_auth begins.  The server
\* sends one AuthResponse.
AuthSuccess ==
  /\ reader = "read" /\ link = "up" /\ voice = "none" /\ shown = "none"
  /\ TrySet("auth", "connected")
  /\ reader' = "open"
  /\ UNCHANGED <<link, connector, sender, receiver, voice, handler, noticed, reports,
                 shown, beats>>

AuthFailure ==
  /\ reader = "read" /\ link = "up" /\ voice = "none" /\ shown = "none"
  /\ shown' = "error"
  /\ UNCHANGED <<link, state, connector, reader, sender, receiver, voice, handler,
                 noticed, reports, beats>>

\* start_do_keep_alive opens a stream (finish_auth unwraps the error) and spawns the
\* sender ...
OpenKeepAlive ==
  /\ reader = "open"
  /\ IF link = "up" THEN sender' = "run" /\ reader' = "store"
                    ELSE reader' = "panicked" /\ UNCHANGED sender
  /\ UNCHANGED <<link, state, connector, receiver, voice, handler, noticed, reports,
                 shown, beats>>

\* ... and only then stores the handler and spawns the receiver.
StoreHandler ==
  /\ reader = "store"
  /\ handler' = TRUE /\ receiver' = "run" /\ reader' = "voice"
  /\ UNCHANGED <<link, state, connector, sender, voice, noticed, reports, shown, beats>>

StartVoice ==
  /\ reader = "voice"
  /\ voice' = "run" /\ shown' = "connected" /\ reader' = "read"
  /\ UNCHANGED <<link, state, connector, sender, receiver, handler, noticed, reports,
                 beats>>

\* The read fails, or a packet does not decode.
ReaderError ==
  /\ reader = "read"
  /\ Notice("reader")
  /\ reader' = "ended"
  /\ UNCHANGED <<link, connector, sender, receiver, voice, handler, reports, shown, beats>>

\* An unwrap() in the handling of a packet fails (ClientView), or a todo!() is met;
\* the packet may have been read before the connection went.
ReaderPanic ==
  /\ reader = "read" /\ link # "none"
  /\ reader' = "panicked"
  /\ UNCHANGED <<link, state, connector, sender, receiver, voice, handler, noticed,
                 reports, shown, beats>>

-------------------------------------------------------------------------------
(* The keep-alive tasks and the voice receiver.                                 *)

\* One round of the sender's loop, which never ends: it unwraps the handler, then
\* sends; an error is handed to error() and the loop goes on.
Beat ==
  /\ sender = "run"
  /\ \/ ~handler /\ sender' = "panicked" /\ UNCHANGED <<state, noticed, beats>>
     \/ /\ handler /\ link = "up" /\ beats < MaxBeats
        /\ beats' = beats + 1
        /\ UNCHANGED <<sender, state, noticed>>
     \/ /\ handler /\ link = "down"
        /\ Notice("sender")
        /\ UNCHANGED <<sender, beats>>
  /\ UNCHANGED <<link, connector, reader, receiver, voice, handler, reports, shown>>

\* The receiver closes without looking at ServerState and tells nobody.
ReceiverError ==
  /\ receiver = "run" /\ link = "down"
  /\ receiver' = "ended"
  /\ UNCHANGED <<link, state, connector, reader, sender, voice, handler, noticed,
                 reports, shown, beats>>

\* The voice receiver notices the loss too; its loop goes on for ever.
VoiceError ==
  /\ voice = "run" /\ link = "down"
  /\ Notice("voice")
  /\ UNCHANGED <<link, connector, reader, sender, receiver, voice, handler, reports,
                 shown, beats>>

\* A datagram that does not fit into the buffer, or a playback that fails.
VoicePanic ==
  /\ voice = "run"
  /\ voice' = "panicked"
  /\ UNCHANGED <<link, state, connector, reader, sender, receiver, handler, noticed,
                 reports, shown, beats>>

\* Mutant: the user is told, the connection is left as it is.
CloseNothing(t) ==
  /\ t \in noticed
  /\ noticed' = noticed \ {t} /\ reports' = reports + 1
  /\ UNCHANGED <<link, state, connector, reader, sender, receiver, voice, handler,
                 shown, beats>>

\* The rest of error(), or of the voice receiver's own copy of it.
Close(t) ==
  /\ t \in noticed
  /\ noticed' = noticed \ {t}
  /\ link' = "down" /\ reports' = reports + 1
  /\ UNCHANGED <<state, connector, reader, sender, receiver, voice, handler, shown,
                 beats>>

LinkDown ==
  /\ link = "up"
  /\ link' = "down"
  /\ UNCHANGED <<state, connector, reader, sender, receiver, voice, handler, noticed,
                 reports, shown, beats>>

Next ==
  \/ Connect \/ SendAuthRequest \/ AuthSuccess \/ AuthFailure \/ OpenKeepAlive
  \/ StoreHandler \/ StartVoice \/ ReaderError \/ ReaderPanic \/ Beat
  \/ ReceiverError \/ VoiceError \/ VoicePanic \/ (\E t \in Tasks : Close(t)) \/ LinkDown

Spec == Init /\ [][Next]_vars

\* The runtime schedules its tasks: a loss is met by every task that waits on the
\* connection, and error() runs to its end.  Nothing is assumed of the server.
FairSpec ==
  /\ Spec
  /\ WF_vars(link = "down" /\ ReaderError) /\ WF_vars(Beat) /\ WF_vars(VoiceError)
  /\ \A t \in Tasks : WF_vars(Close(t))

-------------------------------------------------------------------------------

\* Reader, keep-alive sender and voice receiver meet a loss independently, some of
\* them again and again; the user is told once, and only of a connection that the
\* client has given up: one task at a time is between the swap and the report.
ReportedOnce ==
  reports + Cardinality(noticed) = IF state = "disconnected" THEN 1 ELSE 0

\* A session the UI shows as connected does not outlive its connection unnoticed,
\* unless all three tasks that would notice have panicked: any one of them is enough.
LossIsNoticed ==
  (shown = "connected" /\ link = "down") ~>
    \/ state = "disconnected" /\ reports = 1
    \/ reader = "panicked" /\ sender = "panicked" /\ voice = "panicked"

\* A client that gives a connection up (a packet that does not decode, for one)
\* closes it: the server does not keep the user online for it.
GivenUpIsClosed == (state = "disconnected") ~> (link = "down")

===============================================================================
