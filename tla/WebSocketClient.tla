--------------------------- MODULE WebSocketClient ---------------------------
(***************************************************************************)
(* WebSocketClient (ws_client.cpp): connect() and disconnect() of the      *)
(* application, and the event loop that reads frames, calls the handlers   *)
(* and, when the connection ends, clears connected_ itself.                *)
(***************************************************************************)
EXTENDS Naturals

CONSTANT MaxFrames   \* bound: frames of one connection

ASSUME WebSocketClientAssumption == MaxFrames \in Nat

VARIABLES
    connectedFlag,  \* connected_
    runningFlag,    \* running_
    caller,         \* the application's thread
    loop,           \* event_thread_: "none" not joinable, "over" ended and joinable
    socket,         \* "closed", "open", or "lost" by the peer
    frames,
    closes,         \* times close_handler_ ran for this connection
    outcome         \* how the last connect(), disconnect() or send() ended

socketVars == <<connectedFlag, runningFlag, caller, loop, socket, frames, closes, outcome>>

SocketInit ==
    /\ connectedFlag = FALSE /\ runningFlag = FALSE /\ caller = "idle" /\ loop = "none"
    /\ socket = "closed" /\ frames = 0 /\ closes = 0 /\ outcome = "none"

(* External: the peer goes away. *)
PeerLeaves ==
    /\ socket = "open"
    /\ socket' = "lost"
    /\ UNCHANGED <<connectedFlag, runningFlag, caller, loop, frames, closes, outcome>>
-----------------------------------------------------------------------------
(* connect(): refused while connected_; a thread that ended without being  *)
(* joined is overwritten, which ends the program.                          *)
Connect ==
    /\ caller = "idle"
    /\ IF connectedFlag THEN outcome' = "already" /\ UNCHANGED <<connectedFlag, runningFlag, caller, loop, socket, frames, closes>>
       ELSE \/ outcome' = "failed" /\ UNCHANGED <<connectedFlag, runningFlag, caller, loop, socket, frames, closes>>
            \/ /\ connectedFlag' = TRUE /\ runningFlag' = TRUE /\ socket' = "open" /\ frames' = 0 /\ closes' = 0
               /\ IF loop = "none" THEN loop' = "testing" /\ caller' = caller /\ outcome' = "connected"
                  ELSE caller' = "terminated" /\ UNCHANGED <<loop, outcome>>

(* disconnect(): nothing to do once connected_ is false, whether or not    *)
(* the event loop has ended.                                               *)
DisconnectSocket ==
    /\ caller = "idle"
    /\ IF ~connectedFlag THEN outcome' = "nothing" /\ UNCHANGED <<connectedFlag, runningFlag, caller>>
       ELSE runningFlag' = FALSE /\ connectedFlag' = FALSE /\ caller' = "joining" /\ UNCHANGED outcome
    /\ UNCHANGED <<loop, socket, frames, closes>>

(* Faulty variant: the socket is closed without joining the loop. *)
DisconnectUnjoined ==
    /\ caller = "joining"
    /\ socket' = "closed" /\ closes' = closes + 1
    /\ caller' = "idle" /\ outcome' = "disconnected"
    /\ UNCHANGED <<connectedFlag, runningFlag, loop, frames>>

DisconnectJoins ==
    /\ caller = "joining" /\ loop = "over"
    /\ loop' = "none" /\ socket' = "closed" /\ closes' = closes + 1
    /\ caller' = "idle" /\ outcome' = "disconnected"
    /\ UNCHANGED <<connectedFlag, runningFlag, frames>>

(* send() and send_binary(): connected_ is looked at without the mutex, so *)
(* the socket may be gone by then.                                         *)
Send ==
    /\ caller = "idle"
    /\ outcome' \in IF ~connectedFlag THEN {"Not connected"} ELSE IF socket = "open" THEN {"sent", "unsent"} ELSE {"unsent"}
    /\ UNCHANGED <<connectedFlag, runningFlag, caller, loop, socket, frames, closes>>

(* stop_event_loop() *)
StopEventLoop ==
    /\ caller = "idle" /\ runningFlag
    /\ runningFlag' = FALSE
    /\ UNCHANGED <<connectedFlag, caller, loop, socket, frames, closes, outcome>>
-----------------------------------------------------------------------------
(* run_event_loop(): read() blocks for at most its timeout of a minute,    *)
(* after which it fails like on a lost connection.                         *)
LoopTests ==
    /\ loop = "testing"
    /\ loop' = IF runningFlag /\ connectedFlag THEN "reading" ELSE "clearing"
    /\ UNCHANGED <<connectedFlag, runningFlag, caller, socket, frames, closes, outcome>>

LoopReads ==
    /\ loop = "reading"
    /\ \/ socket = "open" /\ frames < MaxFrames /\ frames' = frames + 1 /\ loop' = "handling"
       \/ loop' = "clearing" /\ UNCHANGED frames
    /\ UNCHANGED <<connectedFlag, runningFlag, caller, socket, closes, outcome>>

(* message_handler_ or binary_handler_; one that throws ends the loop.     *)
LoopHandles ==
    /\ loop = "handling"
    /\ loop' \in {"testing", "clearing"}
    /\ UNCHANGED <<connectedFlag, runningFlag, caller, socket, frames, closes, outcome>>

LoopClears ==
    /\ loop = "clearing"
    /\ connectedFlag' = FALSE /\ runningFlag' = FALSE /\ loop' = "closing"
    /\ UNCHANGED <<caller, socket, frames, closes, outcome>>

LoopCloses ==
    /\ loop = "closing"
    /\ closes' = closes + 1 /\ loop' = "over"
    /\ UNCHANGED <<connectedFlag, runningFlag, caller, socket, frames, outcome>>

LoopStep == LoopTests \/ LoopReads \/ LoopHandles \/ LoopClears \/ LoopCloses
SocketNext ==
    /\ caller # "terminated"
    /\ PeerLeaves \/ Connect \/ DisconnectSocket \/ DisconnectJoins \/ Send \/ StopEventLoop \/ LoopStep
-----------------------------------------------------------------------------
(* A disconnect() that found the client connected and returned has joined  *)
(* the event loop: no handler runs any more, and the close handler ran for *)
(* the connection, once by the loop and once by disconnect().  (One that   *)
(* came after the loop cleared connected_ returns at once, while the close *)
(* handler may still have to run, and the thread is never joined.)         *)
DisconnectedMeansQuiet ==
    outcome = "disconnected" => loop = "none" /\ socket = "closed" /\ ~connectedFlag /\ closes = 2

(* disconnect() returns: the event loop does not need the mutex            *)
(* disconnect() holds, and read() has a time limit.                        *)
DisconnectReturns == (caller = "joining") ~> (caller = "idle")
=============================================================================
