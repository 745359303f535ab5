-------------------------------- MODULE Pipe --------------------------------
(***************************************************************************)
(* The broker service under Windows: the server loop of winbroker/pipe.rs, *)
(* the stop handler of winbroker/service.rs, the clients and their         *)
(* retries, and the service manager that starts the service when a client  *)
(* asks for a pipe that is not there.                                      *)
(*                                                                         *)
(* There is at most one instance of the pipe.  It exists from              *)
(* CreateNamedPipe to CloseHandle, takes one connection, and a client may  *)
(* connect before the server waits for one.  What carrying out a request   *)
(* does is taken from RemoteCall; its steps are those of Switcher.         *)
(***************************************************************************)
EXTENDS Naturals

CONSTANTS
    Clients, Keys, Present, None,
    Tries,          \* attempts of `connect` (10 in the code)
    Faults          \* what may go wrong in this run

FaultKinds == {"create", "verify", "client", "service"}

ASSUME PipeAssumption ==
    /\ Present \subseteq Keys
    /\ None \notin Keys \union Clients
    /\ Tries \in Nat \ {0}
    /\ Faults \subseteq FaultKinds

VARIABLES
    server,         \* where the service process is
    stop,           \* the flag of the stop handler
    handler,        \* "wake" from the store of the flag to wake_accept
    triggered,      \* the service manager was asked for the pipe
    instance,       \* "absent", "listening" or "connected"
    peer,           \* the client at the other end, None if it has closed
    inbox,          \* the client whose request is in the pipe, or None
    outbox,         \* the reply in the pipe
    response,       \* the reply serve_one is about to write
    client,         \* client[c]: where c is in round_trip
    tries,          \* tries[c]: failed attempts of this connect
    selected, request, answer,
    outcome         \* history: what was answered to the request of c

pipe == <<instance, peer, inbox, outbox>>
calls == <<client, tries, request, answer>>
vars == <<server, stop, handler, triggered, pipe, response, calls,
          selected, outcome>>

RC == INSTANCE RemoteCall

-----------------------------------------------------------------------------
NoReply == RC!Said("none")

TypeOK ==
    /\ server \in {"down", "check", "create", "accept", "read", "write", "close"}
    /\ stop \in BOOLEAN
    /\ handler \in {"idle", "wake"}
    /\ triggered \in BOOLEAN
    /\ instance \in {"absent", "listening", "connected"}
    /\ peer \in Clients \union {None}
    /\ inbox \in Clients \union {None}
    /\ outbox \in RC!Replies \union {NoReply}
    /\ response \in RC!Replies \union {NoReply}
    /\ client \in [Clients -> {"idle", "open", "verify", "send", "receive"}]
    /\ tries \in [Clients -> 0 .. Tries - 1]
    /\ selected \in RC!Selections
    /\ request \in [Clients -> RC!Requests \union {RC!NoRequest}]
    /\ answer \in [Clients -> RC!Replies
                     \union {RC!Said("idle"), RC!Pending, RC!Said("gone")}]
    /\ outcome \in [Clients -> RC!Replies \union {RC!Said("idle"), RC!Pending}]

Init ==
    /\ server = "down" /\ stop = FALSE /\ handler = "idle" /\ triggered = FALSE
    /\ instance = "absent" /\ peer = None /\ inbox = None
    /\ outbox = NoReply /\ response = NoReply
    /\ client = [c \in Clients |-> "idle"]
    /\ tries = [c \in Clients |-> 0]
    /\ RC!Init

\* DisconnectNamedPipe and CloseHandle: what is in the pipe is discarded.
Disconnect ==
    /\ instance' = "absent" /\ peer' = None /\ inbox' = None
    /\ outbox' = NoReply

\* The service reports Stopped and its process ends, the flag with it.
ServiceEnds == server' = "down" /\ stop' = FALSE /\ handler' = "idle"

-----------------------------------------------------------------------------
(* The service process. *)

\* The trigger of the service starts it.
Started ==
    /\ server = "down" /\ triggered
    /\ server' = "check"
    /\ triggered' = FALSE
    /\ UNCHANGED <<stop, handler, pipe, response, calls, selected, outcome>>

\* The test of the loop.
CheckStop ==
    /\ server = "check"
    /\ \/ stop /\ ServiceEnds
       \/ ~stop /\ server' = "create" /\ UNCHANGED <<stop, handler>>
    /\ UNCHANGED <<triggered, pipe, response, calls, selected, outcome>>

CreateInstance ==
    /\ server = "create"
    /\ \/ /\ server' = "accept"
          /\ instance' = "listening"
          /\ UNCHANGED <<stop, handler, peer, inbox, outbox>>
       \/ /\ "create" \in Faults
          /\ ServiceEnds
          /\ UNCHANGED pipe
    /\ UNCHANGED <<triggered, response, calls, selected, outcome>>

AcceptOnlyPending ==  \* mutant: ERROR_PIPE_CONNECTED is taken for a failure
    /\ server = "accept" /\ instance = "connected"
    /\ \/ /\ stop
          /\ ServiceEnds
          /\ Disconnect
       \/ /\ ~stop
          /\ server' \in {"read", "close"}
          /\ UNCHANGED <<stop, handler, pipe>>
    /\ UNCHANGED <<triggered, response, calls, selected, outcome>>

\* ConnectNamedPipe returns, and the flag is read again.  A client that left
\* before the call makes it fail, one that left after does not.
Accept ==
    /\ server = "accept" /\ instance = "connected"
    /\ \/ /\ stop
          /\ ServiceEnds
          /\ Disconnect
       \/ /\ ~stop
          /\ server' \in {"read"} \union (IF peer = None THEN {"close"} ELSE {})
          /\ UNCHANGED <<stop, handler, pipe>>
    /\ UNCHANGED <<triggered, response, calls, selected, outcome>>

\* ReadFile and handle: a request left by a client that died is served too.
Serve ==
    /\ server = "read" /\ inbox # None
    /\ \E x \in RC!Executions(request[inbox], selected) :
          /\ selected' = x.selected
          /\ response' = x.reply
          /\ outcome' = [outcome EXCEPT ![inbox] = x.reply]
    /\ inbox' = None
    /\ server' = "write"
    /\ UNCHANGED <<stop, handler, triggered, instance, peer, outbox, calls>>

ReadNothing ==
    /\ server = "read" /\ inbox = None /\ peer = None
    /\ server' = "close"
    /\ UNCHANGED <<stop, handler, triggered, pipe, response, calls,
                   selected, outcome>>

\* WriteFile, whose failure is ignored.
WriteReply ==
    /\ server = "write"
    /\ outbox' = IF peer = None THEN outbox ELSE response
    /\ response' = NoReply
    /\ server' = "close"
    /\ UNCHANGED <<stop, handler, triggered, instance, peer, inbox, calls,
                   selected, outcome>>

CloseInstance ==
    /\ server = "close"
    /\ server' = "check"
    /\ Disconnect
    /\ UNCHANGED <<stop, handler, triggered, response, calls, selected, outcome>>

ServerStep == \/ CheckStop \/ CreateInstance \/ Accept \/ Serve
              \/ ReadNothing \/ WriteReply \/ CloseInstance

-----------------------------------------------------------------------------
(* The control handler.  The service stays "running" for the service manager *)
(* until it ends, so that it may be asked to stop again.                     *)

StopControl ==
    /\ server # "down" /\ handler = "idle"
    /\ stop' = TRUE
    /\ handler' = "wake"
    /\ UNCHANGED <<server, triggered, pipe, response, calls, selected, outcome>>

WakeAcceptWaiting ==  \* mutant: wakes nobody
    /\ handler = "wake"
    /\ handler' = "idle"
    /\ UNCHANGED <<server, stop, triggered, pipe, response, calls,
                   selected, outcome>>

\* One attempt to open and close the pipe.
WakeAccept ==
    /\ handler = "wake"
    /\ handler' = "idle"
    /\ instance' = IF instance = "listening" THEN "connected" ELSE instance
    /\ UNCHANGED <<server, stop, triggered, peer, inbox, outbox, response, calls,
                   selected, outcome>>

-----------------------------------------------------------------------------
(* The clients: round_trip. *)

Leaves(c, a) ==
    /\ client' = [client EXCEPT ![c] = "idle"]
    /\ tries' = [tries EXCEPT ![c] = 0]
    /\ answer' = [answer EXCEPT ![c] = a]

Returns(c, a) ==
    /\ Leaves(c, a)
    /\ request' = [request EXCEPT ![c] = RC!NoRequest]

\* CloseHandle of the client: the connection, if it is still c's, loses its peer.
Closes(c) == peer' = IF peer = c THEN None ELSE peer

\* A process calls; a new one takes the name of one that died when nothing of
\* the old one is left in the pipe.
Call(c) ==
    /\ client[c] = "idle" /\ inbox # c
    /\ \E r \in RC!Requests : request' = [request EXCEPT ![c] = r]
    /\ client' = [client EXCEPT ![c] = "open"]
    /\ answer' = [answer EXCEPT ![c] = RC!Pending]
    /\ outcome' = [outcome EXCEPT ![c] = RC!Pending]
    /\ UNCHANGED <<server, stop, handler, triggered, pipe, response, tries,
                   selected>>

Open(c) ==
    /\ client[c] = "open" /\ instance = "listening"
    /\ instance' = "connected"
    /\ peer' = c
    /\ client' = [client EXCEPT ![c] = "verify"]
    /\ tries' = [tries EXCEPT ![c] = 0]
    /\ UNCHANGED <<server, stop, handler, triggered, inbox, outbox, response,
                   request, answer, selected, outcome>>

RetryOnceMore(c) ==  \* mutant: counts one attempt too many
    /\ client[c] = "open" /\ instance # "listening"
    /\ triggered' = (triggered \/ server = "down")
    /\ \/ /\ tries[c] < Tries
          /\ tries' = [tries EXCEPT ![c] = @ + 1]
          /\ UNCHANGED <<client, answer, request>>
       \/ /\ tries[c] = Tries
          /\ Returns(c, RC!ErrorReply)
    /\ UNCHANGED <<server, stop, handler, pipe, response, selected, outcome>>

RetryForever(c) ==  \* mutant: counts no attempt
    /\ client[c] = "open" /\ instance # "listening"
    /\ triggered' = (triggered \/ server = "down")
    /\ UNCHANGED <<server, stop, handler, pipe, response, calls,
                   selected, outcome>>

\* CreateFile fails, and WaitNamedPipe returns, when it likes.  Asking for the
\* pipe of a service that is not running starts it.
Retry(c) ==
    /\ client[c] = "open" /\ instance # "listening"
    /\ triggered' = (triggered \/ server = "down")
    /\ \/ /\ tries[c] + 1 < Tries
          /\ tries' = [tries EXCEPT ![c] = @ + 1]
          /\ UNCHANGED <<client, answer, request>>
       \/ /\ tries[c] + 1 = Tries
          /\ Returns(c, RC!ErrorReply)
    /\ UNCHANGED <<server, stop, handler, pipe, response, selected, outcome>>

\* verify_server_is_system.
Verify(c) ==
    /\ client[c] = "verify"
    /\ \/ /\ client' = [client EXCEPT ![c] = "send"]
          /\ UNCHANGED <<peer, tries, answer, request>>
       \/ /\ "verify" \in Faults \/ peer # c
          /\ Returns(c, RC!ErrorReply)
          /\ Closes(c)
    /\ UNCHANGED <<server, stop, handler, triggered, instance, inbox, outbox,
                   response, selected, outcome>>

Send(c) ==
    /\ client[c] = "send"
    /\ \/ /\ peer = c
          /\ inbox' = c
          /\ client' = [client EXCEPT ![c] = "receive"]
          /\ UNCHANGED <<tries, answer, request>>
       \/ /\ peer # c
          /\ Returns(c, RC!ErrorReply)
          /\ UNCHANGED inbox
    /\ UNCHANGED <<server, stop, handler, triggered, instance, peer, outbox,
                   response, selected, outcome>>

\* parse_state, parse_ok: a reply of another kind than the request is an error.
Parsed(r, reply) ==
    IF reply.result = (IF r.action = "get_state" THEN "state" ELSE "ok")
    THEN reply
    ELSE RC!ErrorReply

ReceiveOrResend(c) ==  \* mutant: a failed read makes another attempt
    /\ client[c] = "receive"
    /\ \/ /\ peer = c /\ outbox # NoReply
          /\ outbox' = NoReply
          /\ Returns(c, Parsed(request[c], outbox))
          /\ Closes(c)
       \/ /\ peer # c
          /\ client' = [client EXCEPT ![c] = "open"]
          /\ UNCHANGED <<peer, outbox, tries, answer, request>>
    /\ UNCHANGED <<server, stop, handler, triggered, instance, inbox, response,
                   selected, outcome>>

\* read_message, and the end of the call.
Receive(c) ==
    /\ client[c] = "receive"
    /\ \/ /\ peer = c /\ outbox # NoReply
          /\ outbox' = NoReply
          /\ Returns(c, Parsed(request[c], outbox))
          /\ Closes(c)
       \/ /\ peer # c
          /\ Returns(c, RC!ErrorReply)
          /\ UNCHANGED <<peer, outbox>>
    /\ UNCHANGED <<server, stop, handler, triggered, instance, inbox, response,
                   selected, outcome>>

ClientStep(c) == Open(c) \/ Retry(c) \/ Verify(c) \/ Send(c) \/ Receive(c)

-----------------------------------------------------------------------------
(* Processes that die.  What a dead client wrote stays in the pipe; a reply   *)
(* read after the server's death is read just before it.                      *)

ClientDies(c) ==
    /\ "client" \in Faults /\ client[c] # "idle"
    /\ Leaves(c, RC!Said("gone"))
    /\ Closes(c)
    /\ UNCHANGED <<server, stop, handler, triggered, instance, inbox, outbox,
                   response, request, selected, outcome>>

ServiceDies ==
    /\ "service" \in Faults /\ server # "down"
    /\ ServiceEnds
    /\ Disconnect
    /\ response' = NoReply
    /\ UNCHANGED <<triggered, calls, selected, outcome>>

Next ==
    \/ Started \/ ServerStep \/ StopControl \/ WakeAccept \/ ServiceDies
    \/ \E c \in Clients : Call(c) \/ ClientStep(c) \/ ClientDies(c)

\* The service's threads run, the service manager starts what was asked for, and
\* the client library always takes its next step: round_trip waits for nothing
\* but the pipe.
Fairness ==
    /\ WF_vars(Started)
    /\ WF_vars(ServerStep)
    /\ WF_vars(WakeAccept)
    /\ \A c \in Clients : WF_vars(ClientStep(c))

Spec == Init /\ [][Next]_vars /\ Fairness

-----------------------------------------------------------------------------
(* Properties. *)

\* The broker keeps its promise to callers: a request is carried out at most
\* once and never after its caller was told of an error, an answer is the one its
\* execution gave, whatever connection died.
Implements == RC!Spec

\* Every call of a client that lives returns, served or not: attempts are
\* counted, and whoever waits for a reply waits for a server that closes.
CallsReturn == RC!EveryCallReturns

\* A Stop ends the service, unless its one wake-up was spent before the instance
\* existed: from any other place the server comes to look at the flag, and the
\* wake-up, or the client that took its place, gets it out of ConnectNamedPipe.
StopObeyed ==
    (/\ stop /\ server # "create"
     /\ server = "accept" /\ instance = "listening" => handler = "wake")
    ~> server = "down"

\* A client that sent its request to a service nobody stops is served: neither
\* side waits for the other, and no other client can come in between.
ConnectedIsServed ==
    \A c \in Clients :
        client[c] = "receive" /\ peer = c
          ~> \/ outcome[c] # RC!Pending
             \/ stop \/ server = "down" \/ answer[c] = RC!Said("gone")

\* What pipe.rs says of the stop handler: serve runs "until `stop` is set", and
\* wake_accept is there so that it can notice.
StopStops == stop ~> server = "down"

\* What pipe.rs says of a connection: it is one request and one response.  A
\* request that was carried out is then not reported as failed.
ResponseReachesCaller ==
    \A c \in Clients :
        answer[c] = RC!ErrorReply => outcome[c] \in {RC!Pending, RC!ErrorReply}
=============================================================================
