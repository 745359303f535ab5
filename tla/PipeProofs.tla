----------------------------- MODULE PipeProofs -----------------------------
(***************************************************************************)
(* For any number of clients, keys and attempts, and whatever dies: Pipe   *)
(* keeps its types, and its steps are steps of RemoteCall.                 *)
(***************************************************************************)
EXTENDS Pipe, TLAPS

(* The inductive invariant: where the client, the pipe and the server stand  *)
(* with respect to each other.                                               *)

\* Each client is under way exactly when its call is, with a request in hand.
CallsUnderWay ==
    \A c \in Clients :
        /\ answer[c] = RC!Pending <=> client[c] # "idle"
        /\ client[c] # "idle" => request[c] \in RC!Requests
        /\ client[c] \in {"open", "verify", "send"} => outcome[c] = RC!Pending

\* The instance exists while the server is on it, and is empty until connected.
InstanceFollowsServer ==
    /\ server \in {"down", "check", "create"} => instance = "absent"
    /\ server \in {"read", "write", "close"} => instance = "connected"
    /\ instance # "connected" => peer = None /\ inbox = None
    /\ server # "close" => outbox = NoReply
    /\ server = "write" => inbox = None

\* The connected client has opened the pipe and not closed it; once its request
\* is served it waits for the reply.
PeerIsConnected ==
    peer # None =>
        /\ client[peer] \in {"verify", "send", "receive"}
        /\ server \in {"write", "close"} => client[peer] = "receive"

\* A request in the pipe is that of the connected client, or of one that died.
InboxIsPending ==
    inbox # None =>
        /\ outcome[inbox] = RC!Pending
        /\ request[inbox] \in RC!Requests
        /\ \/ peer = inbox /\ client[inbox] = "receive"
           \/ peer = None /\ client[inbox] = "idle"
              /\ answer[inbox] = RC!Said("gone")

\* A reply, on its way or in the pipe, answers the request of the peer.
ReplyIsPeers ==
    /\ server = "write" =>
          /\ response \in RC!Replies
          /\ peer # None => outcome[peer] = response
    /\ outbox # NoReply /\ peer # None => outcome[peer] = outbox

PipeInv ==
    /\ TypeOK /\ CallsUnderWay /\ InstanceFollowsServer
    /\ PeerIsConnected /\ InboxIsPending /\ ReplyIsPeers

-----------------------------------------------------------------------------
(* Words, replies and executions. *)

\* The words said of a call are pairwise different, and only two are replies.
LEMMA Words ==
    /\ RC!Pending \notin RC!Replies
    /\ NoReply \notin RC!Replies
    /\ RC!Said("gone") \notin RC!Replies
    /\ RC!Said("gone") # RC!Pending
    /\ RC!Said("idle") # RC!Pending
    /\ RC!ErrorReply \in RC!Replies
BY DEF RC!Pending, RC!Replies, RC!Said, NoReply, RC!ErrorReply, RC!OkReply

\* A request gets a reply, and selects an entry of the machine or none.
LEMMA ExecutionTypes ==
    ASSUME NEW r, NEW s \in RC!Selections, NEW x \in RC!Executions(r, s)
    PROVE  x.reply \in RC!Replies /\ x.selected \in RC!Selections
<1> DEFINE Command(e) == {[reply |-> RC!OkReply, selected |-> e]}
                           \union [reply : {RC!ErrorReply}, selected : {s, e}]
<1>1. ASSUME NEW e \in RC!Selections, x \in Command(e)
      PROVE  x.reply \in RC!Replies /\ x.selected \in RC!Selections
  BY <1>1 DEF RC!Replies
<1>2. CASE r.action = "get_state"
  <2>1. x = [reply |-> [result |-> "state", entry |-> s], selected |-> s]
    BY <1>2 DEF RC!Executions
  <2> QED BY <2>1 DEF RC!Replies
<1>3. CASE r.action = "set" /\ r.key \in Present
  <2>1. x \in Command(r.key)
    BY <1>3 DEF RC!Executions
  <2> QED BY <2>1, <1>1, <1>3 DEF RC!Selections
<1>4. CASE r.action = "clear_next"
  <2>1. x \in Command(None)
    BY <1>4 DEF RC!Executions
  <2> QED BY <2>1, <1>1 DEF RC!Selections
<1>5. CASE /\ r.action \notin {"get_state", "clear_next"}
           /\ ~(r.action = "set" /\ r.key \in Present)
  <2>1. x = [reply |-> RC!ErrorReply, selected |-> s]
    BY <1>5 DEF RC!Executions
  <2> QED BY <2>1, Words
<1> QED BY <1>2, <1>3, <1>4, <1>5

\* The client library hands a reply on, or makes an error of it.
LEMMA ParsedReply ==
    ASSUME NEW r, NEW reply \in RC!Replies
    PROVE  /\ Parsed(r, reply) \in RC!Replies
           /\ Parsed(r, reply) \in {reply, RC!ErrorReply}
BY Words DEF Parsed

-----------------------------------------------------------------------------
(* The invariant is inductive. *)

\* Nothing runs at first.
LEMMA InitInv == Init => PipeInv
<1> SUFFICES ASSUME Init PROVE PipeInv
  OBVIOUS
<1>1. TypeOK
  <2>1. tries \in [Clients -> 0 .. Tries - 1]
    BY PipeAssumption DEF Init
  <2>2. /\ request \in [Clients -> {RC!NoRequest}]
        /\ answer \in [Clients -> {RC!Said("idle")}]
        /\ outcome \in [Clients -> {RC!Said("idle")}]
        /\ client \in [Clients -> {"idle"}]
        /\ selected \in RC!Selections
    BY DEF Init, RC!Init, RC!Selections
  <2> QED BY <2>1, <2>2 DEF Init, TypeOK
<1>2. CallsUnderWay
  BY Words DEF Init, RC!Init, CallsUnderWay
<1>3. InstanceFollowsServer /\ PeerIsConnected /\ InboxIsPending /\ ReplyIsPeers
  BY DEF Init, InstanceFollowsServer, PeerIsConnected, InboxIsPending, ReplyIsPeers
<1> QED BY <1>1, <1>2, <1>3 DEF PipeInv

\* Carrying out the request in the pipe: its outcome, the reply about to be
\* written and the peer, if it still is there, belong together.
LEMMA ServeInv ==
    ASSUME PipeInv, Serve
    PROVE  PipeInv'
<1> DEFINE c == inbox
<1>1. /\ c \in Clients /\ outcome[c] = RC!Pending /\ peer \in {c, None}
      /\ client[c] \in {"receive", "idle"}
  BY DEF PipeInv, TypeOK, InboxIsPending, Serve
<1>2. PICK x \in RC!Executions(request[c], selected) :
        /\ selected' = x.selected /\ response' = x.reply
        /\ outcome' = [outcome EXCEPT ![c] = x.reply]
  BY DEF Serve
<1>3. x.reply \in RC!Replies /\ x.selected \in RC!Selections
  BY ExecutionTypes DEF PipeInv, TypeOK
<1>4. /\ server' = "write" /\ inbox' = None /\ server = "read"
      /\ UNCHANGED <<stop, handler, triggered, instance, peer, outbox,
                     client, tries, request, answer>>
  BY DEF Serve, calls
<1>5. TypeOK'
  BY <1>1, <1>2, <1>3, <1>4 DEF PipeInv, TypeOK
<1>6. CallsUnderWay'
  BY <1>1, <1>2, <1>4 DEF PipeInv, TypeOK, CallsUnderWay
<1>7. InstanceFollowsServer' /\ InboxIsPending'
  BY <1>4 DEF PipeInv, InstanceFollowsServer, InboxIsPending
<1>8. PeerIsConnected'
  BY <1>1, <1>4 DEF PipeInv, PeerIsConnected, InboxIsPending, Serve
<1>9. ReplyIsPeers'
  BY <1>1, <1>2, <1>3, <1>4
     DEF PipeInv, TypeOK, ReplyIsPeers, InstanceFollowsServer
<1> QED BY <1>5, <1>6, <1>7, <1>8, <1>9 DEF PipeInv

\* Reading the reply, or finding that the connection is gone.
LEMMA ReceiveInv ==
    ASSUME PipeInv, NEW c \in Clients, Receive(c)
    PROVE  PipeInv'
<1> DEFINE a == answer'[c]
<1>1. /\ client' = [client EXCEPT ![c] = "idle"]
      /\ tries' = [tries EXCEPT ![c] = 0]
      /\ request' = [request EXCEPT ![c] = RC!NoRequest]
      /\ client[c] = "receive"
      /\ UNCHANGED <<server, stop, handler, triggered, instance, inbox,
                     response, selected, outcome>>
  BY DEF Receive, Returns, Leaves
<1>2. answer' = [answer EXCEPT ![c] = a] /\ a \in RC!Replies
  BY ParsedReply, Words DEF Receive, Returns, Leaves, PipeInv, TypeOK
<1>3. /\ peer' = IF peer = c THEN None ELSE peer
      /\ outbox' \in {outbox, NoReply}
  BY DEF Receive, Closes
<1>4. inbox # c
  BY <1>1, Words, PipeAssumption
     DEF PipeInv, TypeOK, InboxIsPending, ReplyIsPeers, Receive
<1>5. TypeOK'
  BY <1>1, <1>2, <1>3, PipeAssumption DEF PipeInv, TypeOK
<1>6. CallsUnderWay'
  BY <1>1, <1>2, Words DEF PipeInv, TypeOK, CallsUnderWay
<1>7. InstanceFollowsServer'
  BY <1>1, <1>3 DEF PipeInv, InstanceFollowsServer
<1>8. PeerIsConnected' /\ ReplyIsPeers'
  BY <1>1, <1>3, PipeAssumption DEF PipeInv, TypeOK, PeerIsConnected, ReplyIsPeers
<1>9. InboxIsPending'
  BY <1>1, <1>2, <1>3, <1>4, PipeAssumption DEF PipeInv, TypeOK, InboxIsPending
<1> QED BY <1>5, <1>6, <1>7, <1>8, <1>9 DEF PipeInv

\* Every step keeps the invariant.
LEMMA StepInv == PipeInv /\ [Next]_vars => PipeInv'
<1> SUFFICES ASSUME PipeInv, [Next]_vars PROVE PipeInv'
  OBVIOUS
<1> USE PipeAssumption, Words
    DEF PipeInv, TypeOK, CallsUnderWay, InstanceFollowsServer, PeerIsConnected,
        InboxIsPending, ReplyIsPeers, pipe, calls
<1>1. CASE Started
  BY <1>1 DEF Started
<1>2. CASE CheckStop
  BY <1>2 DEF CheckStop, ServiceEnds
<1>3. CASE CreateInstance
  BY <1>3 DEF CreateInstance, ServiceEnds
<1>4. CASE Accept
  BY <1>4 DEF Accept, ServiceEnds, Disconnect
<1>5. CASE Serve
  BY <1>5, ServeInv
<1>6. CASE ReadNothing
  BY <1>6 DEF ReadNothing
<1>7. CASE WriteReply
  BY <1>7 DEF WriteReply
<1>8. CASE CloseInstance
  BY <1>8 DEF CloseInstance, Disconnect
<1>9. CASE StopControl
  BY <1>9 DEF StopControl
<1>10. CASE WakeAccept
  BY <1>10 DEF WakeAccept
<1>11. CASE ServiceDies
  BY <1>11 DEF ServiceDies, ServiceEnds, Disconnect
<1>12. ASSUME NEW c \in Clients, Call(c) PROVE PipeInv'
  BY <1>12 DEF Call
<1>13. ASSUME NEW c \in Clients, Open(c) PROVE PipeInv'
  BY <1>13 DEF Open
<1>14. ASSUME NEW c \in Clients, Retry(c) PROVE PipeInv'
  BY <1>14 DEF Retry, Returns, Leaves
<1>15. ASSUME NEW c \in Clients, Verify(c) PROVE PipeInv'
  BY <1>15 DEF Verify, Returns, Leaves, Closes
<1>16. ASSUME NEW c \in Clients, Send(c) PROVE PipeInv'
  BY <1>16 DEF Send, Returns, Leaves
<1>17. ASSUME NEW c \in Clients, Receive(c) PROVE PipeInv'
  BY <1>17, ReceiveInv
<1>18. ASSUME NEW c \in Clients, ClientDies(c) PROVE PipeInv'
  BY <1>18 DEF ClientDies, Leaves, Closes
<1>19. CASE UNCHANGED vars
  BY <1>19 DEF vars
<1> QED
  BY ONLY [Next]_vars, <1>1, <1>2, <1>3, <1>4, <1>5, <1>6, <1>7, <1>8, <1>9, <1>10, <1>11, <1>12, <1>13, <1>14, <1>15, <1>16, <1>17, <1>18, <1>19
     DEF Next, ServerStep, ClientStep

\* Every variable keeps its type.
THEOREM PipeTypeCorrect == Spec => []TypeOK
<1>1. PipeInv => TypeOK
  BY DEF PipeInv
<1> QED BY InitInv, StepInv, <1>1, PTL DEF Spec

-----------------------------------------------------------------------------
(* The pipe implements the calls.                                            *)

\* Every step of Pipe is a step of RemoteCall or leaves its variables alone.
LEMMA StepRefines == PipeInv /\ [Next]_vars => [RC!Next]_(RC!vars)
<1> SUFFICES ASSUME PipeInv, [Next]_vars PROVE [RC!Next]_(RC!vars)
  OBVIOUS
<1> DEFINE Same == UNCHANGED <<selected, request, outcome, answer>>
<1>1. Same => [RC!Next]_(RC!vars)
  BY DEF RC!vars
<1> HIDE DEF Same
<1>2. CASE Started \/ StopControl \/ WakeAccept \/ ServiceDies
  <2>1. Same
    BY <1>2 DEF Same, Started, StopControl, WakeAccept, ServiceDies, calls
  <2> QED BY <2>1, <1>1
<1>3. CASE CheckStop \/ CreateInstance \/ Accept \/ ReadNothing \/ WriteReply
             \/ CloseInstance
  <2>1. Same
    BY <1>3 DEF Same, CheckStop, CreateInstance, Accept, ReadNothing, WriteReply,
                CloseInstance, calls
  <2> QED BY <2>1, <1>1
<1>4. CASE Serve
  <2>1. /\ inbox \in Clients /\ outcome[inbox] = RC!Pending
        /\ answer[inbox] \in {RC!Pending, RC!Said("gone")}
    BY <1>4 DEF PipeInv, TypeOK, CallsUnderWay, InboxIsPending, Serve
  <2>2. RC!Execute(inbox)
    BY <1>4, <2>1 DEF Serve, calls, RC!Execute
  <2> QED BY <2>1, <2>2 DEF RC!Next
<1>5. ASSUME NEW c \in Clients, Call(c) PROVE RC!Next
  <2>1. answer[c] # RC!Pending
    BY <1>5 DEF PipeInv, CallsUnderWay, Call
  <2>2. RC!Call(c)
    BY <1>5, <2>1 DEF Call, RC!Call
  <2> QED BY <2>2 DEF RC!Next
<1>6. ASSUME NEW c \in Clients, ClientDies(c) PROVE RC!Next
  <2>1. answer[c] = RC!Pending
    BY <1>6 DEF PipeInv, CallsUnderWay, ClientDies
  <2>2. RC!Die(c)
    BY <1>6, <2>1 DEF ClientDies, Leaves, RC!Die
  <2> QED BY <2>2 DEF RC!Next
<1>7. ASSUME NEW c \in Clients, ClientStep(c) PROVE [RC!Next]_(RC!vars)
  <2>1. CASE client[c] # "idle" /\ Returns(c, RC!ErrorReply)
              /\ UNCHANGED <<selected, outcome>>
    <3>1. RC!Return(c)
      BY <2>1, Words DEF RC!Return, Returns, Leaves, PipeInv, CallsUnderWay
    <3> QED BY <3>1 DEF RC!Next
  <2>2. CASE Open(c)
    BY <2>2, <1>1 DEF Open, Same
  <2>3. CASE Retry(c)
    BY <2>3, <2>1, <1>1 DEF Retry, Same
  <2>4. CASE Verify(c)
    BY <2>4, <2>1, <1>1 DEF Verify, Same
  <2>5. CASE Send(c)
    BY <2>5, <2>1, <1>1 DEF Send, Same
  <2>6. CASE Receive(c)
    <3>1. CASE peer = c /\ outbox # NoReply
      <4>1. outbox \in RC!Replies /\ outcome[c] = outbox
        BY <3>1, PipeAssumption DEF PipeInv, TypeOK, ReplyIsPeers
      <4> DEFINE a == Parsed(request[c], outbox)
      <4>2. a = RC!ErrorReply \/ (a = outcome[c] /\ a # RC!Pending)
        BY <4>1, ParsedReply, Words
      <4>3. /\ client[c] # "idle" /\ Returns(c, a)
            /\ UNCHANGED <<selected, outcome>>
        BY <2>6, <3>1 DEF Receive
      <4>4. RC!Return(c)
        BY <4>2, <4>3, Words
           DEF RC!Return, Returns, Leaves, PipeInv, CallsUnderWay
      <4> QED BY <4>4 DEF RC!Next
    <3>2. CASE peer # c
      BY <2>6, <3>2, <2>1 DEF Receive
    <3> QED BY <2>6, <3>1, <3>2 DEF Receive
  <2> QED BY <1>7, <2>2, <2>3, <2>4, <2>5, <2>6 DEF ClientStep
<1>8. CASE UNCHANGED vars
  BY <1>8, <1>1 DEF vars, calls, Same
<1> QED
  BY <1>2, <1>3, <1>4, <1>5, <1>6, <1>7, <1>8 DEF Next, ServerStep

\* Whatever connection, process or stop comes in between, a request is carried
\* out at most once, before its call returns, and the answer is the one it gave
\* or an error: the broker implements the calls it offers.
THEOREM PipeImplementsCalls == Spec => Implements
<1>1. Init => RC!Init
  BY DEF Init
<1> QED BY InitInv, StepInv, StepRefines, <1>1, PTL DEF Spec, Implements, RC!Spec
=============================================================================
