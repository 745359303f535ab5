----------------------------- MODULE RemoteCall -----------------------------
(***************************************************************************)
(* What the broker promises its clients, however it is reached             *)
(* (winbroker/mod.rs, get_entries, set and clear_next).  A call is carried *)
(* out at most once, in one step, between the moment it is made and the    *)
(* moment it returns.  Its answer is the one that step gave, or an error,  *)
(* and an error is final: a call that has returned is not carried out      *)
(* later.  Only the request of a caller that died may still be.  Every     *)
(* call of a caller that lives returns.                                    *)
(***************************************************************************)
CONSTANTS
    Clients,        \* the processes that call
    Keys,           \* the selector keys they may send
    Present,        \* those of the entries of this machine, a subset of Keys
    None            \* not a key

VARIABLES
    selected,       \* the entry the machine will start next, or None
    request,        \* request[c]: what c asks for, until its call returns
    outcome,        \* outcome[c]: the reply given when it was carried out
    answer          \* answer[c]: what the call returned

vars == <<selected, request, outcome, answer>>

-----------------------------------------------------------------------------
Selections == Present \union {None}

NoRequest == [action |-> "none", key |-> None]
Requests == [action : {"set"}, key : Keys]
              \union [action : {"get_state", "clear_next"}, key : {None}]

\* Reply says what the server answered; Said the rest: that a call is under way
\* ("pending"), was never made ("idle"), or that its caller died ("gone").
Said(word) == [result |-> word, entry |-> None]
OkReply == Said("ok")
ErrorReply == Said("error")
Pending == Said("pending")
Replies == [result : {"state"}, entry : Selections] \union {OkReply, ErrorReply}

\* What carrying out r may do when s is selected: the reply, and what is
\* selected then.  A command that fails may have applied its change (the two
\* halves of Switcher::apply) or not.
Executions(r, s) ==
    LET Command(e) == {[reply |-> OkReply, selected |-> e]}
                        \union [reply : {ErrorReply}, selected : {s, e}]
    IN  CASE r.action = "get_state" ->
               {[reply |-> [result |-> "state", entry |-> s], selected |-> s]}
          [] r.action = "set" /\ r.key \in Present -> Command(r.key)
          [] r.action = "clear_next" -> Command(None)
          [] OTHER -> {[reply |-> ErrorReply, selected |-> s]}

-----------------------------------------------------------------------------
Init ==
    /\ selected = None
    /\ request = [c \in Clients |-> NoRequest]
    /\ outcome = [c \in Clients |-> Said("idle")]
    /\ answer = [c \in Clients |-> Said("idle")]

Call(c) ==
    /\ answer[c] # Pending
    /\ \E r \in Requests : request' = [request EXCEPT ![c] = r]
    /\ outcome' = [outcome EXCEPT ![c] = Pending]
    /\ answer' = [answer EXCEPT ![c] = Pending]
    /\ UNCHANGED selected

Execute(c) ==
    /\ outcome[c] = Pending
    /\ answer[c] \in {Pending, Said("gone")}
    /\ \E x \in Executions(request[c], selected) :
          /\ selected' = x.selected
          /\ outcome' = [outcome EXCEPT ![c] = x.reply]
    /\ UNCHANGED <<request, answer>>

Return(c) ==
    /\ answer[c] = Pending
    /\ \E a \in {ErrorReply} \union ({outcome[c]} \ {Pending}) :
          answer' = [answer EXCEPT ![c] = a]
    /\ request' = [request EXCEPT ![c] = NoRequest]
    /\ UNCHANGED <<selected, outcome>>

Die(c) ==
    /\ answer[c] = Pending
    /\ answer' = [answer EXCEPT ![c] = Said("gone")]
    /\ UNCHANGED <<selected, request, outcome>>

Next == \E c \in Clients : Call(c) \/ Execute(c) \/ Return(c) \/ Die(c)

Spec == Init /\ [][Next]_vars

\* Every call of a caller that lives returns.
EveryCallReturns == \A c \in Clients : answer[c] = Pending ~> answer[c] # Pending
=============================================================================
