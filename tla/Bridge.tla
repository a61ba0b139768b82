------------------------------- MODULE Bridge -------------------------------
(* The bridge between Tor and the Directory Authority: dittorProxy in the  *)
(* Tor processes, the accept loop of DAServer in the process of Main, and  *)
(* clients that connect and never write.  Main may stop, by the operator   *)
(* or by the System.exit of a user whose relay was denied, and be started  *)
(* again with an empty registry; a Tor process may stop in a call.         *)
EXTENDS Admission, Naturals, Sequences

CONSTANTS
    Relays,         \* Tor processes that parse descriptors
    Silent,         \* other programs that connect to the port and write nothing
    Claims,         \* the requests that descriptors and users make
    MaxSockets,     \* file descriptors a Tor process has for dittorProxy
    MaxStarts       \* bound: how often Main is started

ASSUME ClientsAssumption == Relays \cap Silent = {} /\ \A c \in Relays \cup Silent : c # None
ASSUME ClaimsAssumption == Claims \subseteq Claim /\ \A x \in Claims : x # None
ASSUME SocketsAssumption == MaxSockets \in Nat /\ MaxStarts \in Nat

Clients == Relays \cup Silent

VARIABLES
    proxy,          \* where each client is in dittorProxy
    request,        \* request[c]: the message of the current call, or None
    answer,         \* answer[c]: what the last call returned
    leaked,         \* leaked[c]: sockets of failed connects, never closed
    queue,          \* connections that wait in the backlog of the server socket
    line,           \* line[c]: the VALIDATE line of c is in its connection
    wire,           \* wire[c]: what the server has sent or closed towards c
    server,         \* the connection DAServer serves, and its verdict
    main,           \* the process of Main
    starts,         \* how often Main was started
    registrations,  \* the registry of the running DA
    calm            \* calm[c]: since c's last call began Main has run, and c was not timed out (history)

torVars == <<proxy, request, answer, leaked>>
connVars == <<queue, line, wire>>
mainVars == <<main, starts, registrations>>
vars == <<proxy, request, answer, leaked, queue, line, wire, server, main, starts, registrations, calm>>

Accepting == [client |-> None, result |-> "none"]

Init ==
    /\ proxy = [c \in Clients |-> "idle"]
    /\ request = [c \in Relays |-> None]
    /\ answer = [c \in Relays |-> "none"]
    /\ leaked = [c \in Relays |-> 0]
    /\ queue = <<>>
    /\ line = [c \in Clients |-> FALSE]
    /\ wire = [c \in Clients |-> "none"]
    /\ server = Accepting
    /\ main = "down" /\ starts = 0
    /\ registrations = Empty
    /\ calm = [c \in Relays |-> FALSE]

-----------------------------------------------------------------------------
(* dittorProxy.                                                            *)

\* The parser has built a payload and calls dittorProxy.
Call(c, x) ==
    /\ proxy[c] = "idle"
    /\ proxy' = [proxy EXCEPT ![c] = "connecting"]
    /\ request' = [request EXCEPT ![c] = x]
    /\ calm' = [calm EXCEPT ![c] = (main # "down")]
    /\ UNCHANGED <<answer, leaked, connVars, server, mainVars>>

Return(c, a) ==
    /\ proxy' = [proxy EXCEPT ![c] = "idle"]
    /\ request' = [request EXCEPT ![c] = None]
    /\ answer' = [answer EXCEPT ![c] = a]

\* socket() fails: no file descriptor is left.
NoSocket(c) ==
    /\ proxy[c] = "connecting" /\ leaked[c] = MaxSockets
    /\ Return(c, "NULL")
    /\ UNCHANGED <<leaked, connVars, server, mainVars, calm>>

\* connect() fails; dittorProxy returns without close().
Refused(c) ==
    /\ proxy[c] = "connecting" /\ leaked[c] < MaxSockets /\ main = "down"
    /\ leaked' = [leaked EXCEPT ![c] = @ + 1]
    /\ Return(c, "NULL")
    /\ UNCHANGED <<connVars, server, mainVars, calm>>

\* The connection is complete as soon as it is in the backlog.
Queue(c, next) ==
    /\ main # "down"
    /\ proxy' = [proxy EXCEPT ![c] = next]
    /\ queue' = Append(queue, c)
    /\ UNCHANGED <<request, answer, leaked, line, wire, server, mainVars, calm>>

Connect(c) ==
    /\ proxy[c] = "connecting" /\ leaked[c] < MaxSockets
    /\ Queue(c, "sending")

\* send(); on a connection that the other side has closed it has no effect.
Send(c) ==
    /\ proxy[c] = "sending"
    /\ proxy' = [proxy EXCEPT ![c] = "reading"]
    /\ line' = [line EXCEPT ![c] = (wire[c] = "none")]
    /\ UNCHANGED <<request, answer, leaked, queue, wire, server, mainVars, calm>>

\* read() returns the reply or the end of the stream, then close().
Read(c) ==
    /\ c \in Relays /\ proxy[c] = "reading" /\ wire[c] # "none"
    /\ Return(c, IF wire[c] = "closed" THEN "NULL" ELSE wire[c])
    /\ line' = [line EXCEPT ![c] = FALSE]
    /\ wire' = [wire EXCEPT ![c] = "none"]
    /\ UNCHANGED <<leaked, queue, server, mainVars, calm>>

\* A Tor process ends; a line it has sent stays in the connection.
StopTor(c) ==
    /\ proxy[c] # "stopped"
    /\ proxy' = [proxy EXCEPT ![c] = "stopped"]
    /\ UNCHANGED <<request, answer, leaked, connVars, server, mainVars, calm>>

-----------------------------------------------------------------------------
(* Clients that never write.                                               *)

Knock(s) == proxy[s] = "idle" /\ Queue(s, "reading")

\* The client sees the connection closed, or closes it first.
HangUp(s) ==
    /\ proxy[s] = "reading"
    /\ proxy' = [proxy EXCEPT ![s] = IF wire[s] = "none" THEN "stopped" ELSE "idle"]
    /\ wire' = [wire EXCEPT ![s] = "none"]
    /\ UNCHANGED <<request, answer, leaked, queue, line, server, mainVars, calm>>

-----------------------------------------------------------------------------
(* DAServer.run.                                                           *)

Accept ==
    /\ main # "down" /\ server = Accepting /\ queue # <<>>
    /\ server' = [Accepting EXCEPT !.client = Head(queue)]
    /\ queue' = Tail(queue)
    /\ UNCHANGED <<torVars, line, wire, mainVars, calm>>

\* A connection of c is in the backlog or being served.
Open(c) == server.client = c \/ \E k \in 1..Len(queue) : queue[k] = c

\* The try-with-resources closes the connection.
Close(c, last) ==
    /\ server' = Accepting
    /\ wire' = [wire EXCEPT ![c] = last]
    /\ UNCHANGED <<torVars, queue, line, mainVars>>

Reading(c) == main # "down" /\ server.client = c /\ server.result = "none"

\* Mutant: the request is verified but not registered.
M_VerifyOnly(c) ==
    /\ Reading(c) /\ line[c]
    /\ server' = [server EXCEPT !.result = IF Accepts(registrations, request[c]) THEN "VALID" ELSE "INVALID"]
    /\ UNCHANGED <<torVars, connVars, mainVars, calm>>

\* readLine returns the request, which is verified and registered.
ReadLine(c) ==
    /\ Reading(c) /\ line[c]
    /\ server' = [server EXCEPT !.result = IF Accepts(registrations, request[c]) THEN "VALID" ELSE "INVALID"]
    /\ registrations' = Enter(registrations, request[c])
    /\ UNCHANGED <<torVars, connVars, main, starts, calm>>

\* readLine returns null: the client has closed its end.
EndOfFile(c) ==
    /\ Reading(c) /\ ~line[c] /\ proxy[c] = "stopped"
    /\ Close(c, "closed") /\ UNCHANGED calm

\* Mutant: readLine waits for ever.
M_NoTimeOut(c) == FALSE /\ Reading(c) /\ Close(c, "closed") /\ UNCHANGED calm

\* Mutant: the handler of the exception answers INVALID.
M_TimeOutInvalid(c) ==
    /\ Reading(c) /\ ~line[c] /\ proxy[c] # "stopped"
    /\ Close(c, "INVALID") /\ UNCHANGED calm

\* SocketTimeoutException: five seconds have passed without a line.
TimeOut(c) ==
    /\ Reading(c) /\ ~line[c] /\ proxy[c] # "stopped"
    /\ Close(c, "closed")
    /\ calm' = [d \in Relays |-> calm[d] /\ d # c]

\* Mutant: only a good request is answered.
M_OnlyValid(c) ==
    /\ main # "down" /\ server.client = c /\ server.result # "none"
    /\ Close(c, IF server.result = "VALID" THEN "VALID" ELSE "closed") /\ UNCHANGED calm

\* The reply and the close; println ignores that the client may be gone.
Reply(c) ==
    /\ main # "down" /\ server.client = c /\ server.result # "none"
    /\ Close(c, server.result) /\ UNCHANGED calm

-----------------------------------------------------------------------------
(* The process of Main.                                                    *)

\* A user's RegisterRelayMsg; when it is denied, System.exit is on its way.
HandleRegisterRelay(x) ==
    /\ main # "down"
    /\ registrations' = Enter(registrations, x)
    /\ main' = IF Accepts(registrations, x) THEN main ELSE "exiting"
    /\ UNCHANGED <<torVars, connVars, server, starts, calm>>

\* Main ends: its connections are closed, and the registry was in memory.
StopMain ==
    /\ main # "down"
    /\ main' = "down"
    /\ registrations' = Empty
    /\ wire' = [c \in Clients |-> IF Open(c) THEN "closed" ELSE wire[c]]
    /\ queue' = <<>>
    /\ server' = Accepting
    /\ calm' = [c \in Relays |-> FALSE]
    /\ UNCHANGED <<torVars, line, starts>>

StartMain ==
    /\ main = "down" /\ starts < MaxStarts
    /\ main' = "up" /\ starts' = starts + 1
    /\ UNCHANGED <<torVars, connVars, server, registrations, calm>>

-----------------------------------------------------------------------------

Tor(c) ==
    \/ \E x \in Claims : Call(c, x)
    \/ NoSocket(c) \/ Refused(c) \/ Connect(c) \/ Send(c) \/ Read(c) \/ StopTor(c)

Serve(c) == ReadLine(c) \/ EndOfFile(c) \/ TimeOut(c) \/ Reply(c)

Next ==
    \/ \E c \in Relays : Tor(c)
    \/ \E s \in Silent : Knock(s) \/ HangUp(s)
    \/ Accept \/ \E c \in Clients : Serve(c)
    \/ StopMain \/ StartMain \/ \E x \in Claims : HandleRegisterRelay(x)

Spec == Init /\ [][Next]_vars

\* The steps of dittorProxy and of the accept loop are taken as long as their
\* processes run, the timeout of the read included; nobody has to call, to
\* write, to stop or to be started.
Fairness ==
    /\ \A c \in Relays : /\ WF_vars(NoSocket(c) \/ Refused(c) \/ Connect(c))
                         /\ WF_vars(Send(c))
                         /\ WF_vars(Read(c))
    /\ WF_vars(Accept)
    /\ WF_vars(\E c \in Clients : Serve(c))

FairSpec == Spec /\ Fairness

-----------------------------------------------------------------------------
(* Properties.                                                             *)

\* Every client is at a step of dittorProxy, the connections carry a line one
\* way and a verdict or a close the other way, and the registry is one.
TypeOK ==
    /\ proxy \in [Clients -> {"idle", "connecting", "sending", "reading", "stopped"}]
    /\ request \in [Relays -> {None} \cup Claims]
    /\ answer \in [Relays -> {"none", "VALID", "INVALID", "NULL"}]
    /\ leaked \in [Relays -> 0..MaxSockets]
    /\ queue \in Seq(Clients)
    /\ line \in [Clients -> BOOLEAN]
    /\ wire \in [Clients -> {"none", "VALID", "INVALID", "closed"}]
    /\ server \in [client : {None} \cup Clients, result : {"none", "VALID", "INVALID"}]
    /\ main \in {"down", "up", "exiting"} /\ starts \in 0..MaxStarts
    /\ registrations \in Registrations
    /\ calm \in [Relays -> BOOLEAN]

\* A Tor process that got VALID from the Main that still runs got it for a node
\* that this Main's registry holds: no reply of an earlier Main, or meant for
\* another connection, passes for one.
ValidIsRegistered ==
    \A c \in Relays : proxy[c] = "reading" /\ wire[c] = "VALID" /\ calm[c] =>
        registrations[request[c].key][request[c].nodeId] # None

\* dittorProxy returns NULL, which makes the parser keep the descriptor, only
\* if Main was not running for the whole call, if the caller itself was held up
\* for five seconds before it wrote, or if its file descriptors were used up;
\* never because others connect and do not write, and never instead of INVALID.
NullMeansTrouble ==
    \A c \in Relays : proxy[c] = "idle" /\ answer[c] = "NULL" =>
        ~calm[c] \/ leaked[c] = MaxSockets

\* While Main runs for the whole call, a process that is not held up gets an
\* answer: enforcement is lost only during the window in which the backend is
\* down.
EnforcedWhileUp ==
    \A c \in Relays : proxy[c] = "idle" /\ answer[c] = "NULL" => ~calm[c]

\* Every call of dittorProxy returns, whoever else connects: its read has no
\* timeout of its own, so the server's is the only one.
CallsReturn ==
    \A c \in Relays : proxy[c] \in {"connecting", "sending", "reading"} ~> proxy[c] \in {"idle", "stopped"}

\* The backlog and the server hold each connection once, and none of an ended
\* Main.
QueueOK ==
    /\ \A j, k \in 1..Len(queue) : queue[j] = queue[k] => j = k
    /\ \A k \in 1..Len(queue) : queue[k] # server.client
    /\ server.client = None => server.result = "none"
    /\ main = "down" => queue = <<>> /\ server = Accepting /\ \A c \in Relays : ~calm[c]

\* A connection is open until the server has answered or closed it, and a
\* client that is not in a call has none.
ConnectionOK(c) ==
    /\ proxy[c] \in {"idle", "connecting"} => ~Open(c) /\ wire[c] = "none" /\ ~line[c]
    /\ proxy[c] \in {"sending", "reading"} => (Open(c) <=> wire[c] = "none")
    /\ Open(c) => wire[c] = "none"
    /\ proxy[c] = "sending" => ~line[c]

\* What a call has got so far: VALID for a node that is registered, and a
\* close only in the cases that NullMeansTrouble allows.
CallOK(c) ==
    /\ proxy[c] = "idle" => request[c] = None
    /\ proxy[c] \in {"connecting", "sending", "reading"} \/ line[c] \/ Open(c) => request[c] # None
    /\ server.client = c /\ server.result # "none" => line[c]
    /\ proxy[c] = "sending" => wire[c] \in {"none", "closed"}
    /\ server.client = c /\ server.result = "VALID" =>
          registrations[request[c].key][request[c].nodeId] # None
    /\ proxy[c] \in {"sending", "reading"} /\ wire[c] = "closed" => ~calm[c]

\* The inductive invariant: the connections are consistent, and no reply can
\* reach a caller it was not made for.
BridgeInv ==
    /\ TypeOK /\ QueueOK
    /\ \A c \in Clients : ConnectionOK(c)
    /\ \A c \in Relays : CallOK(c)
    /\ \A s \in Silent : ~line[s] /\ proxy[s] \notin {"connecting", "sending"}
    /\ ValidIsRegistered
    /\ NullMeansTrouble

\* What became of a call so far, read off the connection and the server.
verdictOf(c) ==
    IF wire[c] = "closed" THEN "lost"
    ELSE IF wire[c] # "none" THEN wire[c]
    ELSE IF server.client = c THEN server.result
    ELSE "none"

V == INSTANCE Validator WITH
        Callers <- Relays,
        claim <- request,
        verdict <- [c \in Relays |-> verdictOf(c)]

\* The queue, the timeout and the single-threaded loop between the callers and
\* the registry are invisible: every call is decided at most once, for its own
\* request, and returns that verdict or NULL.
ImplementsValidator == V!Spec
=============================================================================
