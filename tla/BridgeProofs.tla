---------------------------- MODULE BridgeProofs ----------------------------
(* The bridge never lets a reply pass for another, and what it does is     *)
(* what Validator promises, for any Tor processes, clients and requests.   *)
EXTENDS Bridge, TLAPS

-----------------------------------------------------------------------------
(* The registry.                                                           *)

\* A request keeps the registry one, forgets nobody, and enters what it
\* accepts.
LEMMA EnterFacts ==
    ASSUME NEW reg \in Registrations, NEW x \in Claim
    PROVE  /\ Enter(reg, x) \in Registrations
           /\ \A key \in Pseudonyms, n \in Nodes : reg[key][n] # None => Enter(reg, x)[key][n] # None
           /\ Accepts(reg, x) => Enter(reg, x)[x.key][x.nodeId] # None
BY Zenon, NoneIsNoFamily DEF Enter, Registrations, Entry, Claim

\* The empty registry is a registry.
LEMMA EmptyType == Empty \in Registrations
BY Zenon DEF Empty, Nobody, Registrations, Entry

-----------------------------------------------------------------------------
(* Steps that leave the queue and the server.                              *)

\* A new call keeps the invariant.
LEMMA CallInv ==
    ASSUME BridgeInv, NEW c \in Relays, NEW x \in Claims, Call(c, x)
    PROVE  BridgeInv'
<1> USE ClientsAssumption, ClaimsAssumption DEF Clients
<1>1. TypeOK'
  BY Zenon DEF BridgeInv, TypeOK, Call, connVars, mainVars
<1>2. QueueOK'
  BY DEF BridgeInv, TypeOK, QueueOK, Call, connVars, mainVars
<1>3. \A d \in Clients : ConnectionOK(d)'
  BY DEF BridgeInv, TypeOK, ConnectionOK, Open, Call, connVars, mainVars
<1>4. \A d \in Relays : CallOK(d)'
  BY DEF BridgeInv, TypeOK, ConnectionOK, CallOK, Open, Call, connVars, mainVars
<1>5. ValidIsRegistered'
  BY DEF BridgeInv, TypeOK, ConnectionOK, ValidIsRegistered, Call, connVars, mainVars
<1>6. NullMeansTrouble'
  BY Zenon DEF BridgeInv, TypeOK, NullMeansTrouble, Call, connVars, mainVars
<1>7. (\A s \in Silent : ~line[s] /\ proxy[s] \notin {"connecting", "sending"})'
  BY Zenon DEF BridgeInv, TypeOK, Call, connVars, mainVars
<1> QED BY Zenon, <1>1, <1>2, <1>3, <1>4, <1>5, <1>6, <1>7 DEF BridgeInv

\* A call that gets no socket keeps the invariant.
LEMMA NoSocketInv ==
    ASSUME BridgeInv, NEW c \in Relays, NoSocket(c)
    PROVE  BridgeInv'
<1> USE ClientsAssumption, ClaimsAssumption, SocketsAssumption DEF Clients, NoSocket, Return, connVars, mainVars
<1>1. TypeOK'
  BY Zenon DEF BridgeInv, TypeOK
<1>2. QueueOK'
  BY DEF BridgeInv, TypeOK, QueueOK, ConnectionOK, Open
<1>3. \A d \in Clients : ConnectionOK(d)'
  BY DEF BridgeInv, TypeOK, QueueOK, ConnectionOK, Open
<1>4. \A d \in Relays : CallOK(d)'
  BY DEF BridgeInv, TypeOK, QueueOK, ConnectionOK, CallOK, Open
<1>5. ValidIsRegistered'
  BY DEF BridgeInv, TypeOK, QueueOK, ConnectionOK, CallOK, Open, ValidIsRegistered
<1>6. NullMeansTrouble'
  BY Zenon DEF BridgeInv, TypeOK, CallOK, NullMeansTrouble
<1>7. (\A s \in Silent : ~line[s] /\ proxy[s] \notin {"connecting", "sending"})'
  BY Zenon DEF BridgeInv, TypeOK
<1> QED BY Zenon, <1>1, <1>2, <1>3, <1>4, <1>5, <1>6, <1>7 DEF BridgeInv

\* A refused connection keeps the invariant: Main is down, so the caller is
\* not calm.
LEMMA RefusedInv ==
    ASSUME BridgeInv, NEW c \in Relays, Refused(c)
    PROVE  BridgeInv'
<1> USE ClientsAssumption, ClaimsAssumption, SocketsAssumption DEF Clients, Refused, Return, connVars, mainVars
<1>1. TypeOK'
  BY DEF BridgeInv, TypeOK
<1>2. QueueOK'
  BY DEF BridgeInv, TypeOK, QueueOK, ConnectionOK, Open
<1>3. \A d \in Clients : ConnectionOK(d)'
  BY DEF BridgeInv, TypeOK, QueueOK, ConnectionOK, Open
<1>4. \A d \in Relays : CallOK(d)'
  BY DEF BridgeInv, TypeOK, QueueOK, ConnectionOK, CallOK, Open
<1>5. ValidIsRegistered'
  BY Zenon DEF BridgeInv, TypeOK, QueueOK, ConnectionOK, CallOK, Open, ValidIsRegistered
<1>6. NullMeansTrouble'
  BY Zenon DEF BridgeInv, TypeOK, QueueOK, CallOK, NullMeansTrouble
<1>7. (\A s \in Silent : ~line[s] /\ proxy[s] \notin {"connecting", "sending"})'
  BY Zenon DEF BridgeInv, TypeOK
<1> QED BY Zenon, <1>1, <1>2, <1>3, <1>4, <1>5, <1>6, <1>7 DEF BridgeInv

\* A new connection goes to the end of the backlog.
LEMMA ConnectInv ==
    ASSUME BridgeInv, NEW c \in Relays, Connect(c)
    PROVE  BridgeInv'
<1> USE ClientsAssumption, ClaimsAssumption, SocketsAssumption DEF Clients, Connect, Queue, mainVars
<1>1. TypeOK'
  BY DEF BridgeInv, TypeOK
<1>2. QueueOK'
  BY DEF BridgeInv, TypeOK, QueueOK, ConnectionOK, Open
<1>3. \A d \in Clients : ConnectionOK(d)'
  BY DEF BridgeInv, TypeOK, QueueOK, ConnectionOK, Open
<1>4. \A d \in Relays : CallOK(d)'
  BY DEF BridgeInv, TypeOK, QueueOK, ConnectionOK, CallOK, Open
<1>5. ValidIsRegistered'
  BY Zenon DEF BridgeInv, TypeOK, QueueOK, ConnectionOK, CallOK, Open, ValidIsRegistered
<1>6. NullMeansTrouble'
  BY Zenon DEF BridgeInv, TypeOK, CallOK, NullMeansTrouble
<1>7. (\A s \in Silent : ~line[s] /\ proxy[s] \notin {"connecting", "sending"})'
  BY Zenon DEF BridgeInv, TypeOK
<1> QED BY Zenon, <1>1, <1>2, <1>3, <1>4, <1>5, <1>6, <1>7 DEF BridgeInv

\* The line is put into a connection that is open.
LEMMA SendInv ==
    ASSUME BridgeInv, NEW c \in Relays, Send(c)
    PROVE  BridgeInv'
<1> USE ClientsAssumption, ClaimsAssumption, SocketsAssumption DEF Clients, Send, mainVars
<1>1. TypeOK'
  BY Zenon DEF BridgeInv, TypeOK
<1>2. QueueOK'
  BY DEF BridgeInv, TypeOK, QueueOK, ConnectionOK, Open
<1>3. \A d \in Clients : ConnectionOK(d)'
  BY DEF BridgeInv, TypeOK, QueueOK, ConnectionOK, Open
<1>4. \A d \in Relays : CallOK(d)'
  BY DEF BridgeInv, TypeOK, QueueOK, ConnectionOK, CallOK, Open
<1>5. ValidIsRegistered'
  BY Zenon DEF BridgeInv, TypeOK, QueueOK, ConnectionOK, CallOK, Open, ValidIsRegistered
<1>6. NullMeansTrouble'
  BY Zenon DEF BridgeInv, TypeOK, CallOK, NullMeansTrouble
<1>7. (\A s \in Silent : ~line[s] /\ proxy[s] \notin {"connecting", "sending"})'
  BY Zenon DEF BridgeInv, TypeOK
<1> QED BY Zenon, <1>1, <1>2, <1>3, <1>4, <1>5, <1>6, <1>7 DEF BridgeInv

\* The call returns what the connection carries.
LEMMA ReadInv ==
    ASSUME BridgeInv, NEW c \in Relays, Read(c)
    PROVE  BridgeInv'
<1> USE ClientsAssumption, ClaimsAssumption, SocketsAssumption DEF Clients, Read, Return, mainVars
<1>1. TypeOK'
  BY Zenon DEF BridgeInv, TypeOK
<1>2. QueueOK'
  BY DEF BridgeInv, TypeOK, QueueOK, ConnectionOK, Open
<1>3. \A d \in Clients : ConnectionOK(d)'
  BY DEF BridgeInv, TypeOK, QueueOK, ConnectionOK, Open
<1>4. \A d \in Relays : CallOK(d)'
  BY DEF BridgeInv, TypeOK, QueueOK, ConnectionOK, CallOK, Open
<1>5. ValidIsRegistered'
  BY DEF BridgeInv, TypeOK, QueueOK, ConnectionOK, CallOK, Open, ValidIsRegistered
<1>6. NullMeansTrouble'
  BY ZenonT(60) DEF BridgeInv, TypeOK, CallOK, NullMeansTrouble
<1>7. (\A s \in Silent : ~line[s] /\ proxy[s] \notin {"connecting", "sending"})'
  BY Zenon DEF BridgeInv, TypeOK
<1> QED BY Zenon, <1>1, <1>2, <1>3, <1>4, <1>5, <1>6, <1>7 DEF BridgeInv

\* A Tor process may stop at any point.
LEMMA StopTorInv ==
    ASSUME BridgeInv, NEW c \in Relays, StopTor(c)
    PROVE  BridgeInv'
<1> USE ClientsAssumption, ClaimsAssumption, SocketsAssumption DEF Clients, StopTor, connVars, mainVars
<1>1. TypeOK'
  BY Zenon DEF BridgeInv, TypeOK
<1>2. QueueOK'
  BY DEF BridgeInv, TypeOK, QueueOK, ConnectionOK, Open
<1>3. \A d \in Clients : ConnectionOK(d)'
  BY DEF BridgeInv, TypeOK, QueueOK, ConnectionOK, Open
<1>4. \A d \in Relays : CallOK(d)'
  BY DEF BridgeInv, TypeOK, QueueOK, ConnectionOK, CallOK, Open
<1>5. ValidIsRegistered'
  BY Zenon DEF BridgeInv, TypeOK, QueueOK, ConnectionOK, CallOK, Open, ValidIsRegistered
<1>6. NullMeansTrouble'
  BY Zenon DEF BridgeInv, TypeOK, CallOK, NullMeansTrouble
<1>7. (\A s \in Silent : ~line[s] /\ proxy[s] \notin {"connecting", "sending"})'
  BY Zenon DEF BridgeInv, TypeOK
<1> QED BY Zenon, <1>1, <1>2, <1>3, <1>4, <1>5, <1>6, <1>7 DEF BridgeInv

\* A silent client goes to the end of the backlog.
LEMMA KnockInv ==
    ASSUME BridgeInv, NEW s \in Silent, Knock(s)
    PROVE  BridgeInv'
<1> USE ClientsAssumption, ClaimsAssumption, SocketsAssumption DEF Clients, Knock, Queue, mainVars
<1>1. TypeOK'
  BY DEF BridgeInv, TypeOK
<1>2. QueueOK'
  BY DEF BridgeInv, TypeOK, QueueOK, ConnectionOK, Open
<1>3. \A d \in Clients : ConnectionOK(d)'
  BY SMTT(30) DEF BridgeInv, TypeOK, QueueOK, ConnectionOK, Open
<1>4. \A d \in Relays : CallOK(d)'
  BY DEF BridgeInv, TypeOK, QueueOK, ConnectionOK, CallOK, Open
<1>5. ValidIsRegistered'
  BY Zenon DEF BridgeInv, TypeOK, QueueOK, ConnectionOK, CallOK, Open, ValidIsRegistered
<1>6. NullMeansTrouble'
  BY Zenon DEF BridgeInv, TypeOK, CallOK, NullMeansTrouble
<1>7. (\A o \in Silent : ~line[o] /\ proxy[o] \notin {"connecting", "sending"})'
  BY Zenon DEF BridgeInv, TypeOK
<1> QED BY Zenon, <1>1, <1>2, <1>3, <1>4, <1>5, <1>6, <1>7 DEF BridgeInv

\* A silent client closes, or is closed.
LEMMA HangUpInv ==
    ASSUME BridgeInv, NEW s \in Silent, HangUp(s)
    PROVE  BridgeInv'
<1> USE ClientsAssumption, ClaimsAssumption, SocketsAssumption DEF Clients, HangUp, mainVars
<1>1. TypeOK'
  BY Zenon DEF BridgeInv, TypeOK
<1>2. QueueOK'
  BY DEF BridgeInv, TypeOK, QueueOK, ConnectionOK, Open
<1>3. \A d \in Clients : ConnectionOK(d)'
  BY DEF BridgeInv, TypeOK, QueueOK, ConnectionOK, Open
<1>4. \A d \in Relays : CallOK(d)'
  BY DEF BridgeInv, TypeOK, QueueOK, ConnectionOK, CallOK, Open
<1>5. ValidIsRegistered'
  BY Zenon DEF BridgeInv, TypeOK, QueueOK, ConnectionOK, CallOK, Open, ValidIsRegistered
<1>6. NullMeansTrouble'
  BY DEF BridgeInv, TypeOK, CallOK, NullMeansTrouble
<1>7. (\A o \in Silent : ~line[o] /\ proxy[o] \notin {"connecting", "sending"})'
  BY Zenon DEF BridgeInv, TypeOK
<1> QED BY Zenon, <1>1, <1>2, <1>3, <1>4, <1>5, <1>6, <1>7 DEF BridgeInv

\* The head of the backlog becomes the connection that is served.
LEMMA AcceptInv ==
    ASSUME BridgeInv, Accept
    PROVE  BridgeInv'
<1> USE ClientsAssumption, ClaimsAssumption, SocketsAssumption DEF Clients, Accept, Accepting, torVars, mainVars
<1>1. TypeOK'
  BY DEF BridgeInv, TypeOK
<1>0. /\ queue \in Seq(Clients) /\ queue # <<>> /\ queue' = Tail(queue)
      /\ server' = [client |-> queue[1], result |-> "none"]
      /\ server.client = None
  BY DEF BridgeInv, TypeOK
<1>8. /\ Len(queue) \in Nat /\ Len(queue) >= 1 /\ Len(queue') = Len(queue) - 1
      /\ \A k \in 1..Len(queue') : k + 1 \in 1..Len(queue) /\ queue'[k] = queue[k + 1]
  BY <1>0
<1>2. QueueOK'
  <2>1. \A j, k \in 1..Len(queue') : queue'[j] = queue'[k] => j = k
    BY <1>8 DEF BridgeInv, QueueOK
  <2>2. \A k \in 1..Len(queue') : queue'[k] # server'.client
    BY SMTT(30), <1>0, <1>8 DEF BridgeInv, QueueOK
  <2> QED BY Zenon, <1>0, <2>1, <2>2 DEF QueueOK
<1>9. \A d \in Clients : Open(d)' <=> Open(d)
  <2> SUFFICES ASSUME NEW d \in Clients PROVE Open(d)' <=> Open(d)
    BY Zenon
  <2>1. ASSUME NEW k \in 1..Len(queue), queue[k] = d, k # 1 PROVE Open(d)'
    <3>1. k - 1 \in 1..Len(queue') /\ queue'[k - 1] = d
      BY <1>8, <2>1
    <3> QED BY Zenon, <3>1 DEF Open
  <2>2. ASSUME NEW k \in 1..Len(queue'), queue'[k] = d PROVE Open(d)
    BY Zenon, <1>8, <2>2 DEF Open
  <2>3. d # None
    BY Zenon
  <2> QED BY SMTT(30), <1>0, <1>8, <2>1, <2>2, <2>3 DEF Open
<1>3. \A d \in Clients : ConnectionOK(d)'
  BY Zenon, <1>9 DEF BridgeInv, TypeOK, ConnectionOK
<1>4. \A d \in Relays : CallOK(d)'
  BY Zenon, <1>0, <1>9 DEF BridgeInv, TypeOK, CallOK
<1>5. ValidIsRegistered'
  BY Zenon DEF BridgeInv, TypeOK, ConnectionOK, ValidIsRegistered
<1>6. NullMeansTrouble'
  BY Zenon DEF BridgeInv, TypeOK, CallOK, NullMeansTrouble
<1>7. (\A s \in Silent : ~line[s] /\ proxy[s] \notin {"connecting", "sending"})'
  BY Zenon DEF BridgeInv, TypeOK
<1> QED BY Zenon, <1>1, <1>2, <1>3, <1>4, <1>5, <1>6, <1>7 DEF BridgeInv

\* The request that is decided is the one of the connection served.
LEMMA ReadLineInv ==
    ASSUME BridgeInv, NEW c \in Clients, ReadLine(c)
    PROVE  BridgeInv'
<1> USE ClientsAssumption, ClaimsAssumption, SocketsAssumption DEF Clients, ReadLine, Reading, torVars, connVars
<1>0. c \in Relays /\ request[c] \in Claims
  BY Zenon DEF BridgeInv, TypeOK, CallOK
<1>8. /\ registrations \in Registrations /\ request[c] \in Claim
      /\ registrations' = Enter(registrations, request[c])
  BY Zenon, <1>0 DEF BridgeInv, TypeOK
<1>9. /\ registrations' \in Registrations
      /\ \A key \in Pseudonyms, n \in Nodes : registrations[key][n] # None => registrations'[key][n] # None
      /\ server'.result = "VALID" => registrations'[request[c].key][request[c].nodeId] # None
  BY <1>8, EnterFacts DEF BridgeInv, TypeOK
<1>10. \A d \in Relays : request[d] # None => request[d].key \in Pseudonyms /\ request[d].nodeId \in Nodes
  BY DEF BridgeInv, TypeOK, Claim
<1>1. TypeOK'
  BY Zenon, <1>9 DEF BridgeInv, TypeOK
<1>2. QueueOK'
  BY Zenon DEF BridgeInv, TypeOK, QueueOK, ConnectionOK, Open
<1>3. \A d \in Clients : ConnectionOK(d)'
  BY DEF BridgeInv, TypeOK, QueueOK, ConnectionOK, Open
<1>4. \A d \in Relays : CallOK(d)'
  BY <1>0, <1>9, <1>10 DEF BridgeInv, TypeOK, QueueOK, ConnectionOK, CallOK, Open
<1>5. ValidIsRegistered'
  <2> SUFFICES ASSUME NEW d \in Relays, proxy[d] = "reading", wire[d] = "VALID", calm[d]
               PROVE  registrations'[request[d].key][request[d].nodeId] # None
    BY Zenon DEF ValidIsRegistered
  <2>1. request[d] # None /\ registrations[request[d].key][request[d].nodeId] # None
    BY Zenon DEF BridgeInv, CallOK, ValidIsRegistered
  <2> QED BY Zenon, <1>9, <1>10, <2>1
<1>6. NullMeansTrouble'
  BY Zenon DEF BridgeInv, TypeOK, CallOK, NullMeansTrouble
<1>7. (\A s \in Silent : ~line[s] /\ proxy[s] \notin {"connecting", "sending"})'
  BY Zenon DEF BridgeInv, TypeOK
<1> QED BY Zenon, <1>1, <1>2, <1>3, <1>4, <1>5, <1>6, <1>7 DEF BridgeInv

\* A connection closed without a reply is that of a process that was timed out
\* or has stopped.
LEMMA CloseInv ==
    ASSUME BridgeInv, NEW c \in Clients, EndOfFile(c) \/ TimeOut(c)
    PROVE  BridgeInv'
<1> USE ClientsAssumption, ClaimsAssumption, SocketsAssumption DEF Clients
<1>0. /\ server.client = c /\ wire' = [wire EXCEPT ![c] = "closed"]
      /\ server' = [client |-> None, result |-> "none"]
      /\ UNCHANGED <<proxy, request, answer, leaked, queue, line, main, starts, registrations>>
      /\ ~line[c]
      /\ \/ proxy[c] = "stopped" /\ UNCHANGED calm
         \/ calm' = [d \in Relays |-> calm[d] /\ d # c]
  BY Zenon DEF EndOfFile, TimeOut, Reading, Close, Accepting, torVars, mainVars
<1>1. TypeOK'
  <2>1. calm' \in [Relays -> BOOLEAN]
    BY ZenonT(60), <1>0 DEF BridgeInv, TypeOK
  <2>2. wire' \in [Clients -> {"none", "VALID", "INVALID", "closed"}]
    BY Zenon, <1>0 DEF BridgeInv, TypeOK
  <2>3. server' \in [client : {None} \cup Clients, result : {"none", "VALID", "INVALID"}]
    BY Zenon, <1>0
  <2> QED BY Zenon, <1>0, <2>1, <2>2, <2>3 DEF BridgeInv, TypeOK
<1>2. QueueOK'
  BY <1>0 DEF BridgeInv, TypeOK, QueueOK, Accepting
<1>3. \A d \in Clients : ConnectionOK(d)'
  BY <1>0 DEF BridgeInv, TypeOK, QueueOK, ConnectionOK, Open
<1>4. \A d \in Relays : CallOK(d)'
  BY <1>0 DEF BridgeInv, TypeOK, QueueOK, ConnectionOK, CallOK, Open
<1>5. ValidIsRegistered'
  BY <1>0 DEF BridgeInv, TypeOK, QueueOK, ConnectionOK, CallOK, Open, ValidIsRegistered
<1>6. NullMeansTrouble'
  BY <1>0 DEF BridgeInv, TypeOK, CallOK, NullMeansTrouble
<1>7. (\A s \in Silent : ~line[s] /\ proxy[s] \notin {"connecting", "sending"})'
  BY SMTT(30), <1>0 DEF BridgeInv, TypeOK
<1> QED BY Zenon, <1>1, <1>2, <1>3, <1>4, <1>5, <1>6, <1>7 DEF BridgeInv

\* The reply goes to the connection it was decided for.
LEMMA ReplyInv ==
    ASSUME BridgeInv, NEW c \in Clients, Reply(c)
    PROVE  BridgeInv'
<1> USE ClientsAssumption, ClaimsAssumption, SocketsAssumption DEF Clients, Reply, Close, Accepting, torVars, mainVars
<1>1. TypeOK'
  BY Zenon DEF BridgeInv, TypeOK
<1>2. QueueOK'
  BY DEF BridgeInv, TypeOK, QueueOK, ConnectionOK, Open
<1>3. \A d \in Clients : ConnectionOK(d)'
  BY DEF BridgeInv, TypeOK, QueueOK, ConnectionOK, Open
<1>4. \A d \in Relays : CallOK(d)'
  BY Zenon DEF BridgeInv, TypeOK, QueueOK, ConnectionOK, CallOK, Open
<1>5. ValidIsRegistered'
  BY Zenon DEF BridgeInv, TypeOK, QueueOK, ConnectionOK, CallOK, Open, ValidIsRegistered
<1>6. NullMeansTrouble'
  BY Zenon DEF BridgeInv, TypeOK, CallOK, NullMeansTrouble
<1>7. (\A s \in Silent : ~line[s] /\ proxy[s] \notin {"connecting", "sending"})'
  BY Zenon DEF BridgeInv, TypeOK
<1> QED BY Zenon, <1>1, <1>2, <1>3, <1>4, <1>5, <1>6, <1>7 DEF BridgeInv

\* A user's registration forgets nobody.
LEMMA HandleRegisterRelayInv ==
    ASSUME BridgeInv, NEW x \in Claims, HandleRegisterRelay(x)
    PROVE  BridgeInv'
<1> USE ClientsAssumption, ClaimsAssumption, SocketsAssumption DEF Clients, HandleRegisterRelay, torVars, connVars
<1>9. /\ registrations' \in Registrations
      /\ \A key \in Pseudonyms, n \in Nodes : registrations[key][n] # None => registrations'[key][n] # None
  BY EnterFacts DEF BridgeInv, TypeOK
<1>10. \A d \in Relays : request[d] # None => request[d].key \in Pseudonyms /\ request[d].nodeId \in Nodes
  BY DEF BridgeInv, TypeOK, Claim
<1>1. TypeOK'
  BY SMTT(30), <1>9 DEF BridgeInv, TypeOK
<1>2. QueueOK'
  BY DEF BridgeInv, TypeOK, QueueOK, ConnectionOK, Open
<1>3. \A d \in Clients : ConnectionOK(d)'
  BY SMTT(30) DEF BridgeInv, TypeOK, QueueOK, ConnectionOK, Open
<1>4. \A d \in Relays : CallOK(d)'
  <2> SUFFICES ASSUME NEW d \in Relays PROVE CallOK(d)'
    BY Zenon
  <2>1. CallOK(d) /\ (Open(d)' <=> Open(d))
    BY Zenon DEF BridgeInv, Open
  <2>2. server.client = d /\ server.result = "VALID" =>
           registrations'[request[d].key][request[d].nodeId] # None
    BY Zenon, <1>9, <1>10, <2>1 DEF CallOK
  <2> QED BY Zenon, <2>1, <2>2 DEF CallOK
<1>5. ValidIsRegistered'
  <2> SUFFICES ASSUME NEW d \in Relays, proxy[d] = "reading", wire[d] = "VALID", calm[d]
               PROVE  registrations'[request[d].key][request[d].nodeId] # None
    BY Zenon DEF ValidIsRegistered
  <2>1. request[d] # None /\ registrations[request[d].key][request[d].nodeId] # None
    BY Zenon DEF BridgeInv, CallOK, ValidIsRegistered
  <2> QED BY Zenon, <1>9, <1>10, <2>1
<1>6. NullMeansTrouble'
  BY Zenon DEF BridgeInv, TypeOK, CallOK, NullMeansTrouble
<1>7. (\A s \in Silent : ~line[s] /\ proxy[s] \notin {"connecting", "sending"})'
  BY SMTT(30) DEF BridgeInv, TypeOK
<1> QED BY Zenon, <1>1, <1>2, <1>3, <1>4, <1>5, <1>6, <1>7 DEF BridgeInv

\* When Main stops, nobody is calm.
LEMMA StopMainInv ==
    ASSUME BridgeInv, StopMain
    PROVE  BridgeInv'
<1> USE ClientsAssumption, ClaimsAssumption, SocketsAssumption DEF Clients, StopMain, Accepting, torVars
<1>1. TypeOK'
  BY EmptyType DEF BridgeInv, TypeOK
<1>2. QueueOK'
  BY DEF BridgeInv, TypeOK, QueueOK, ConnectionOK, Open
<1>3. \A d \in Clients : ConnectionOK(d)'
  BY DEF BridgeInv, TypeOK, QueueOK, ConnectionOK, Open
<1>4. \A d \in Relays : CallOK(d)'
  BY SMTT(30) DEF BridgeInv, TypeOK, QueueOK, ConnectionOK, CallOK, Open
<1>5. ValidIsRegistered'
  BY SMTT(30) DEF BridgeInv, TypeOK, QueueOK, ConnectionOK, CallOK, Open, ValidIsRegistered
<1>6. NullMeansTrouble'
  BY Zenon DEF BridgeInv, TypeOK, CallOK, NullMeansTrouble
<1>7. (\A s \in Silent : ~line[s] /\ proxy[s] \notin {"connecting", "sending"})'
  BY SMTT(30) DEF BridgeInv, TypeOK
<1> QED BY Zenon, <1>1, <1>2, <1>3, <1>4, <1>5, <1>6, <1>7 DEF BridgeInv

\* Main starts with nothing left of its predecessor.
LEMMA StartMainInv ==
    ASSUME BridgeInv, StartMain
    PROVE  BridgeInv'
<1> USE ClientsAssumption, ClaimsAssumption, SocketsAssumption DEF Clients, StartMain, torVars, connVars
<1>1. TypeOK'
  BY DEF BridgeInv, TypeOK
<1>2. QueueOK'
  BY DEF BridgeInv, TypeOK, QueueOK, ConnectionOK, Open
<1>3. \A d \in Clients : ConnectionOK(d)'
  BY SMTT(30) DEF BridgeInv, TypeOK, QueueOK, ConnectionOK, Open
<1>4. \A d \in Relays : CallOK(d)'
  BY DEF BridgeInv, TypeOK, QueueOK, ConnectionOK, CallOK, Open
<1>5. ValidIsRegistered'
  BY Zenon DEF BridgeInv, TypeOK, QueueOK, ConnectionOK, CallOK, Open, ValidIsRegistered
<1>6. NullMeansTrouble'
  BY Zenon DEF BridgeInv, TypeOK, CallOK, NullMeansTrouble
<1>7. (\A s \in Silent : ~line[s] /\ proxy[s] \notin {"connecting", "sending"})'
  BY Zenon DEF BridgeInv, TypeOK
<1> QED BY Zenon, <1>1, <1>2, <1>3, <1>4, <1>5, <1>6, <1>7 DEF BridgeInv

-----------------------------------------------------------------------------
(* The invariant.                                                          *)

\* The initial state satisfies the invariant.
LEMMA InitInv == Init => BridgeInv
<1> SUFFICES ASSUME Init PROVE BridgeInv
  BY Zenon
<1> USE ClientsAssumption, ClaimsAssumption, SocketsAssumption, EmptyType DEF Init, Clients, Accepting
<1>1. TypeOK
  BY DEF TypeOK
<1>2. QueueOK
  BY DEF QueueOK
<1>3. \A c \in Clients : ConnectionOK(c)
  BY DEF ConnectionOK, Open
<1>4. \A c \in Relays : CallOK(c)
  BY DEF CallOK, Open
<1>5. ValidIsRegistered /\ NullMeansTrouble
  BY Zenon DEF ValidIsRegistered, NullMeansTrouble
<1> QED BY Zenon, <1>1, <1>2, <1>3, <1>4, <1>5 DEF BridgeInv

\* Every step keeps the invariant.
LEMMA NextInv == BridgeInv /\ [Next]_vars => BridgeInv'
<1> SUFFICES ASSUME BridgeInv, [Next]_vars PROVE BridgeInv'
  BY Zenon
<1>1. CASE UNCHANGED vars
  <2>0. TypeOK'
    BY SMTT(30), <1>1 DEF vars, BridgeInv, TypeOK
  <2>1. QueueOK'
    BY SMTT(30), <1>1 DEF vars, BridgeInv, QueueOK
  <2>2. \A c \in Clients : ConnectionOK(c)'
    BY Zenon, <1>1 DEF vars, BridgeInv, ConnectionOK, Open
  <2>3. \A c \in Relays : CallOK(c)'
    BY Zenon, <1>1 DEF vars, BridgeInv, CallOK, Open
  <2>4. (\A s \in Silent : ~line[s] /\ proxy[s] \notin {"connecting", "sending"})'
    BY Zenon, <1>1 DEF vars, BridgeInv
  <2>5. ValidIsRegistered' /\ NullMeansTrouble'
    BY Zenon, <1>1 DEF vars, BridgeInv, ValidIsRegistered, NullMeansTrouble
  <2> QED BY Zenon, <2>0, <2>1, <2>2, <2>3, <2>4, <2>5 DEF BridgeInv
<1>2. ASSUME NEW c \in Relays, Tor(c) PROVE BridgeInv'
  BY Zenon, <1>2, CallInv, NoSocketInv, RefusedInv, ConnectInv, SendInv, ReadInv, StopTorInv DEF Tor
<1>3. ASSUME NEW c \in Clients, Serve(c) PROVE BridgeInv'
  BY Zenon, <1>3, ReadLineInv, CloseInv, ReplyInv DEF Serve
<1>4. ASSUME NEW s \in Silent, Knock(s) \/ HangUp(s) PROVE BridgeInv'
  BY Zenon, <1>4, KnockInv, HangUpInv
<1>5. ASSUME NEW x \in Claims, HandleRegisterRelay(x) PROVE BridgeInv'
  BY Zenon, <1>5, HandleRegisterRelayInv
<1> QED BY Zenon, <1>1, <1>2, <1>3, <1>4, <1>5, AcceptInv, StopMainInv, StartMainInv DEF Next

-----------------------------------------------------------------------------
(* Theorems.                                                               *)

\* BridgeInv, which contains ValidIsRegistered and NullMeansTrouble, holds in
\* every reachable state: any Tor processes and silent clients, any requests,
\* any number of restarts of Main.
THEOREM BridgeInvariance == Spec => []BridgeInv
BY InitInv, NextInv, PTL DEF Spec

\* VALID from the running Main is never received for a node its registry does
\* not hold.
THEOREM ValidAnswers == Spec => []ValidIsRegistered
<1>1. BridgeInv => ValidIsRegistered
  BY Zenon DEF BridgeInv
<1> QED BY <1>1, BridgeInvariance, PTL

\* dittorProxy returns NULL only when Main was down, the caller was held up or
\* its file descriptors were used up.
THEOREM NullAnswers == Spec => []NullMeansTrouble
<1>1. BridgeInv => NullMeansTrouble
  BY Zenon DEF BridgeInv
<1> QED BY <1>1, BridgeInvariance, PTL

-----------------------------------------------------------------------------
(* The bridge implements Validator.                                        *)

Verdicts == [c \in Relays |-> verdictOf(c)]

\* The operators of Admission are the same in both specifications.
LEMMA SameDecision ==
    /\ V!Empty = Empty
    /\ \A reg, x : V!Accepts(reg, x) = Accepts(reg, x) /\ V!Enter(reg, x) = Enter(reg, x)
BY Zenon DEF V!Empty, V!Nobody, Empty, Nobody, V!Accepts, V!Enter, V!Members, V!SharesFamily,
       Accepts, Enter, Members, SharesFamily

\* Steps of dittorProxy call, return, or change nothing that Validator sees.
LEMMA TorRefines ==
    ASSUME BridgeInv, NEW c \in Relays, Tor(c)
    PROVE  V!Next \/ UNCHANGED V!vars
<1> USE ClientsAssumption, ClaimsAssumption DEF Clients
<1>1. ASSUME NEW x \in Claims, Call(c, x) PROVE V!Call(c, x)
  <2>1. request[c] = None /\ UNCHANGED <<wire, server, registrations, answer>>
    BY SMTT(30), <1>1 DEF BridgeInv, CallOK, Call, connVars, mainVars
  <2>2. Verdicts' = [Verdicts EXCEPT ![c] = "none"]
    BY SMTT(30), <1>1, <2>1 DEF BridgeInv, TypeOK, ConnectionOK, Open, Call, Verdicts, verdictOf
  <2> QED BY Zenon, <1>1, <2>1, <2>2 DEF Call, V!Call, Verdicts
<1>2. ASSUME NoSocket(c) \/ Refused(c) PROVE V!Return(c)
  <2>1. /\ request[c] # None /\ UNCHANGED <<wire, server, registrations>>
        /\ Return(c, "NULL")
    BY Zenon, <1>2 DEF BridgeInv, CallOK, NoSocket, Refused, connVars, mainVars
  <2>2. verdictOf(c) = "none"
    BY SMTT(30), <1>2 DEF BridgeInv, TypeOK, ConnectionOK, Open, NoSocket, Refused, verdictOf
  <2>3. Verdicts' = [Verdicts EXCEPT ![c] = "none"]
    BY Zenon, <2>1, <2>2 DEF Verdicts, verdictOf
  <2> QED BY Zenon, <2>1, <2>2, <2>3 DEF V!Return, Return, Verdicts
<1>3. ASSUME Connect(c) \/ Send(c) \/ StopTor(c) PROVE UNCHANGED V!vars
  BY Zenon, <1>3 DEF Connect, Queue, Send, StopTor, connVars, mainVars, V!vars, verdictOf
<1>4. ASSUME Read(c) PROVE V!Return(c)
  <2>1. /\ request[c] # None /\ UNCHANGED <<server, registrations>>
        /\ wire' = [wire EXCEPT ![c] = "none"] /\ wire[c] # "none" /\ ~Open(c)
        /\ Return(c, IF wire[c] = "closed" THEN "NULL" ELSE wire[c])
    BY SMTT(30), <1>4 DEF BridgeInv, ConnectionOK, CallOK, Read, mainVars
  <2>2. verdictOf(c) = IF wire[c] = "closed" THEN "lost" ELSE wire[c]
    BY Zenon, <2>1 DEF verdictOf
  <2>3. Verdicts' = [Verdicts EXCEPT ![c] = "none"]
    BY Zenon, <2>1 DEF Verdicts, verdictOf, Open, BridgeInv, TypeOK
  <2>4. wire[c] \in {"VALID", "INVALID", "closed"}
    BY Zenon, <2>1 DEF BridgeInv, TypeOK
  <2> QED BY Zenon, <2>1, <2>2, <2>3, <2>4 DEF V!Return, Return, Verdicts
<1> QED BY Zenon, <1>1, <1>2, <1>3, <1>4 DEF Tor, V!Next

\* The server decides once, loses a call, or changes nothing that Validator sees.
LEMMA ServerRefines ==
    ASSUME BridgeInv, NEW c \in Clients, Serve(c)
    PROVE  V!Next \/ UNCHANGED V!vars
<1> USE ClientsAssumption, ClaimsAssumption DEF Clients
<1>1. ASSUME ReadLine(c) PROVE c \in Relays /\ V!Decide(c)
  <2>1. /\ c \in Relays /\ request[c] # None /\ wire[c] = "none" /\ server.client = c /\ server.result = "none"
        /\ UNCHANGED <<request, wire, answer>>
        /\ server' = [server EXCEPT !.result = IF Accepts(registrations, request[c]) THEN "VALID" ELSE "INVALID"]
        /\ registrations' = Enter(registrations, request[c])
    BY Zenon, <1>1 DEF BridgeInv, TypeOK, ConnectionOK, CallOK, Open, ReadLine, Reading, torVars, connVars
  <2>2. Verdicts' = [Verdicts EXCEPT ![c] = IF Accepts(registrations, request[c]) THEN "VALID" ELSE "INVALID"]
    BY Zenon, <2>1 DEF Verdicts, verdictOf, BridgeInv, TypeOK
  <2>3. verdictOf(c) = "none"
    BY Zenon, <2>1 DEF verdictOf
  <2> QED BY Zenon, <2>1, <2>2, <2>3, SameDecision DEF V!Decide, Verdicts
<1>2. ASSUME EndOfFile(c) \/ TimeOut(c), c \in Relays PROVE V!Lose(c)
  <2>1. /\ request[c] # None /\ wire[c] = "none" /\ server.client = c /\ server.result = "none"
        /\ UNCHANGED <<request, answer, registrations>>
        /\ server' = Accepting /\ wire' = [wire EXCEPT ![c] = "closed"]
    BY Zenon, <1>2 DEF BridgeInv, ConnectionOK, CallOK, Open, EndOfFile, TimeOut, Reading, Close, torVars, mainVars
  <2>2. Verdicts' = [Verdicts EXCEPT ![c] = "lost"]
    BY Zenon, <2>1 DEF Verdicts, verdictOf, Accepting, BridgeInv, TypeOK
  <2>3. verdictOf(c) = "none"
    BY Zenon, <2>1 DEF verdictOf
  <2> QED BY SMTT(30), <1>2, <2>1, <2>2, <2>3 DEF V!Lose, Verdicts
<1>3. ASSUME EndOfFile(c) \/ TimeOut(c), c \in Silent PROVE UNCHANGED V!vars
  <2>1. /\ server.client = c /\ UNCHANGED <<request, answer, registrations>>
        /\ server' = Accepting /\ wire' = [wire EXCEPT ![c] = "closed"]
    BY Zenon, <1>3 DEF EndOfFile, TimeOut, Reading, Close, torVars, mainVars
  <2>2. \A d \in Relays : verdictOf(d)' = verdictOf(d)
    BY <1>3, <2>1 DEF verdictOf, Accepting, BridgeInv, TypeOK
  <2> QED BY SMTT(30), <2>1, <2>2 DEF V!vars
<1>4. ASSUME Reply(c) PROVE UNCHANGED V!vars
  <2>1. /\ server.client = c /\ server.result \in {"VALID", "INVALID"} /\ wire[c] = "none"
        /\ UNCHANGED <<request, answer, registrations>>
        /\ server' = Accepting /\ wire' = [wire EXCEPT ![c] = server.result]
    BY Zenon, <1>4 DEF BridgeInv, TypeOK, ConnectionOK, Open, Reply, Close, torVars, mainVars
  <2>2. \A d \in Relays : verdictOf(d)' = verdictOf(d)
    BY Zenon, <2>1 DEF verdictOf, Accepting, BridgeInv, TypeOK
  <2> QED BY SMTT(30), <2>1, <2>2 DEF V!vars
<1> QED BY Zenon, <1>1, <1>2, <1>3, <1>4 DEF Serve, V!Next

\* Main registers users, or stops and forgets.
LEMMA MainRefines ==
    ASSUME BridgeInv, StopMain \/ StartMain \/ Accept \/ (\E x \in Claims : HandleRegisterRelay(x))
                      \/ (\E s \in Silent : Knock(s) \/ HangUp(s))
    PROVE  V!Next \/ UNCHANGED V!vars
<1> USE ClientsAssumption, ClaimsAssumption DEF Clients
<1>1. ASSUME StopMain PROVE V!Forget({c \in Relays : Open(c)})
  <2> DEFINE some == {c \in Relays : Open(c)}
  <2>1. \A c \in some : request[c] # None
    BY Zenon DEF BridgeInv, CallOK
  <2>2. Verdicts' = [c \in Relays |-> IF c \in some THEN "lost" ELSE Verdicts[c]]
    BY ZenonT(60), <1>1 DEF StopMain, Verdicts, verdictOf, Open, Accepting, BridgeInv, TypeOK
  <2> QED BY Zenon, <1>1, <2>1, <2>2, SameDecision DEF V!Forget, StopMain, torVars, Verdicts
<1>2. ASSUME StartMain PROVE UNCHANGED V!vars
  BY Zenon, <1>2 DEF StartMain, torVars, connVars, V!vars, verdictOf
<1>3. ASSUME Accept PROVE UNCHANGED V!vars
  <2>1. /\ server.client = None /\ server'.result = "none"
        /\ UNCHANGED <<request, answer, registrations, wire>>
    BY Zenon, <1>3 DEF Accept, Accepting, torVars, mainVars
  <2>2. \A d \in Relays : verdictOf(d)' = verdictOf(d)
    BY Zenon, <2>1 DEF verdictOf
  <2> QED BY Zenon, <2>1, <2>2 DEF V!vars
<1>4. ASSUME NEW x \in Claims, HandleRegisterRelay(x) PROVE V!Register(x)
  <2>1. UNCHANGED <<request, answer, wire, server>> /\ registrations' = Enter(registrations, x)
    BY Zenon, <1>4 DEF HandleRegisterRelay, torVars, connVars
  <2>2. Verdicts' = Verdicts
    BY Zenon, <2>1 DEF Verdicts, verdictOf
  <2> QED BY Zenon, <2>1, <2>2, SameDecision DEF V!Register, Verdicts
<1>5. ASSUME NEW s \in Silent, Knock(s) \/ HangUp(s) PROVE UNCHANGED V!vars
  <2>1. /\ UNCHANGED <<request, answer, registrations, server>>
        /\ \A d \in Relays : wire'[d] = wire[d]
    BY SMTT(30), <1>5 DEF Knock, HangUp, Queue, mainVars, BridgeInv, TypeOK
  <2>2. \A d \in Relays : verdictOf(d)' = verdictOf(d)
    BY Zenon, <2>1 DEF verdictOf
  <2> QED BY Zenon, <2>1, <2>2 DEF V!vars
<1>6. \A x \in Claims : V!Register(x) => V!Next
  BY Zenon DEF V!Next
<1>7. V!Forget({c \in Relays : Open(c)}) => V!Next
  BY Zenon DEF V!Next
<1> QED BY SMTT(30), <1>1, <1>2, <1>3, <1>4, <1>5, <1>6, <1>7

\* With its queue, its timeout and its single thread the bridge decides each
\* call at most once and returns that verdict or NULL.
THEOREM BridgeRefinement == Spec => ImplementsValidator
<1>1. Init => V!Init
  BY SameDecision, ClientsAssumption DEF Init, V!Init, verdictOf, Clients, Accepting
<1>2. BridgeInv /\ [Next]_vars => [V!Next]_V!vars
  <2> SUFFICES ASSUME BridgeInv, [Next]_vars PROVE V!Next \/ UNCHANGED V!vars
    BY Zenon
  <2>1. CASE UNCHANGED vars
    BY Zenon, <2>1 DEF vars, V!vars, verdictOf
  <2> QED BY Zenon, <2>1, TorRefines, ServerRefines, MainRefines DEF Next
<1> QED BY <1>1, <1>2, BridgeInvariance, PTL DEF Spec, ImplementsValidator, V!Spec
=============================================================================
