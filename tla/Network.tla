------------------------------ MODULE Network ------------------------------
(***************************************************************************)
(* The WriteEngine connections of one ColumnStoreCommands object, and its  *)
(* event loop.  A connection is a ColumnStoreNetwork: its status is moved  *)
(* by libuv callbacks, which run only inside runLoop().  A command runs    *)
(* the loop three times: until the connections are there, until its        *)
(* request is written and until its reply has been read.                   *)
(*                                                                         *)
(* A request is its number; a reply is PacketLength pieces, each with the  *)
(* number of the request.  brmConnection is the case of one connection.    *)
(***************************************************************************)
EXTENDS Naturals, Sequences

CONSTANTS
    NumConns,     \* WriteEngine servers
    PacketLength, \* pieces a reply may be read in
    MaxCommands,  \* bound: commands that are answered
    MaxCloses,    \* bound: calls of weClose
    MaxFaults     \* bound: errors that libuv reports

ASSUME NetworkAssumption ==
    /\ NumConns \in Nat \ {0}
    /\ PacketLength \in Nat \ {0}
    /\ MaxCommands \in Nat
    /\ MaxCloses \in Nat
    /\ MaxFaults \in Nat

Conns == 1 .. NumConns
Commands == 1 .. MaxCommands

VARIABLES
    conStatus,  \* con_status, of the connections in weConnections
    op,         \* what the connection has asked of libuv
    toServer,   \* requests that are written
    toClient,   \* pieces of replies, not yet read; 0 is the greeting
    inBuffer,   \* messageOut, dataInBuffer of it
    stage,      \* where the client is in its command
    conn,       \* the connection of its command
    closing,    \* whether it is weClose, which has no number and no reply
    command,    \* the number of the last command with a reply
    closes,     \* calls of weClose so far
    outcome,    \* of each command: none, unsent, failed, or reply and to which request
    served,     \* how often the server executed a command
    faults      \* errors so far

netVars == <<conStatus, op, toServer, toClient, inBuffer>>
clientVars == <<stage, conn, closing, command, closes, outcome>>
vars == <<netVars, clientVars, served, faults>>

Statuses == {"none", "connecting", "connectError", "connected", "idle", "busy", "netError"}
Ops == {"none", "resolve", "connect", "greeting", "write", "read"}

(* libuv has been asked for just what the status says.                     *)
OpsDuring(status) ==
    IF status = "connecting" THEN {"resolve", "connect", "none"}
    ELSE IF status = "connected" THEN {"greeting"}
    ELSE IF status = "busy" THEN {"write", "read"}
    ELSE {"none"}

TypeOK ==
    /\ conStatus \in [Conns -> Statuses]
    /\ op \in [Conns -> Ops]
    /\ toServer \in [Conns -> Seq(0 .. MaxCommands)]
    /\ toClient \in [Conns -> Seq(0 .. MaxCommands)]
    /\ inBuffer \in [Conns -> Seq(0 .. MaxCommands)]
    /\ stage \in {"none", "connect", "write", "read"}
    /\ conn \in Conns
    /\ closing \in BOOLEAN
    /\ command \in 0 .. MaxCommands
    /\ closes \in 0 .. MaxCloses
    /\ outcome \in [Commands -> {"none", "unsent", "failed", "reply"} \X (0 .. MaxCommands)]
    /\ served \in [Commands -> Nat]
    /\ faults \in 0 .. MaxFaults
    /\ \A c \in Conns : op[c] \in OpsDuring(conStatus[c])

Init ==
    /\ conStatus = [c \in Conns |-> "none"]
    /\ op = [c \in Conns |-> "none"]
    /\ toServer = [c \in Conns |-> <<>>]
    /\ toClient = [c \in Conns |-> <<>>]
    /\ inBuffer = [c \in Conns |-> <<>>]
    /\ stage = "none" /\ conn = 1 /\ closing = FALSE
    /\ command = 0 /\ closes = 0
    /\ outcome = [k \in Commands |-> <<"none", 0>>]
    /\ served = [k \in Commands |-> 0]
    /\ faults = 0

-----------------------------------------------------------------------------
(* Beside a definition there may be a mistake that its code could have; it *)
(* breaks a property when it takes the place of the definition.            *)

Becomes(c, status, next) ==
    /\ conStatus' = [conStatus EXCEPT ![c] = status]
    /\ op' = [op EXCEPT ![c] = next]

Fault == faults < MaxFaults /\ faults' = faults + 1

(* The callbacks: what libuv was asked for is done, or has failed.         *)

(* What uv_tcp_connect returns is not looked at: where it refuses at once  *)
(* no callback is going to move the status.                                *)
OnResolved(c) ==
    /\ op[c] = "resolve"
    /\ \/ Becomes(c, "connecting", "connect") /\ UNCHANGED faults
       \/ Becomes(c, "connectError", "none") /\ Fault
       \/ Becomes(c, "connecting", "none") /\ Fault
    /\ UNCHANGED <<toServer, toClient, inBuffer, clientVars, served>>

OnConnect(c) ==
    /\ op[c] = "connect"
    /\ \/ Becomes(c, "connected", "greeting") /\ UNCHANGED faults
       \/ Becomes(c, "connectError", "none") /\ Fault
    /\ UNCHANGED <<toServer, toClient, inBuffer, clientVars, served>>

(* The handshake is one byte.                                              *)
OnConnectReadData(c) ==
    /\ op[c] = "greeting"
    /\ \/ /\ toClient[c] # <<>>
          /\ toClient' = [toClient EXCEPT ![c] = <<>>]
          /\ Becomes(c, IF toClient[c] = <<0>> THEN "idle" ELSE "connectError", "none")
          /\ UNCHANGED faults
       \/ Becomes(c, "connectError", "none") /\ Fault /\ UNCHANGED toClient
    /\ UNCHANGED <<toServer, inBuffer, clientVars, served>>

(* Mistake: a write that failed leaves its request to libuv.               *)
OnWriteDataPending(c) ==
    /\ op[c] = "write"
    /\ \/ Becomes(c, "idle", "none") /\ UNCHANGED faults
       \/ Becomes(c, "netError", "write") /\ Fault
    /\ UNCHANGED <<toServer, toClient, inBuffer, clientVars, served>>

OnWriteData(c) ==
    /\ op[c] = "write"
    /\ \/ Becomes(c, "idle", "none") /\ UNCHANGED faults
       \/ Becomes(c, "netError", "none") /\ Fault
    /\ UNCHANGED <<toServer, toClient, inBuffer, clientVars, served>>

(* Mistakes: whatever has arrived is a packet; the header is not counted.  *)
IsCompletePacketAny(buffer) == Len(buffer) > 0
IsCompletePacketPlus(buffer) == Len(buffer) > PacketLength

(* A packet is complete when the buffer has exactly its length.            *)
IsCompletePacket(buffer) == Len(buffer) = PacketLength

(* Some of what has arrived is read, or the read fails, or the packet that *)
(* is complete is not one.                                                 *)
OnReadData(c) ==
    /\ op[c] = "read"
    /\ \/ \E n \in 1 .. Len(toClient[c]) :
             LET buffer == inBuffer[c] \o SubSeq(toClient[c], 1, n) IN
             /\ inBuffer' = [inBuffer EXCEPT ![c] = buffer]
             /\ toClient' = [toClient EXCEPT ![c] = SubSeq(@, n + 1, Len(@))]
             /\ IF ~IsCompletePacket(buffer)
                THEN UNCHANGED <<conStatus, op, faults>>
                ELSE \/ Becomes(c, "idle", "none") /\ UNCHANGED faults
                     \/ Becomes(c, "netError", "none") /\ Fault
       \/ /\ Becomes(c, "netError", "none") /\ Fault
          /\ UNCHANGED <<toClient, inBuffer>>
    /\ UNCHANGED <<toServer, clientVars, served>>

Callback(c) == OnResolved(c) \/ OnConnect(c) \/ OnConnectReadData(c)
                 \/ OnWriteData(c) \/ OnReadData(c)

-----------------------------------------------------------------------------
(* runLoop(): the connections in order, up to the first that is not idle.  *)

Broken(c) == conStatus[c] \in {"connectError", "netError"}

(* The connections that getWeConnection has put in the map.                *)
Present == {c \in Conns : conStatus[c] # "none"}

IdleBefore(c) == \A d \in Present : d < c => conStatus[d] = "idle"

(* Mistake: a broken connection does not stop the commands of the others.  *)
LoopReturnsAnyway == \A c \in Present : conStatus[c] = "idle" \/ Broken(c)

LoopReturns == \A c \in Present : conStatus[c] = "idle"
LoopThrows == \E c \in Present : Broken(c) /\ IdleBefore(c)
LoopRuns == stage # "none" /\ ~LoopReturns /\ ~LoopThrows

-----------------------------------------------------------------------------
(* A command of ColumnStoreCommands, on the connection of one PM.          *)

(* Mistake: a broken connection is opened again.                           *)
GetConnectionAnew(c) ==
    IF conStatus[c] \in {"none", "connectError", "netError"} THEN Becomes(c, "connecting", "resolve")
                                                             ELSE UNCHANGED <<conStatus, op>>

(* getWeConnection(): a connection that is not there is opened.            *)
GetConnection(c) ==
    IF conStatus[c] = "none" THEN Becomes(c, "connecting", "resolve")
                             ELSE UNCHANGED <<conStatus, op>>

Begin(c) ==
    /\ stage = "none" /\ command < MaxCommands
    /\ command' = command + 1 /\ closing' = FALSE
    /\ conn' = c /\ stage' = "connect"
    /\ GetConnection(c)
    /\ UNCHANGED <<toServer, toClient, inBuffer, closes, outcome, served, faults>>

BeginClose(c) ==
    /\ stage = "none" /\ closes < MaxCloses
    /\ closes' = closes + 1 /\ closing' = TRUE
    /\ conn' = c /\ stage' = "connect"
    /\ GetConnection(c)
    /\ UNCHANGED <<toServer, toClient, inBuffer, command, outcome, served, faults>>

Unsent == <<"unsent", 0>>

(* Either of them when libuv refuses at once to look the server up: the    *)
(* constructor throws out of getWeConnection() before weConnections has an *)
(* entry.  No connection is broken, and the next command tries again.      *)
Unopened(c) ==
    /\ stage = "none" /\ conStatus[c] = "none" /\ Fault
    /\ \/ /\ command < MaxCommands /\ command' = command + 1
          /\ outcome' = [outcome EXCEPT ![command'] = Unsent]
          /\ UNCHANGED closes
       \/ /\ closes < MaxCloses /\ closes' = closes + 1
          /\ UNCHANGED <<command, outcome>>
    /\ UNCHANGED <<netVars, stage, conn, closing, served>>

Ends(result) ==
    /\ stage' = "none"
    /\ outcome' = IF closing THEN outcome ELSE [outcome EXCEPT ![command] = result]
    /\ UNCHANGED <<conn, closing, command, closes>>

Enters(s) == stage' = s /\ UNCHANGED <<conn, closing, command, closes, outcome>>

Failure == <<"failed", 0>>

Request == IF closing THEN 0 ELSE command

(* sendData(): libuv takes the request, or refuses it at once.             *)
SendData ==
    /\ stage = "connect" /\ LoopReturns
    /\ \/ /\ Becomes(conn, "busy", "write")
          /\ toServer' = [toServer EXCEPT ![conn] = Append(@, Request)]
          /\ Enters("write") /\ UNCHANGED faults
       \/ /\ Becomes(conn, "netError", "none") /\ Fault
          /\ Ends(Failure) /\ UNCHANGED toServer
    /\ UNCHANGED <<toClient, inBuffer, served>>

ReadDataStart ==
    /\ stage = "write" /\ ~closing /\ LoopReturns
    /\ inBuffer' = [inBuffer EXCEPT ![conn] = <<>>]
    /\ \/ /\ Becomes(conn, "busy", "read")
          /\ Enters("read") /\ UNCHANGED faults
       \/ /\ Becomes(conn, "netError", "none") /\ Fault
          /\ Ends(Failure)
    /\ UNCHANGED <<toServer, toClient, served>>

(* The reply is parsed: it is the reply to the request its pieces name.    *)
Reply(buffer) ==
    IF \A i \in DOMAIN buffer : buffer[i] = buffer[1] THEN <<"reply", buffer[1]>>
    ELSE <<"reply", 0>>

Finish ==
    /\ stage = "read" /\ LoopReturns
    /\ Ends(Reply(inBuffer[conn]))
    /\ UNCHANGED <<netVars, served, faults>>

Throw ==
    /\ stage # "none" /\ LoopThrows
    /\ Ends(Failure)
    /\ UNCHANGED <<netVars, served, faults>>

(* Mistake: the connection stays in the map.                               *)
CloseWeKeeps ==
    /\ stage = "write" /\ closing /\ LoopReturns
    /\ Ends(Failure)
    /\ UNCHANGED <<netVars, served, faults>>

(* weClose() reads no reply; the connection leaves the map, and the next   *)
(* command for this server opens another.                                  *)
CloseWe ==
    /\ stage = "write" /\ closing /\ LoopReturns
    /\ Ends(Failure)
    /\ Becomes(conn, "none", "none")
    /\ toServer' = [toServer EXCEPT ![conn] = <<>>]
    /\ toClient' = [toClient EXCEPT ![conn] = <<>>]
    /\ UNCHANGED <<inBuffer, served, faults>>

-----------------------------------------------------------------------------
(* The server of a connection.                                             *)

Greet(c) ==
    /\ conStatus[c] = "connected" /\ toClient[c] = <<>>
    /\ toClient' = [toClient EXCEPT ![c] = <<0>>]
    /\ UNCHANGED <<conStatus, op, toServer, inBuffer, clientVars, served, faults>>

(* It executes requests in their order, also those of a client that has    *)
(* given up; request 0 is the one to close.                                *)
Serve(c) ==
    /\ toServer[c] # <<>>
    /\ LET k == Head(toServer[c]) IN
         IF k = 0
         THEN UNCHANGED <<served, toClient>>
         ELSE /\ served' = [served EXCEPT ![k] = @ + 1]
              /\ toClient' = [toClient EXCEPT ![c] = @ \o [i \in 1 .. PacketLength |-> k]]
    /\ toServer' = [toServer EXCEPT ![c] = Tail(@)]
    /\ UNCHANGED <<conStatus, op, inBuffer, clientVars, faults>>

-----------------------------------------------------------------------------
Command == SendData \/ ReadDataStart \/ Finish \/ Throw \/ CloseWe

Next ==
    \/ Command
    \/ \E c \in Conns : Begin(c) \/ BeginClose(c) \/ Unopened(c) \/ Callback(c) \/ Greet(c) \/ Serve(c)

Spec == Init /\ [][Next]_vars

Healthy(action) == action /\ UNCHANGED faults

(* The loop runs until its callbacks have been called; a server answers.   *)
(* Neither is true of a server that hangs: there is no timeout.  That      *)
(* something fails is not taken for granted.                               *)
FairSpec ==
    /\ Spec
    /\ WF_vars(Healthy(Command))
    /\ \A c \in Conns :
          WF_vars(Healthy(Callback(c))) /\ WF_vars(Greet(c)) /\ WF_vars(Serve(c))

-----------------------------------------------------------------------------
(* Properties.                                                             *)

(* A command that returns has read the reply to its own request, however   *)
(* the commands before it ended and in whatever pieces replies arrive.     *)
OwnReply == \A k \in Commands : outcome[k][1] = "reply" => outcome[k][2] = k

(* Between two commands a connection that can still be used has nothing    *)
(* under way: no request, and no piece of a reply that the next command    *)
(* would take for its own.                                                 *)
IdleIsQuiet ==
    stage = "none" =>
        \A c \in Conns : conStatus[c] = "idle" => toServer[c] = <<>> /\ toClient[c] = <<>>

(* One broken connection is the end of all: nothing more is sent to any    *)
(* server of this object, in particular no rollback to the healthy ones.   *)
BrokenBlocksAll ==
    [][(\E c \in Conns : Broken(c)) => \A c \in Conns : Len(toServer'[c]) <= Len(toServer[c])]_vars

(* A connection that runLoop() waits for and that nothing will move: the   *)
(* loop has nothing to do, returns and is run again, for ever.             *)
Spinning(c) == conStatus[c] = "connecting" /\ op[c] = "none"

(* Every command returns or throws, unless a connect was refused at once.  *)
CommandsEnd == (stage # "none") ~> (stage = "none" \/ \E c \in Conns : Spinning(c))

=============================================================================
