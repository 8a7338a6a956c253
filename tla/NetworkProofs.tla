--------------------------- MODULE NetworkProofs ---------------------------
(***************************************************************************)
(* What TLAPS proves of Network, for every number of servers, commands and *)
(* faults, and every length of a reply: its safety properties, and that    *)
(* every step is a step of Exchange or none.                               *)
(***************************************************************************)
EXTENDS MCNetwork, SequenceTheorems, TLAPS

(* All pieces of s are of request k.                                       *)
All(s, k) == \A i \in 1 .. Len(s) : s[i] = k

(* The request of the command has been given to libuv.                     *)
UnderWay == stage \in {"write", "read"}

(* Only the connection of the command has anything under way.              *)
ConnectionOf(c) ==
    /\ Len(toServer[c]) <= 1
    /\ conStatus[c] \in {"none", "connecting", "connected"} => toServer[c] = <<>>
    /\ conStatus[c] \in {"none", "connecting"} => toClient[c] = <<>>
    /\ conStatus[c] = "connected" => toClient[c] \in {<<>>, <<0>>}
    /\ (conStatus[c] = "idle" /\ ~(UnderWay /\ c = conn)) =>
          toServer[c] = <<>> /\ toClient[c] = <<>>
    /\ conStatus[c] = "busy" => UnderWay /\ c = conn
    /\ (UnderWay /\ c # conn) => conStatus[c] \in {"none", "idle"}

Connections == \A c \in Conns : ConnectionOf(c)

(* How far the exchange is that is under way.                              *)
Exchanging ==
    /\ conStatus[conn] \in {"idle", "busy"}
    /\ op[conn] = "read" => stage = "read"
    /\ op[conn] = "write" => stage = "write"
    /\ toServer[conn] \in {<<>>, <<Request>>}
    /\ toServer[conn] # <<>> => toClient[conn] = <<>>
    /\ closing => stage = "write" /\ toClient[conn] = <<>>
    /\ All(toClient[conn], command)
    /\ (stage = "write" /\ ~closing /\ toServer[conn] = <<>>) =>
          Len(toClient[conn]) = PacketLength
    /\ stage = "read" =>
          /\ All(inBuffer[conn], command)
          /\ toServer[conn] # <<>> => inBuffer[conn] = <<>>
          /\ toServer[conn] = <<>> =>
                Len(inBuffer[conn]) + Len(toClient[conn]) = PacketLength
          /\ conStatus[conn] = "idle" =>
                toServer[conn] = <<>> /\ Len(inBuffer[conn]) = PacketLength

ExchangeOK == (UnderWay /\ ~Broken(conn)) => Exchanging

(* How the commands have ended, up to the one that is executed.            *)
OutcomeOf(k) ==
    /\ outcome[k] \in {<<"none", 0>>, Unsent, Failure, <<"reply", k>>}
    /\ outcome[k] = <<"none", 0>> <=> k > command \/ (k = command /\ stage # "none" /\ ~closing)
    /\ outcome[k] = Failure => \E c \in Conns : Broken(c)

Outcomes == \A k \in Commands : OutcomeOf(k)

(* A request is at one server, and once.                                   *)
ServedOf(k) ==
    /\ served[k] \in {0, 1}
    /\ served[k] = 1 => k <= command
    /\ \A c \in Conns : toServer[c] = <<k>> =>
          /\ served[k] = 0 /\ k <= command /\ outcome[k] \notin {Unsent, <<"reply", k>>}
          /\ \A d \in Conns : toServer[d] = <<k>> => c = d
    /\ (k = command /\ ~closing /\ stage = "connect") =>
          served[k] = 0 /\ \A c \in Conns : toServer[c] # <<k>>
    /\ (k = command /\ ~closing /\ UnderWay /\ ~Broken(conn) /\ toServer[conn] = <<>>) =>
          served[k] = 1

ServedOnce == \A k \in Commands : ServedOf(k)

CommandNumbered == (stage # "none" /\ ~closing) => command # 0

IInv == TypeOK /\ Connections /\ ExchangeOK /\ Outcomes /\ ServedOnce /\ CommandNumbered

-----------------------------------------------------------------------------
(* What one read takes from the socket and adds to the buffer.             *)
LEMMA Pieces ==
    ASSUME NEW S, NEW s \in Seq(S), NEW t \in Seq(S), NEW n \in 1 .. Len(t)
    PROVE  /\ s \o SubSeq(t, 1, n) \in Seq(S)
           /\ SubSeq(t, n + 1, Len(t)) \in Seq(S)
           /\ Len(s \o SubSeq(t, 1, n)) = Len(s) + n
           /\ Len(SubSeq(t, n + 1, Len(t))) = Len(t) - n
           /\ \A k : (All(s, k) /\ All(t, k)) =>
                 /\ All(s \o SubSeq(t, 1, n), k)
                 /\ All(SubSeq(t, n + 1, Len(t)), k)
<1> DEFINE a == SubSeq(t, 1, n)
           b == SubSeq(t, n + 1, Len(t))
<1>0. Len(t) \in Nat /\ Len(s) \in Nat /\ n \in Nat
  OBVIOUS
<1>1. /\ a \in Seq(S) /\ Len(a) = n
      /\ \A i \in 1 .. n : a[i] = t[i]
  <2>1. \A i \in 1 .. n : t[i] \in S
    BY <1>0
  <2>2. /\ SubSeq(t, 1, n) \in Seq(S)
        /\ Len(SubSeq(t, 1, n)) = IF 1 <= n THEN n - 1 + 1 ELSE 0
        /\ \A i \in 1 .. n - 1 + 1 : SubSeq(t, 1, n)[i] = t[1 + i - 1]
    BY <2>1, <1>0, SubSeqProperties
  <2> QED
    BY <2>2, <1>0
<1>2. /\ b \in Seq(S) /\ Len(b) = Len(t) - n
      /\ \A i \in 1 .. Len(t) - n : b[i] = t[n + i]
  <2>1. \A i \in n + 1 .. Len(t) : t[i] \in S
    BY <1>0
  <2>2. /\ SubSeq(t, n + 1, Len(t)) \in Seq(S)
        /\ Len(SubSeq(t, n + 1, Len(t))) = IF n + 1 <= Len(t) THEN Len(t) - (n + 1) + 1 ELSE 0
        /\ \A i \in 1 .. Len(t) - (n + 1) + 1 : SubSeq(t, n + 1, Len(t))[i] = t[(n + 1) + i - 1]
    <3>1. n + 1 \in Int /\ Len(t) \in Int
      BY <1>0
    <3> QED
      BY <2>1, <3>1, SubSeqProperties
  <2> QED
    BY <2>2, <1>0
<1>3. /\ s \o a \in Seq(S) /\ Len(s \o a) = Len(s) + Len(a)
      /\ \A i \in 1 .. Len(s) + Len(a) :
            (s \o a)[i] = IF i <= Len(s) THEN s[i] ELSE a[i - Len(s)]
  BY <1>1, ConcatProperties
<1>4. ASSUME NEW k, All(s, k), All(t, k)
      PROVE  All(s \o a, k) /\ All(b, k)
  <2>1. All(b, k)
    BY <1>0, <1>2, <1>4 DEF All
  <2>2. ASSUME NEW i \in 1 .. Len(s) + n
        PROVE  (s \o a)[i] = k
    <3>1. CASE i <= Len(s)
      BY <3>1, <1>0, <1>1, <1>3, <1>4 DEF All
    <3>2. CASE ~(i <= Len(s))
      <4>1. i - Len(s) \in 1 .. n
        BY <3>2, <1>0
      <4> QED
        BY <4>1, <3>2, <1>0, <1>1, <1>3, <1>4 DEF All
    <3> QED
      BY <3>1, <3>2
  <2> QED
    BY <2>1, <2>2, <1>1, <1>3 DEF All
<1> QED
  BY <1>1, <1>2, <1>3, <1>4

(* A connection that is broken stays broken, as all that would move it     *)
(* waits for all connections to be idle.                                   *)
LEMMA BrokenStays ==
    ASSUME TypeOK, Next, NEW c \in Conns, Broken(c)
    PROVE  Broken(c)'
<1>1. conStatus[c] # "none" /\ conStatus[c] # "idle" /\ op[c] = "none" /\ c \in Present
  BY DEF TypeOK, OpsDuring, Broken, Present
<1>2. ~LoopReturns
  BY <1>1 DEF LoopReturns
<1>3. conStatus \in [Conns -> Statuses] /\ conn \in Conns
  BY DEF TypeOK
<1>4. \A d \in Conns : \A status \in Statuses, next \in Ops :
        d # c /\ Becomes(d, status, next) => conStatus'[c] = conStatus[c]
  BY <1>3 DEF Becomes
<1>5. Command => conStatus' = conStatus
  BY <1>2 DEF Command, SendData, ReadDataStart, Finish, Throw, CloseWe, netVars
<1>6. ASSUME NEW d \in Conns, Callback(d)
      PROVE  conStatus'[c] = conStatus[c]
  <2>1. op[d] # "none"
    BY <1>6 DEF Callback, OnResolved, OnConnect, OnConnectReadData, OnWriteData, OnReadData
  <2> QED
    BY <1>1, <1>3, <1>6, <2>1 DEF Callback, OnResolved, OnConnect, OnConnectReadData,
       OnWriteData, OnReadData, Becomes
<1>7. ASSUME NEW d \in Conns, Begin(d) \/ BeginClose(d)
      PROVE  conStatus'[c] = conStatus[c]
  BY <1>1, <1>3, <1>7 DEF Begin, BeginClose, GetConnection, Becomes
<1>8. ASSUME NEW d \in Conns, Greet(d) \/ Serve(d)
      PROVE  conStatus'[c] = conStatus[c]
  BY <1>8 DEF Greet, Serve
<1>9. ASSUME NEW d \in Conns, Unopened(d)
      PROVE  conStatus'[c] = conStatus[c]
  BY <1>9 DEF Unopened, netVars
<1>10. conStatus'[c] = conStatus[c]
  BY <1>5, <1>6, <1>7, <1>8, <1>9 DEF Next
<1> QED
  BY <1>10 DEF Broken

LEMMA InitTypes == Init => TypeOK
<1> SUFFICES ASSUME Init PROVE TypeOK
  OBVIOUS
<1>1. <<>> \in Seq(0 .. MaxCommands)
  OBVIOUS
<1>2. /\ toServer \in [Conns -> Seq(0 .. MaxCommands)]
      /\ toClient \in [Conns -> Seq(0 .. MaxCommands)]
      /\ inBuffer \in [Conns -> Seq(0 .. MaxCommands)]
  BY <1>1 DEF Init
<1>3. /\ conStatus \in [Conns -> Statuses]
      /\ op \in [Conns -> Ops]
      /\ \A c \in Conns : op[c] \in OpsDuring(conStatus[c])
  BY DEF Init, Statuses, Ops, OpsDuring
<1>4. /\ stage \in {"none", "connect", "write", "read"}
      /\ conn \in Conns /\ closing \in BOOLEAN
      /\ command \in 0 .. MaxCommands
      /\ closes \in 0 .. MaxCloses
      /\ faults \in 0 .. MaxFaults
  <2>1. 1 \in Conns
    BY NetworkAssumption DEF Conns
  <2>2. 0 \in 0 .. MaxCommands /\ 0 \in 0 .. MaxCloses /\ 0 \in 0 .. MaxFaults
    BY NetworkAssumption
  <2> QED
    BY <2>1, <2>2 DEF Init
<1>5. outcome \in [Commands -> {"none", "unsent", "failed", "reply"} \X (0 .. MaxCommands)]
  <2>1. <<"none", 0>> \in {"none", "unsent", "failed", "reply"} \X (0 .. MaxCommands)
    BY NetworkAssumption
  <2> QED
    BY <2>1 DEF Init
<1>6. served \in [Commands -> Nat]
  BY DEF Init
<1> QED
  BY <1>2, <1>3, <1>4, <1>5, <1>6 DEF TypeOK

(* When the loop over the connections comes to its end there is a complete *)
(* reply to read.                                                          *)
LEMMA ReplyIsComplete ==
    ASSUME IInv, stage = "read", LoopReturns
    PROVE  /\ ~closing /\ command \in Commands
           /\ conStatus[conn] = "idle"
           /\ toServer[conn] = <<>> /\ toClient[conn] = <<>>
           /\ Len(inBuffer[conn]) = PacketLength
           /\ All(inBuffer[conn], command)
           /\ Reply(inBuffer[conn]) = <<"reply", command>>
           /\ \A c \in Conns : ~Broken(c)
<1> USE NetworkAssumption
<1>1. \A c \in Conns : conStatus[c] \in {"none", "idle"}
  BY DEF LoopReturns, Present
<1>2. \A c \in Conns : ~Broken(c)
  BY <1>1 DEF Broken
<1>3. conn \in Conns /\ command \in 0 .. MaxCommands /\ UnderWay
  BY DEF IInv, TypeOK, UnderWay
<1>4. /\ conStatus[conn] \in {"idle", "busy"}
      /\ ~closing
      /\ All(inBuffer[conn], command)
      /\ conStatus[conn] = "idle" => toServer[conn] = <<>> /\ Len(inBuffer[conn]) = PacketLength
      /\ toServer[conn] = <<>> => Len(inBuffer[conn]) + Len(toClient[conn]) = PacketLength
  BY <1>2, <1>3 DEF IInv, ExchangeOK, Exchanging
<1>5. conStatus[conn] = "idle"
  BY <1>1, <1>3, <1>4
<1>6. /\ inBuffer[conn] \in Seq(0 .. MaxCommands)
      /\ toClient[conn] \in Seq(0 .. MaxCommands)
  BY <1>3 DEF IInv, TypeOK
<1>7. Len(toClient[conn]) = 0
  <2>1. toServer[conn] = <<>> /\ Len(inBuffer[conn]) = PacketLength
    BY <1>4, <1>5
  <2>2. Len(inBuffer[conn]) + Len(toClient[conn]) = PacketLength
    BY <1>4, <2>1
  <2>3. Len(toClient[conn]) \in Nat
    BY <1>6, LenProperties
  <2> QED
    BY <2>1, <2>2, <2>3
<1>8. toClient[conn] = <<>>
  BY <1>6, <1>7
<1>9. command \in Commands
  BY <1>3, <1>4 DEF IInv, CommandNumbered, Commands
<1>10. Reply(inBuffer[conn]) = <<"reply", command>>
  <2>1. DOMAIN inBuffer[conn] = 1 .. PacketLength /\ 1 \in 1 .. PacketLength
    BY <1>4, <1>5, <1>6
  <2>2. \A i \in DOMAIN inBuffer[conn] : inBuffer[conn][i] = command
    BY <2>1, <1>4, <1>5 DEF All
  <2> QED
    BY <2>1, <2>2 DEF Reply
<1> QED
  BY <1>2, <1>4, <1>5, <1>8, <1>9, <1>10

(* An exchange that succeeds or fails, of a connection.                    *)
LEMMA BecomesTypes ==
    ASSUME TypeOK, NEW c \in Conns, NEW status \in Statuses, NEW next \in OpsDuring(status),
           next \in Ops, Becomes(c, status, next)
    PROVE  /\ conStatus' \in [Conns -> Statuses] /\ op' \in [Conns -> Ops]
           /\ \A d \in Conns : op'[d] \in OpsDuring(conStatus'[d])
           /\ conStatus'[c] = status /\ op'[c] = next
           /\ \A d \in Conns : d # c => conStatus'[d] = conStatus[d] /\ op'[d] = op[d]
BY DEF TypeOK, Becomes

LEMMA NextTypes == IInv /\ [Next]_vars => TypeOK'
<1> SUFFICES ASSUME IInv, [Next]_vars PROVE TypeOK'
  OBVIOUS
<1> USE NetworkAssumption
<1>0. TypeOK
  BY DEF IInv
<1> DEFINE NetTypes == /\ conStatus' \in [Conns -> Statuses] /\ op' \in [Conns -> Ops]
                       /\ \A d \in Conns : op'[d] \in OpsDuring(conStatus'[d])
<1>1. \A c \in Conns, status \in Statuses, next \in Ops :
          next \in OpsDuring(status) /\ Becomes(c, status, next) => NetTypes
  BY <1>0, BecomesTypes
<1>2. /\ UNCHANGED <<conStatus, op>> => NetTypes
      /\ Fault \/ UNCHANGED faults => faults' \in 0 .. MaxFaults
  BY <1>0 DEF TypeOK, Fault
<1>3. ASSUME NEW c \in Conns, Begin(c) \/ BeginClose(c)
      PROVE  TypeOK'
  <2>1. NetTypes
    BY <1>1, <1>2, <1>3 DEF Begin, BeginClose, GetConnection, Statuses, Ops, OpsDuring
  <2>2. /\ stage' = "connect" /\ conn' = c /\ closing' \in BOOLEAN
        /\ command' \in 0 .. MaxCommands /\ closes' \in 0 .. MaxCloses
    <3>1. command \in 0 .. MaxCommands /\ closes \in 0 .. MaxCloses
      BY <1>0 DEF TypeOK
    <3>2. CASE Begin(c)
      <4>1. command < MaxCommands /\ command' = command + 1 /\ closes' = closes
        BY <3>2 DEF Begin
      <4>2. stage' = "connect" /\ conn' = c /\ closing' = FALSE
        BY <3>2 DEF Begin
      <4>3. command' \in 0 .. MaxCommands /\ closes' \in 0 .. MaxCloses
        BY <3>1, <4>1
      <4> QED
        BY <4>2, <4>3
    <3>3. CASE BeginClose(c)
      BY <3>1, <3>3 DEF BeginClose
    <3> QED
      BY <3>2, <3>3, <1>3
  <2>3. UNCHANGED <<toServer, toClient, inBuffer, outcome, served, faults>>
    BY <1>3 DEF Begin, BeginClose
  <2> QED
    BY <2>1, <2>2, <2>3, <1>0 DEF TypeOK
<1>4. ASSUME NEW c \in Conns, Callback(c)
      PROVE  TypeOK'
  <2>1. NetTypes /\ faults' \in 0 .. MaxFaults
    BY <1>1, <1>2, <1>4 DEF Callback, OnResolved, OnConnect, OnConnectReadData, OnWriteData,
       OnReadData, Statuses, Ops, OpsDuring
  <2>2. /\ toClient' \in [Conns -> Seq(0 .. MaxCommands)]
        /\ inBuffer' \in [Conns -> Seq(0 .. MaxCommands)]
    <3>1. CASE OnReadData(c)
      <4>1. CASE UNCHANGED <<toClient, inBuffer>>
        BY <4>1, <1>0 DEF TypeOK
      <4>2. CASE \E n \in 1 .. Len(toClient[c]) :
                   /\ inBuffer' = [inBuffer EXCEPT ![c] = inBuffer[c] \o SubSeq(toClient[c], 1, n)]
                   /\ toClient' = [toClient EXCEPT ![c] = SubSeq(@, n + 1, Len(@))]
        <5>1. PICK n \in 1 .. Len(toClient[c]) :
                   /\ inBuffer' = [inBuffer EXCEPT ![c] = inBuffer[c] \o SubSeq(toClient[c], 1, n)]
                   /\ toClient' = [toClient EXCEPT ![c] =
                                      SubSeq(toClient[c], n + 1, Len(toClient[c]))]
          BY <4>2
        <5>2. inBuffer[c] \in Seq(0 .. MaxCommands) /\ toClient[c] \in Seq(0 .. MaxCommands)
          BY <1>0 DEF TypeOK
        <5>3. /\ inBuffer[c] \o SubSeq(toClient[c], 1, n) \in Seq(0 .. MaxCommands)
              /\ SubSeq(toClient[c], n + 1, Len(toClient[c])) \in Seq(0 .. MaxCommands)
          BY <5>2, Pieces
        <5> QED
          BY <5>1, <5>3, <1>0 DEF TypeOK
      <4> QED
        BY <3>1, <4>1, <4>2 DEF OnReadData
    <3>2. CASE ~OnReadData(c)
      <4>1. /\ UNCHANGED inBuffer
            /\ toClient' = toClient \/ toClient' = [toClient EXCEPT ![c] = <<>>]
        BY <3>2, <1>4 DEF Callback, OnResolved, OnConnect, OnConnectReadData, OnWriteData
      <4>2. <<>> \in Seq(0 .. MaxCommands)
        OBVIOUS
      <4> QED
        BY <4>1, <4>2, <1>0 DEF TypeOK
    <3> QED
      BY <3>1, <3>2
  <2>3. UNCHANGED <<toServer, clientVars, served>>
    BY <1>4 DEF Callback, OnResolved, OnConnect, OnConnectReadData, OnWriteData, OnReadData
  <2> QED
    BY <2>1, <2>2, <2>3, <1>0 DEF TypeOK, clientVars
<1>5. ASSUME NEW c \in Conns, Greet(c)
      PROVE  TypeOK'
  BY <1>0, <1>5 DEF TypeOK, Greet, clientVars
<1>6. ASSUME NEW c \in Conns, Serve(c)
      PROVE  TypeOK'
  <2>1. toServer[c] \in Seq(0 .. MaxCommands) /\ toServer[c] # <<>>
    BY <1>0, <1>6 DEF TypeOK, Serve
  <2>2. Head(toServer[c]) \in 0 .. MaxCommands /\ Tail(toServer[c]) \in Seq(0 .. MaxCommands)
    BY <2>1, HeadTailProperties
  <2>3. Head(toServer[c]) # 0 =>
            toClient[c] \o [i \in 1 .. PacketLength |-> Head(toServer[c])] \in Seq(0 .. MaxCommands)
    <3>1. [i \in 1 .. PacketLength |-> Head(toServer[c])] \in Seq(0 .. MaxCommands)
      BY <2>2
    <3>2. toClient[c] \in Seq(0 .. MaxCommands)
      BY <1>0 DEF TypeOK
    <3> QED
      BY <3>1, <3>2, ConcatProperties
  <2>4. served' \in [Commands -> Nat] /\ toClient' \in [Conns -> Seq(0 .. MaxCommands)]
    <3>1. served \in [Commands -> Nat] /\ toClient \in [Conns -> Seq(0 .. MaxCommands)]
      BY <1>0 DEF TypeOK
    <3>2. CASE Head(toServer[c]) = 0
      BY <3>1, <3>2, <1>6 DEF Serve
    <3>3. CASE Head(toServer[c]) # 0
      <4> DEFINE k == Head(toServer[c])
      <4>1. /\ served' = [served EXCEPT ![k] = served[k] + 1]
            /\ toClient' = [toClient EXCEPT ![c] = toClient[c] \o [i \in 1 .. PacketLength |-> k]]
        BY <3>3, <1>6 DEF Serve
      <4>2. k \in Commands
        BY <3>3, <2>2 DEF Commands
      <4>3. served' \in [Commands -> Nat]
        BY <3>1, <4>1, <4>2
      <4>4. toClient' \in [Conns -> Seq(0 .. MaxCommands)]
        BY <3>1, <4>1, <2>3, <3>3
      <4> QED
        BY <4>3, <4>4
    <3> QED
      BY <3>2, <3>3
  <2>5. toServer' \in [Conns -> Seq(0 .. MaxCommands)]
    BY <2>2, <1>0, <1>6 DEF TypeOK, Serve
  <2>6. UNCHANGED <<conStatus, op, inBuffer, clientVars, faults>>
    BY <1>6 DEF Serve
  <2> QED
    BY <2>4, <2>5, <2>6, <1>0 DEF TypeOK, clientVars
<1>7. ASSUME Command
      PROVE  TypeOK'
  <2>0. conn \in Conns
    BY <1>0 DEF TypeOK
  <2>1. NetTypes /\ faults' \in 0 .. MaxFaults
    BY <2>0, <1>0, <1>1, <1>2, <1>7 DEF Command, SendData, ReadDataStart, Finish, Throw, CloseWe,
       Statuses, Ops, OpsDuring, netVars
  <2>2. /\ toServer' \in [Conns -> Seq(0 .. MaxCommands)]
        /\ toClient' \in [Conns -> Seq(0 .. MaxCommands)]
        /\ inBuffer' \in [Conns -> Seq(0 .. MaxCommands)]
        /\ served' \in [Commands -> Nat]
    <3>1. Request \in 0 .. MaxCommands /\ <<>> \in Seq(0 .. MaxCommands)
      BY <1>0 DEF TypeOK, Request
    <3>2. /\ toServer \in [Conns -> Seq(0 .. MaxCommands)]
          /\ toClient \in [Conns -> Seq(0 .. MaxCommands)]
          /\ inBuffer \in [Conns -> Seq(0 .. MaxCommands)]
          /\ served \in [Commands -> Nat]
      BY <1>0 DEF TypeOK
    <3>3. CASE SendData
      <4>1. Append(toServer[conn], Request) \in Seq(0 .. MaxCommands)
        BY <3>1, <3>2, <2>0
      <4>2. \/ toServer' = [toServer EXCEPT ![conn] = Append(toServer[conn], Request)]
            \/ toServer' = toServer
        BY <3>3 DEF SendData
      <4>3. UNCHANGED <<toClient, inBuffer, served>>
        BY <3>3 DEF SendData
      <4> QED
        BY <3>2, <4>1, <4>2, <4>3
    <3>4. CASE ReadDataStart
      BY <3>1, <3>2, <3>4 DEF ReadDataStart
    <3>5. CASE Finish \/ Throw
      BY <3>2, <3>5 DEF Finish, Throw, netVars
    <3>6. CASE CloseWe
      BY <3>1, <3>2, <3>6 DEF CloseWe
    <3> QED
      BY <3>3, <3>4, <3>5, <3>6, <1>7 DEF Command
  <2>3. \/ \E s \in {"write", "read"} : Enters(s)
        \/ Ends(Failure)
        \/ Ends(Reply(inBuffer[conn])) /\ stage = "read" /\ LoopReturns
    BY <1>7 DEF Command, SendData, ReadDataStart, Finish, Throw, CloseWe
  <2>4. (Ends(Reply(inBuffer[conn])) /\ stage = "read" /\ LoopReturns)
           => Ends(<<"reply", command>>)
    BY ReplyIsComplete
  <2>5. /\ stage' \in {"none", "connect", "write", "read"}
        /\ UNCHANGED <<conn, closing, command, closes>>
        /\ outcome' \in [Commands -> {"none", "unsent", "failed", "reply"} \X (0 .. MaxCommands)]
    <3>1. /\ command \in 0 .. MaxCommands
          /\ Failure \in {"none", "unsent", "failed", "reply"} \X (0 .. MaxCommands)
      BY <1>0 DEF TypeOK, Failure
    <3>2. \A x \in {"none", "unsent", "failed", "reply"} \X (0 .. MaxCommands) :
             Ends(x) => outcome' \in [Commands -> {"none", "unsent", "failed", "reply"} \X (0 .. MaxCommands)]
      BY <1>0 DEF TypeOK, Ends
    <3>3. <<"reply", command>> \in {"none", "unsent", "failed", "reply"} \X (0 .. MaxCommands)
      BY <3>1
    <3> QED
      BY <1>0, <2>3, <2>4, <3>1, <3>2, <3>3 DEF TypeOK, Ends, Enters
  <2> QED
    BY <2>1, <2>2, <2>5, <1>0 DEF TypeOK
<1>8. ASSUME NEW c \in Conns, Unopened(c)
      PROVE  TypeOK'
  <2>1. NetTypes /\ faults' \in 0 .. MaxFaults
    BY <1>2, <1>8 DEF Unopened, netVars
  <2>2. command' \in 0 .. MaxCommands /\ closes' \in 0 .. MaxCloses
    <3>1. /\ command \in 0 .. MaxCommands /\ closes \in 0 .. MaxCloses
          /\ command < MaxCommands => command + 1 \in 0 .. MaxCommands
          /\ closes < MaxCloses => closes + 1 \in 0 .. MaxCloses
      BY <1>0 DEF TypeOK
    <3> QED
      BY <3>1, <1>8 DEF Unopened
  <2>3. outcome' \in [Commands -> {"none", "unsent", "failed", "reply"} \X (0 .. MaxCommands)]
    <3>1. Unsent \in {"none", "unsent", "failed", "reply"} \X (0 .. MaxCommands)
      BY DEF Unsent
    <3> QED
      BY <3>1, <1>0, <1>8 DEF TypeOK, Unopened
  <2>4. UNCHANGED <<toServer, toClient, inBuffer, stage, conn, closing, served>>
    BY <1>8 DEF Unopened, netVars
  <2> QED
    BY <2>1, <2>2, <2>3, <2>4, <1>0 DEF TypeOK
<1>9. CASE UNCHANGED vars
  BY <1>0, <1>9 DEF TypeOK, vars, netVars, clientVars
<1> QED
  BY <1>3, <1>4, <1>5, <1>6, <1>7, <1>8, <1>9 DEF Next

-----------------------------------------------------------------------------
(* What libuv is asked for tells the status.                               *)
LEMMA OpsAndStatus ==
    ASSUME TypeOK, NEW c \in Conns
    PROVE  /\ op[c] \in {"resolve", "connect"} => conStatus[c] = "connecting"
           /\ op[c] = "greeting" => conStatus[c] = "connected"
           /\ op[c] \in {"write", "read"} => conStatus[c] = "busy"
BY DEF TypeOK, OpsDuring

LEMMA LoopReturned ==
    ASSUME TypeOK, LoopReturns
    PROVE  /\ \A c \in Conns : conStatus[c] \in {"none", "idle"} /\ ~Broken(c)
           /\ conn \in Conns
BY DEF TypeOK, LoopReturns, Present, Broken

(* The connection that a command throws for is its own, if its request is  *)
(* under way.                                                              *)
LEMMA ThrownForOwn ==
    ASSUME IInv, UnderWay, LoopThrows
    PROVE  Broken(conn)
<1>1. PICK c \in Conns : Broken(c)
  BY DEF LoopThrows, Present
<1>2. c # conn => conStatus[c] \in {"none", "idle"}
  BY DEF IInv, Connections, ConnectionOf
<1> QED
  BY <1>1, <1>2 DEF Broken

LEMMA SameConnection ==
    ASSUME NEW d \in Conns, ConnectionOf(d), UNCHANGED <<stage, conn>>,
           conStatus'[d] = conStatus[d], toServer'[d] = toServer[d], toClient'[d] = toClient[d]
    PROVE  ConnectionOf(d)'
BY DEF ConnectionOf, UnderWay

(* What a callback changes.                                                *)
LEMMA CallbackChanges ==
    ASSUME TypeOK, NEW c \in Conns, Callback(c)
    PROVE  /\ UNCHANGED <<toServer, clientVars, served>>
           /\ conStatus[c] \in {"connecting", "connected", "busy"} /\ op[c] # "none"
           /\ \A d \in Conns : d # c =>
                 /\ conStatus'[d] = conStatus[d] /\ op'[d] = op[d]
                 /\ toClient'[d] = toClient[d] /\ inBuffer'[d] = inBuffer[d]
<1>1. /\ conStatus \in [Conns -> Statuses] /\ op \in [Conns -> Ops]
      /\ toClient \in [Conns -> Seq(0 .. MaxCommands)]
      /\ inBuffer \in [Conns -> Seq(0 .. MaxCommands)]
  BY DEF TypeOK
<1>2. CASE OnResolved(c)
  BY <1>1, <1>2, OpsAndStatus DEF OnResolved, Becomes
<1>3. CASE OnConnect(c)
  BY <1>1, <1>3, OpsAndStatus DEF OnConnect, Becomes
<1>4. CASE OnConnectReadData(c)
  BY <1>1, <1>4, OpsAndStatus DEF OnConnectReadData, Becomes
<1>5. CASE OnWriteData(c)
  BY <1>1, <1>5, OpsAndStatus DEF OnWriteData, Becomes
<1>6. CASE OnReadData(c)
  BY <1>1, <1>6, OpsAndStatus DEF OnReadData, Becomes
<1> QED
  BY <1>2, <1>3, <1>4, <1>5, <1>6 DEF Callback

LEMMA NextConnections == IInv /\ [Next]_vars => Connections'
<1> SUFFICES ASSUME IInv, [Next]_vars, NEW d \in Conns PROVE ConnectionOf(d)'
  BY DEF Connections
<1> USE NetworkAssumption
<1>0. /\ TypeOK /\ ConnectionOf(d)
      /\ conStatus \in [Conns -> Statuses] /\ toServer \in [Conns -> Seq(0 .. MaxCommands)]
      /\ toClient \in [Conns -> Seq(0 .. MaxCommands)] /\ conn \in Conns
  BY DEF IInv, TypeOK, Connections
<1>1. ASSUME NEW c \in Conns, Begin(c) \/ BeginClose(c)
      PROVE  ConnectionOf(d)'
  <2>1. ~UnderWay /\ ~UnderWay' /\ UNCHANGED <<toServer, toClient>>
    BY <1>1 DEF Begin, BeginClose, UnderWay
  <2>2. conStatus'[d] = conStatus[d] \/ (conStatus[d] = "none" /\ conStatus'[d] = "connecting")
    BY <1>0, <1>1 DEF Begin, BeginClose, GetConnection, Becomes
  <2> QED
    BY <2>1, <2>2, <1>0 DEF ConnectionOf
<1>2. ASSUME NEW c \in Conns, Callback(c)
      PROVE  ConnectionOf(d)'
  <2>1. UNCHANGED <<toServer, stage, conn>>
    BY <1>0, <1>2, CallbackChanges DEF clientVars
  <2>2. CASE d # c
    BY <2>1, <2>2, <1>0, <1>2, CallbackChanges, SameConnection
  <2>3. CASE d = c
    <3>1. CASE OnResolved(c)
      BY <3>1, <2>1, <2>3, <1>0, OpsAndStatus DEF OnResolved, Becomes, ConnectionOf, UnderWay
    <3>2. CASE OnConnect(c)
      BY <3>2, <2>1, <2>3, <1>0, OpsAndStatus DEF OnConnect, Becomes, ConnectionOf, UnderWay
    <3>3. CASE OnConnectReadData(c)
      <4>1. /\ conStatus[d] = "connected" /\ toServer'[d] = <<>>
            /\ conStatus'[d] = "connectError" \/ (conStatus'[d] = "idle" /\ toClient'[d] = <<>>)
        BY <3>3, <2>1, <2>3, <1>0, OpsAndStatus DEF OnConnectReadData, Becomes, ConnectionOf
      <4> QED
        BY <4>1, <2>1, <1>0 DEF ConnectionOf, UnderWay
    <3>4. CASE OnWriteData(c) \/ OnReadData(c)
      <4>1. conStatus[d] = "busy" /\ conStatus'[d] \in {"idle", "busy", "netError"}
        BY <3>4, <2>3, <1>0, OpsAndStatus DEF OnWriteData, OnReadData, Becomes
      <4>2. UnderWay /\ d = conn /\ UnderWay' /\ d = conn'
        BY <4>1, <2>1, <1>0 DEF ConnectionOf, UnderWay
      <4> QED
        BY <4>1, <4>2, <2>1, <1>0 DEF ConnectionOf
    <3> QED
      BY <3>1, <3>2, <3>3, <3>4, <1>2 DEF Callback
  <2> QED
    BY <2>2, <2>3
<1>3. ASSUME NEW c \in Conns, Greet(c)
      PROVE  ConnectionOf(d)'
  BY <1>0, <1>3 DEF Greet, ConnectionOf, UnderWay, clientVars
<1>4. ASSUME NEW c \in Conns, Serve(c)
      PROVE  ConnectionOf(d)'
  <2>1. /\ UNCHANGED <<conStatus, stage, conn>>
        /\ d # c => toServer'[d] = toServer[d] /\ toClient'[d] = toClient[d]
        /\ d = c => toServer[d] # <<>> /\ toServer'[d] = Tail(toServer[d])
    BY <1>0, <1>4 DEF Serve, clientVars
  <2>2. CASE d # c
    BY <2>1, <2>2, <1>0, SameConnection
  <2>3. CASE d = c
    <3>1. Len(toServer'[d]) <= 1
      <4>1. toServer[d] \in Seq(0 .. MaxCommands) /\ Len(toServer[d]) <= 1
        BY <1>0 DEF ConnectionOf
      <4>2. toServer[d] # <<>> /\ toServer'[d] = Tail(toServer[d])
        BY <2>1, <2>3
      <4>3. Len(Tail(toServer[d])) = Len(toServer[d]) - 1
        BY <4>1, <4>2, HeadTailProperties
      <4>4. Len(toServer[d]) \in Nat
        BY <4>1, LenProperties
      <4> QED
        BY <4>1, <4>2, <4>3, <4>4
    <3>2. /\ conStatus[d] \notin {"none", "connecting", "connected"}
          /\ conStatus[d] = "idle" => UnderWay /\ d = conn
      BY <2>1, <2>3, <1>0 DEF ConnectionOf
    <3> QED
      BY <3>1, <3>2, <2>1, <1>0 DEF ConnectionOf, UnderWay
  <2> QED
    BY <2>2, <2>3
<1>5. CASE SendData
  <2>1. /\ conStatus[d] \in {"none", "idle"} /\ ~UnderWay /\ UNCHANGED <<toClient, conn>>
        /\ toServer[d] = <<>> /\ toClient[d] = <<>>
    BY <1>0, <1>5, LoopReturned DEF SendData, Ends, Enters, UnderWay, ConnectionOf
  <2>2. CASE d = conn
    <3>1. \/ conStatus'[d] = "busy" /\ UnderWay' /\ toServer'[d] = Append(<<>>, Request)
          \/ conStatus'[d] = "netError" /\ ~UnderWay' /\ toServer'[d] = <<>>
      BY <1>0, <1>5, <2>1, <2>2 DEF SendData, Becomes, Ends, Enters, UnderWay
    <3>2. Len(<<>>) = 0 /\ Len(Append(<<>>, Request)) = 1
      OBVIOUS
    <3>3. Len(toServer'[d]) <= 1
      <4>1. Len(toServer'[d]) = 0 \/ Len(toServer'[d]) = 1
        BY <3>1, <3>2, Zenon
      <4>2. \A n : (n = 0 \/ n = 1) => n <= 1
        OBVIOUS
      <4> QED
        BY <4>1, <4>2, Zenon
    <3> QED
      BY <3>1, <3>3, <2>1, <2>2 DEF ConnectionOf
  <2>3. CASE d # conn
    <3>1. conStatus'[d] = conStatus[d] /\ toServer'[d] = toServer[d]
      BY <1>0, <1>5, <2>3 DEF SendData, Becomes
    <3> QED
      BY <3>1, <2>1, <1>0 DEF ConnectionOf
  <2> QED
    BY <2>2, <2>3
<1>6. CASE ReadDataStart
  <2>1. /\ conStatus[d] \in {"none", "idle"} /\ UnderWay /\ UNCHANGED <<toServer, toClient, conn>>
        /\ d # conn => toServer[d] = <<>> /\ toClient[d] = <<>>
    BY <1>0, <1>6, LoopReturned DEF ReadDataStart, Ends, Enters, UnderWay, ConnectionOf
  <2>2. CASE d = conn
    <3>1. \/ conStatus'[d] = "busy" /\ UnderWay'
          \/ conStatus'[d] = "netError" /\ ~UnderWay'
      BY <1>0, <1>6, <2>2 DEF ReadDataStart, Becomes, Ends, Enters, UnderWay
    <3> QED
      BY <3>1, <2>1, <2>2, <1>0 DEF ConnectionOf
  <2>3. CASE d # conn
    <3>1. conStatus'[d] = conStatus[d]
      BY <1>0, <1>6, <2>3 DEF ReadDataStart, Becomes
    <3> QED
      BY <3>1, <2>1, <2>3, <1>0 DEF ConnectionOf
  <2> QED
    BY <2>2, <2>3
<1>7. CASE Finish
  <2>1. /\ conStatus[d] \in {"none", "idle"} /\ ~UnderWay'
        /\ UNCHANGED <<conStatus, toServer, toClient>>
    BY <1>0, <1>7, LoopReturned DEF Finish, Ends, UnderWay, netVars
  <2>2. toServer[conn] = <<>> /\ toClient[conn] = <<>>
    BY <1>7, ReplyIsComplete DEF Finish
  <2> QED
    BY <2>1, <2>2, <1>0 DEF ConnectionOf
<1>8. CASE Throw
  <2>1. ~UnderWay' /\ UNCHANGED <<conStatus, toServer, toClient>>
    BY <1>8 DEF Throw, Ends, UnderWay, netVars
  <2>2. UnderWay /\ d = conn => conStatus[d] \notin {"idle", "busy"}
    BY <1>8, ThrownForOwn DEF Throw, Broken
  <2> QED
    BY <2>1, <2>2, <1>0 DEF ConnectionOf
<1>9. CASE CloseWe
  <2>1. conStatus[d] \in {"none", "idle"} /\ ~UnderWay'
    BY <1>0, <1>9, LoopReturned DEF CloseWe, Ends, UnderWay
  <2>2. CASE d = conn
    <3>1. conStatus'[d] = "none" /\ toServer'[d] = <<>> /\ toClient'[d] = <<>>
      BY <1>0, <1>9, <2>2 DEF CloseWe, Becomes
    <3>2. Len(toServer'[d]) <= 1
      BY <3>1
    <3> QED
      BY <3>1, <3>2, <2>1 DEF ConnectionOf
  <2>3. CASE d # conn
    <3>1. /\ conStatus'[d] = conStatus[d] /\ toServer'[d] = toServer[d]
          /\ toClient'[d] = toClient[d]
      BY <1>0, <1>9, <2>3 DEF CloseWe, Becomes
    <3> QED
      BY <3>1, <2>1, <2>3, <1>0 DEF ConnectionOf
  <2> QED
    BY <2>2, <2>3
<1>10. CASE UNCHANGED vars
  BY <1>0, <1>10, SameConnection DEF vars, netVars, clientVars
<1>11. ASSUME NEW c \in Conns, Unopened(c)
       PROVE  ConnectionOf(d)'
  BY <1>0, <1>11, SameConnection DEF Unopened, netVars
<1> QED
  BY <1>1, <1>2, <1>3, <1>4, <1>5, <1>6, <1>7, <1>8, <1>9, <1>10, <1>11 DEF Next, Command

LEMMA NextExchange == IInv /\ [Next]_vars => ExchangeOK'
<1> SUFFICES ASSUME IInv, [Next]_vars, UnderWay', ~Broken(conn)' PROVE Exchanging'
  BY DEF ExchangeOK
<1> USE NetworkAssumption
<1>0. /\ TypeOK /\ conn \in Conns /\ ConnectionOf(conn)
      /\ conStatus \in [Conns -> Statuses] /\ op \in [Conns -> Ops]
      /\ toServer \in [Conns -> Seq(0 .. MaxCommands)]
      /\ toClient \in [Conns -> Seq(0 .. MaxCommands)]
      /\ inBuffer \in [Conns -> Seq(0 .. MaxCommands)]
      /\ (UnderWay /\ ~Broken(conn)) => Exchanging
  BY DEF IInv, TypeOK, Connections, ExchangeOK
<1>1. ASSUME NEW c \in Conns, Begin(c) \/ BeginClose(c)
      PROVE  Exchanging'
  BY <1>1 DEF Begin, BeginClose, UnderWay
<1>2. ASSUME NEW c \in Conns, Callback(c)
      PROVE  Exchanging'
  <2>1. /\ UNCHANGED <<toServer, stage, conn, closing, command>> /\ UnderWay
        /\ conStatus[c] \in {"connecting", "connected", "busy"} /\ op[c] # "none"
    BY <1>0, <1>2, CallbackChanges DEF clientVars, UnderWay
  <2>2. c = conn
    BY <2>1 DEF IInv, Connections, ConnectionOf
  <2>3. ~Broken(conn) /\ Exchanging
    BY <2>1, <2>2, <1>0 DEF Broken
  <2>4. conStatus[conn] = "busy" /\ op[conn] \in {"write", "read"}
    BY <2>1, <2>2, <2>3, <1>0, OpsAndStatus DEF Exchanging, Ops
  <2>5. OnWriteData(conn) \/ OnReadData(conn)
    BY <2>2, <2>4, <1>2 DEF Callback, OnResolved, OnConnect, OnConnectReadData
  <2>6. CASE OnWriteData(conn)
    <3>1. /\ UNCHANGED <<toClient, inBuffer>> /\ stage = "write"
          /\ conStatus'[conn] = "idle" /\ op'[conn] = "none"
      BY <2>1, <2>3, <2>6, <1>0 DEF OnWriteData, Becomes, Exchanging, Broken
    <3> QED
      BY <3>1, <2>1, <2>3 DEF Exchanging, Request
  <2>7. CASE OnReadData(conn)
    <3>0. /\ stage = "read" /\ All(inBuffer[conn], command) /\ All(toClient[conn], command)
          /\ ~closing
      BY <2>3, <2>7 DEF OnReadData, Exchanging
    <3>1. conStatus'[conn] # "netError"
      BY <2>1 DEF Broken
    <3>2. PICK n \in 1 .. Len(toClient[conn]) :
             /\ inBuffer' = [inBuffer EXCEPT ![conn] = inBuffer[conn] \o SubSeq(toClient[conn], 1, n)]
             /\ toClient' = [toClient EXCEPT ![conn] =
                                SubSeq(toClient[conn], n + 1, Len(toClient[conn]))]
             /\ \/ /\ ~IsCompletePacket(inBuffer[conn] \o SubSeq(toClient[conn], 1, n))
                   /\ UNCHANGED <<conStatus, op>>
                \/ /\ IsCompletePacket(inBuffer[conn] \o SubSeq(toClient[conn], 1, n))
                   /\ Becomes(conn, "idle", "none")
      <4>1. ~Becomes(conn, "netError", "none")
        BY <3>1, <1>0 DEF Becomes
      <4> QED
        BY <4>1, <2>7 DEF OnReadData
    <3>3. /\ inBuffer[conn] \in Seq(0 .. MaxCommands) /\ toClient[conn] \in Seq(0 .. MaxCommands)
          /\ inBuffer'[conn] = inBuffer[conn] \o SubSeq(toClient[conn], 1, n)
          /\ toClient'[conn] = SubSeq(toClient[conn], n + 1, Len(toClient[conn]))
      BY <3>2, <1>0
    <3>4. /\ Len(inBuffer'[conn]) = Len(inBuffer[conn]) + n
          /\ Len(toClient'[conn]) = Len(toClient[conn]) - n
          /\ All(inBuffer'[conn], command) /\ All(toClient'[conn], command)
      BY <3>0, <3>3, Pieces
    <3>5. Len(inBuffer[conn]) \in Nat /\ Len(toClient[conn]) \in Nat /\ n >= 1
      BY <3>3, LenProperties
    <3>6. toServer[conn] = <<>>
      <4>1. toClient[conn] # <<>>
        BY <3>3, <3>5
      <4> QED
        BY <4>1, <2>3 DEF Exchanging
    <3>7. Len(inBuffer[conn]) + Len(toClient[conn]) = PacketLength
      BY <3>0, <3>6, <2>3 DEF Exchanging
    <3>8. Len(inBuffer'[conn]) + Len(toClient'[conn]) = PacketLength
      <4> DEFINE x == Len(inBuffer[conn])
                 y == Len(toClient[conn])
      <4>0. n \in Nat
        BY <3>5
      <4>1. x \in Nat /\ y \in Nat /\ x + y = PacketLength
        BY <3>5, <3>7, Zenon
      <4>2. Len(inBuffer'[conn]) = x + n /\ Len(toClient'[conn]) = y - n
        BY <3>4
      <4> HIDE DEF x, y
      <4>3. (x + n) + (y - n) = PacketLength
        BY <4>0, <4>1
      <4> QED
        BY <4>2, <4>3, Zenon
    <3>9. \/ conStatus'[conn] = "busy" /\ op'[conn] = "read"
          \/ /\ conStatus'[conn] = "idle" /\ op'[conn] = "none"
             /\ Len(inBuffer'[conn]) = PacketLength
      <4>1. op[conn] = "read"
        BY <2>7 DEF OnReadData
      <4> QED
        BY <4>1, <3>2, <3>3, <2>4, <1>0 DEF Becomes, IsCompletePacket
    <3> QED
      BY <3>0, <3>4, <3>6, <3>8, <3>9, <2>1 DEF Exchanging
  <2> QED
    BY <2>5, <2>6, <2>7
<1>3. ASSUME NEW c \in Conns, Greet(c)
      PROVE  Exchanging'
  <2>1. /\ conStatus[c] = "connected" /\ UnderWay
        /\ UNCHANGED <<conStatus, stage, conn>>
    BY <1>3 DEF Greet, clientVars, UnderWay
  <2>2. c = conn /\ ~Broken(conn)
    BY <2>1 DEF IInv, Connections, ConnectionOf, Broken
  <2> QED
    BY <2>1, <2>2, <1>0 DEF Exchanging
<1>4. ASSUME NEW c \in Conns, Serve(c)
      PROVE  Exchanging'
  <2>1. /\ toServer[c] # <<>>
        /\ UNCHANGED <<conStatus, op, inBuffer, stage, conn, closing, command>>
    BY <1>4 DEF Serve, clientVars
  <2>2. UnderWay /\ ~Broken(conn)
    BY <2>1 DEF UnderWay, Broken
  <2>3. c = conn
    BY <2>1, <2>2 DEF IInv, Connections, ConnectionOf
  <2>4. /\ Exchanging /\ toServer[conn] = <<Request>> /\ toClient[conn] = <<>>
        /\ conStatus[conn] = "idle" => stage = "write"
        /\ stage = "read" => inBuffer[conn] = <<>>
    BY <2>1, <2>2, <2>3, <1>0 DEF Exchanging, UnderWay
  <2>5. Head(toServer[conn]) = Request /\ Tail(toServer[conn]) = <<>>
    BY <2>4
  <2>6. toServer'[conn] = <<>>
    BY <2>3, <2>5, <1>0, <1>4 DEF Serve
  <2>7. CASE closing
    <3>1. UNCHANGED toClient
      BY <2>3, <2>5, <2>7, <1>4 DEF Serve, Request
    <3> QED
      BY <3>1, <2>1, <2>4, <2>6, <2>7 DEF Exchanging
  <2>8. CASE ~closing
    <3>1. command # 0 /\ Request = command /\ command \in 0 .. MaxCommands
      BY <2>2, <2>8 DEF IInv, TypeOK, CommandNumbered, UnderWay, Request
    <3>2. toClient'[conn] = <<>> \o [i \in 1 .. PacketLength |-> command]
      BY <2>3, <2>4, <2>5, <3>1, <1>0, <1>4 DEF Serve
    <3>3. [i \in 1 .. PacketLength |-> command] \in Seq(0 .. MaxCommands)
      BY <3>1
    <3>4. toClient'[conn] = [i \in 1 .. PacketLength |-> command]
      BY <3>2, <3>3, ConcatEmptySeq
    <3>5. Len(toClient'[conn]) = PacketLength /\ All(toClient'[conn], command)
      BY <3>4 DEF All
    <3>6. stage = "read" => Len(inBuffer'[conn]) + Len(toClient'[conn]) = PacketLength
      <4>1. stage = "read" => Len(inBuffer'[conn]) = 0
        BY <2>1, <2>4
      <4> QED
        BY <4>1, <3>5
    <3> QED
      BY <3>5, <3>6, <2>1, <2>4, <2>6, <2>8 DEF Exchanging
  <2> QED
    BY <2>7, <2>8
<1>5. CASE SendData
  <2>1. /\ UNCHANGED <<toClient, inBuffer, conn, closing, command>>
        /\ conStatus[conn] = "idle" \/ conStatus[conn] = "none"
        /\ ~UnderWay /\ Becomes(conn, "busy", "write") /\ stage' = "write"
        /\ toServer' = [toServer EXCEPT ![conn] = Append(toServer[conn], Request)]
    BY <1>0, <1>5, LoopReturned DEF SendData, Ends, Enters, UnderWay
  <2>2. toServer[conn] = <<>> /\ toClient[conn] = <<>>
    BY <2>1, <1>0 DEF ConnectionOf
  <2>3. /\ conStatus'[conn] = "busy" /\ op'[conn] = "write"
        /\ toServer'[conn] = <<Request>>
    BY <2>1, <2>2, <1>0 DEF Becomes
  <2>4. All(toClient'[conn], command)
    BY <2>1, <2>2 DEF All
  <2>5. <<Request>> # <<>>
    OBVIOUS
  <2> QED
    BY <2>1, <2>2, <2>3, <2>4, <2>5 DEF Exchanging, Request
<1>6. CASE ReadDataStart
  <2>1. /\ UNCHANGED <<toServer, toClient, conn, closing, command>>
        /\ inBuffer' = [inBuffer EXCEPT ![conn] = <<>>]
        /\ stage = "write" /\ ~closing
        /\ Becomes(conn, "busy", "read") /\ stage' = "read" /\ ~Broken(conn)
    BY <1>0, <1>6, LoopReturned DEF ReadDataStart, Ends, Enters, UnderWay
  <2>2. Exchanging
    BY <2>1, <1>0 DEF UnderWay
  <2>3. conStatus'[conn] = "busy" /\ op'[conn] = "read" /\ inBuffer'[conn] = <<>>
    BY <2>1, <1>0 DEF Becomes
  <2>4. All(inBuffer'[conn], command) /\ Len(inBuffer'[conn]) = 0
    BY <2>3 DEF All
  <2>5. toServer[conn] = <<>> => Len(inBuffer'[conn]) + Len(toClient'[conn]) = PacketLength
    <3>1. toServer[conn] = <<>> => Len(toClient'[conn]) = PacketLength
      BY <2>1, <2>2, Zenon DEF Exchanging
    <3>2. 0 + PacketLength = PacketLength
      OBVIOUS
    <3> QED
      BY <3>1, <3>2, <2>4, Zenon
  <2> QED
    BY <2>1, <2>2, <2>3, <2>4, <2>5 DEF Exchanging, Request
<1>7. CASE Finish \/ Throw \/ CloseWe
  BY <1>7 DEF Finish, Throw, CloseWe, Ends, UnderWay
<1>8. CASE UNCHANGED vars
  BY <1>0, <1>8 DEF vars, netVars, clientVars, UnderWay, Broken, Exchanging, Request
<1>9. ASSUME NEW c \in Conns, Unopened(c)
      PROVE  Exchanging'
  BY <1>9 DEF Unopened, UnderWay
<1> QED
  BY <1>1, <1>2, <1>3, <1>4, <1>5, <1>6, <1>7, <1>8, <1>9 DEF Next, Command

LEMMA NextOutcomes == IInv /\ [Next]_vars => Outcomes'
<1> SUFFICES ASSUME IInv, [Next]_vars, NEW k \in Commands PROVE OutcomeOf(k)'
  BY DEF Outcomes
<1> USE NetworkAssumption
<1> DEFINE SomeBroken == \E c \in Conns : Broken(c)
<1>0. /\ TypeOK /\ OutcomeOf(k) /\ conn \in Conns /\ conStatus \in [Conns -> Statuses]
      /\ outcome \in [Commands -> {"none", "unsent", "failed", "reply"} \X (0 .. MaxCommands)]
      /\ command \in 0 .. MaxCommands /\ k \in Nat
  <2>1. TypeOK /\ Outcomes
    BY DEF IInv
  <2>2. OutcomeOf(k) /\ k \in Nat
    BY <2>1 DEF Outcomes, Commands
  <2> QED
    BY <2>1, <2>2 DEF TypeOK
<1>1. SomeBroken => SomeBroken'
  <2>1. CASE UNCHANGED vars
    BY <2>1 DEF vars, netVars, Broken
  <2>2. CASE Next
    BY <2>2, <1>0, BrokenStays
  <2> QED
    BY <2>1, <2>2
<1>2. ASSUME UNCHANGED <<outcome, command, closing>>, (stage = "none") <=> (stage' = "none")
      PROVE  OutcomeOf(k)'
  BY <1>0, <1>1, <1>2 DEF OutcomeOf, Failure, Unsent
<1>3. ASSUME NEW result, Ends(result), stage # "none",
             ~closing => (result = <<"reply", command>> \/ (result = Failure /\ SomeBroken'))
      PROVE  OutcomeOf(k)'
  <2>1. stage' = "none" /\ UNCHANGED <<command, closing>>
    BY <1>3 DEF Ends
  <2>2. CASE closing \/ k # command
    <3>1. outcome'[k] = outcome[k]
      BY <2>2, <1>0, <1>3 DEF Ends
    <3> QED
      BY <3>1, <2>1, <2>2, <1>0, <1>1 DEF OutcomeOf, Failure, Unsent
  <2>3. CASE ~closing /\ k = command
    <3>1. outcome'[k] = result
      BY <2>3, <1>0, <1>3 DEF Ends
    <3>2. result = <<"reply", k>> \/ (result = Failure /\ SomeBroken')
      BY <2>3, <1>3
    <3> QED
      BY <3>1, <3>2, <2>1, <2>3, <1>0 DEF OutcomeOf, Failure, Unsent
  <2> QED
    BY <2>2, <2>3
<1>4. ASSUME NEW c \in Conns, Begin(c)
      PROVE  OutcomeOf(k)'
  <2>1. /\ stage = "none" /\ stage' = "connect" /\ closing' = FALSE
        /\ command' = command + 1 /\ UNCHANGED outcome
    BY <1>4 DEF Begin
  <2>2. outcome[k] = <<"none", 0>> <=> k > command
    BY <2>1, <1>0 DEF OutcomeOf
  <2>3. k > command <=> (k > command + 1 \/ k = command + 1)
    BY <1>0
  <2> QED
    BY <2>1, <2>2, <2>3, <1>0, <1>1 DEF OutcomeOf, Failure, Unsent
<1>5. ASSUME NEW c \in Conns, BeginClose(c)
      PROVE  OutcomeOf(k)'
  <2>1. stage = "none" /\ closing' = TRUE /\ UNCHANGED <<command, outcome>>
    BY <1>5 DEF BeginClose
  <2> QED
    BY <2>1, <1>0, <1>1 DEF OutcomeOf, Failure, Unsent
<1>6. ASSUME NEW c \in Conns, Callback(c) \/ Greet(c) \/ Serve(c)
      PROVE  OutcomeOf(k)'
  <2>1. UNCHANGED clientVars
    BY <1>0, <1>6, CallbackChanges DEF Greet, Serve
  <2> QED
    BY <2>1, <1>2 DEF clientVars
<1>7. ASSUME \E s \in {"write", "read"} : Enters(s), stage # "none"
      PROVE  OutcomeOf(k)'
  BY <1>2, <1>7 DEF Enters
<1>8. ASSUME Becomes(conn, "netError", "none"), Ends(Failure), stage # "none"
      PROVE  OutcomeOf(k)'
  <2>1. SomeBroken'
    BY <1>0, <1>8 DEF Becomes, Broken
  <2> QED
    BY <2>1, <1>3, <1>8
<1>9. CASE SendData \/ ReadDataStart
  BY <1>7, <1>8, <1>9 DEF SendData, ReadDataStart
<1>10. CASE Finish
  BY <1>3, <1>10, ReplyIsComplete DEF Finish
<1>11. CASE Throw
  <2>1. SomeBroken'
    BY <1>1, <1>11 DEF Throw, LoopThrows, Present
  <2> QED
    BY <2>1, <1>3, <1>11 DEF Throw
<1>12. CASE CloseWe
  BY <1>3, <1>12 DEF CloseWe
<1>13. CASE UNCHANGED vars
  BY <1>2, <1>13 DEF vars, clientVars
<1>14. ASSUME NEW c \in Conns, Unopened(c)
       PROVE  OutcomeOf(k)'
  <2>1. /\ stage = "none" /\ stage' = "none"
        /\ \/ UNCHANGED <<command, outcome>>
           \/ /\ command < MaxCommands /\ command' = command + 1
              /\ outcome' = [outcome EXCEPT ![command + 1] = Unsent]
    BY <1>14 DEF Unopened
  <2>2. CASE UNCHANGED <<command, outcome>>
    BY <2>1, <2>2, <1>0, <1>1 DEF OutcomeOf, Failure, Unsent
  <2>3. CASE /\ command' = command + 1
             /\ outcome' = [outcome EXCEPT ![command + 1] = Unsent]
    <3>1. outcome'[k] = IF k = command + 1 THEN Unsent ELSE outcome[k]
      BY <2>3, <1>0
    <3>2. (k > command + 1) <=> (k > command /\ k # command + 1)
      BY <1>0
    <3>3. (k = command + 1) => ~(k > command + 1)
      BY <1>0
    <3>4. outcome[k] = <<"none", 0>> <=> k > command
      BY <2>1, <1>0 DEF OutcomeOf
    <3>5. CASE k = command + 1
      BY <3>1, <3>3, <3>5, <2>1, <2>3 DEF OutcomeOf, Failure, Unsent
    <3>6. CASE k # command + 1
      BY <3>1, <3>2, <3>4, <3>6, <2>1, <2>3, <1>0, <1>1 DEF OutcomeOf, Failure, Unsent
    <3> QED
      BY <3>5, <3>6
  <2> QED
    BY <2>1, <2>2, <2>3
<1> QED
  BY <1>4, <1>5, <1>6, <1>9, <1>10, <1>11, <1>12, <1>13, <1>14 DEF Next, Command

LEMMA OneElement ==
    ASSUME NEW S, NEW s \in Seq(S), Len(s) <= 1, s # <<>>
    PROVE  s = <<Head(s)>> /\ Tail(s) = <<>> /\ Head(s) \in S
<1>1. Len(s) = 1
  <2>1. Len(s) \in Nat /\ Len(s) # 0
    OBVIOUS
  <2>2. \A n \in Nat : (n <= 1 /\ n # 0) => n = 1
    OBVIOUS
  <2> QED
    BY <2>1, <2>2, Zenon
<1>2. Head(s) = s[1] /\ s[1] \in S
  BY <1>1
<1>3. s = <<s[1]>>
  BY <1>1
<1>4. Tail(s) = <<>>
  <2>1. Tail(s) \in Seq(S) /\ Len(Tail(s)) = 0
    BY <1>1, HeadTailProperties
  <2> QED
    BY <2>1
<1> QED
  BY <1>2, <1>3, <1>4

(* Where the loop lets a command go on, no server has a request.           *)
LEMMA QuietBeforeSend ==
    ASSUME IInv, LoopReturns, ~UnderWay \/ stage = "read"
    PROVE  \A c \in Conns : toServer[c] = <<>>
<1> SUFFICES ASSUME NEW c \in Conns PROVE toServer[c] = <<>>
  OBVIOUS
<1>1. TypeOK /\ ConnectionOf(c)
  BY DEF IInv, Connections
<1>2. conStatus[c] \in {"none", "idle"}
  BY <1>1, LoopReturned
<1>3. CASE UnderWay /\ c = conn
  BY <1>3, ReplyIsComplete
<1>4. CASE ~(UnderWay /\ c = conn)
  BY <1>1, <1>2, <1>4 DEF ConnectionOf
<1> QED
  BY <1>3, <1>4

LEMMA NextServed == IInv /\ [Next]_vars => ServedOnce'
<1> SUFFICES ASSUME IInv, [Next]_vars, NEW k \in Commands PROVE ServedOf(k)'
  BY DEF ServedOnce
<1> USE NetworkAssumption
<1>0. /\ TypeOK /\ Connections /\ ServedOf(k) /\ OutcomeOf(k) /\ k \in Nat /\ k # 0
      /\ (UnderWay /\ ~Broken(conn)) => Exchanging
  <2>1. TypeOK /\ Connections /\ Outcomes /\ ServedOnce /\ ExchangeOK
    BY DEF IInv
  <2>2. ServedOf(k) /\ OutcomeOf(k) /\ k \in Nat /\ k # 0
    BY <2>1 DEF Outcomes, ServedOnce, Commands
  <2> QED
    BY <2>1, <2>2 DEF ExchangeOK
<1>1. /\ toServer \in [Conns -> Seq(0 .. MaxCommands)] /\ served \in [Commands -> Nat]
      /\ conn \in Conns /\ command \in 0 .. MaxCommands /\ conStatus \in [Conns -> Statuses]
      /\ outcome \in [Commands -> {"none", "unsent", "failed", "reply"} \X (0 .. MaxCommands)]
  BY <1>0 DEF TypeOK
\* Nothing moves that a request or its execution would depend on.
<1>2. ASSUME UNCHANGED <<toServer, clientVars, served>>, Next
      PROVE  ServedOf(k)'
  <2>1. Broken(conn) => Broken(conn)'
    <3>1. UNCHANGED conn
      BY <1>2 DEF clientVars
    <3>2. Broken(conn) => (conStatus'[conn] \in {"connectError", "netError"})
      BY <1>0, <1>1, <1>2, <3>1, BrokenStays DEF Broken
    <3> QED
      BY <3>1, <3>2 DEF Broken
  <2> QED
    BY <2>1, <1>0, <1>2 DEF ServedOf, clientVars, UnderWay
\* The command ends, and no request is added.
<1>3. ASSUME stage' = "none", UNCHANGED <<served, command>>,
             \A c \in Conns : toServer'[c] = toServer[c] \/ toServer'[c] = <<>>,
             outcome'[k] = outcome[k] \/ outcome'[k] = Failure
      PROVE  ServedOf(k)'
  <2>1. <<k>> # <<>> /\ Failure # <<"reply", k>> /\ Failure # Unsent
    BY DEF Failure, Unsent
  <2>2. \A c \in Conns : toServer'[c] = <<k>> => toServer[c] = <<k>>
    BY <1>3, <2>1
  <2> QED
    BY <2>1, <2>2, <1>0, <1>3 DEF ServedOf, UnderWay
<1>4. Ends(Failure) => /\ stage' = "none" /\ UNCHANGED command
                       /\ outcome'[k] = outcome[k] \/ outcome'[k] = Failure
  BY <1>1 DEF Ends
<1>5. ASSUME NEW c \in Conns, Begin(c)
      PROVE  ServedOf(k)'
  <2>1. /\ stage' = "connect" /\ closing' = FALSE /\ command' = command + 1
        /\ UNCHANGED <<toServer, outcome, served>>
    BY <1>5 DEF Begin
  <2>2. k <= command => k <= command + 1
    BY <1>0, <1>1
  <2>3. k = command + 1 => ~(k <= command)
    BY <1>0, <1>1
  <2> QED
    BY <2>1, <2>2, <2>3, <1>0 DEF ServedOf, UnderWay
<1>6. ASSUME NEW c \in Conns, BeginClose(c)
      PROVE  ServedOf(k)'
  BY <1>0, <1>6 DEF BeginClose, ServedOf, UnderWay
<1>7. ASSUME NEW c \in Conns, Callback(c)
      PROVE  ServedOf(k)'
  BY <1>0, <1>2, <1>7, CallbackChanges DEF Next
<1>8. ASSUME NEW c \in Conns, Greet(c)
      PROVE  ServedOf(k)'
  BY <1>2, <1>8 DEF Next, Greet
<1>9. ASSUME NEW c \in Conns, Serve(c)
      PROVE  ServedOf(k)'
  <2> DEFINE h == Head(toServer[c])
  <2>1. /\ toServer[c] = <<h>> /\ Tail(toServer[c]) = <<>> /\ h \in 0 .. MaxCommands
    <3>1. toServer[c] \in Seq(0 .. MaxCommands) /\ toServer[c] # <<>> /\ Len(toServer[c]) <= 1
      BY <1>0, <1>1, <1>9 DEF Serve, Connections, ConnectionOf
    <3> QED
      BY <3>1, OneElement
  <2>2. /\ toServer'[c] = <<>>
        /\ \A d \in Conns : d # c => toServer'[d] = toServer[d]
        /\ UNCHANGED <<conStatus, outcome, stage, conn, closing, command>>
    BY <2>1, <1>1, <1>9 DEF Serve, clientVars
  <2>3. served'[k] = IF h = k THEN served[k] + 1 ELSE served[k]
    BY <1>0, <1>1, <1>9 DEF Serve
  <2> HIDE DEF h
  <2>4. h = k <=> toServer[c] = <<k>>
    BY <2>1
  <2>5. <<k>> # <<>>
    OBVIOUS
  <2>6. CASE h = k
    <3>1. toServer[c] = <<k>> /\ served[k] = 0 /\ served'[k] = 1 /\ k <= command
      BY <2>3, <2>4, <2>6, <1>0, <1>9 DEF ServedOf
    <3>2. \A d \in Conns : toServer'[d] # <<k>>
      BY <2>2, <2>5, <3>1, <1>0 DEF ServedOf
    <3>3. ~(k = command /\ ~closing /\ stage = "connect")
      BY <3>1, <1>0 DEF ServedOf
    <3> QED
      BY <3>1, <3>2, <3>3, <2>2 DEF ServedOf, UnderWay
  <2>7. CASE h # k
    <3>1. served'[k] = served[k] /\ toServer[c] # <<k>>
      BY <2>3, <2>4, <2>7
    <3>2. \A d \in Conns : toServer'[d] = <<k>> <=> toServer[d] = <<k>>
      BY <2>2, <2>5, <3>1
    <3>3. ASSUME k = command, ~closing, UnderWay, ~Broken(conn), toServer'[conn] = <<>>
          PROVE  served[k] = 1
      <4>1. CASE c = conn
        <5>1. toServer[conn] = <<>> \/ toServer[conn] = <<k>>
          BY <3>3, <1>0 DEF Exchanging, Request
        <5> QED
          BY <5>1, <4>1, <3>1, <3>3, <1>0 DEF ServedOf
      <4>2. CASE c # conn
        BY <4>2, <3>3, <2>2, <1>0, <1>1 DEF ServedOf
      <4> QED
        BY <4>1, <4>2
    <3> QED
      BY <3>1, <3>2, <3>3, <2>2, <1>0 DEF ServedOf, UnderWay, Broken
  <2> QED
    BY <2>6, <2>7
<1>10. CASE SendData
  <2>1. \A c \in Conns : toServer[c] = <<>>
    BY <1>10, QuietBeforeSend DEF SendData, UnderWay
  <2>2. CASE Ends(Failure) /\ UNCHANGED toServer
    BY <2>2, <1>3, <1>4, <1>10 DEF SendData
  <2>3. CASE /\ Enters("write")
             /\ toServer' = [toServer EXCEPT ![conn] = Append(toServer[conn], Request)]
    <3>1. /\ toServer'[conn] = <<Request>> /\ stage' = "write"
          /\ \A c \in Conns : c # conn => toServer'[c] = <<>>
          /\ UNCHANGED <<conn, closing, command, outcome, served>> /\ stage = "connect"
      <4>1. toServer'[conn] = Append(toServer[conn], Request)
        BY <2>3, <1>1
      <4>2. Append(<<>>, Request) = <<Request>>
        OBVIOUS
      <4>3. toServer'[conn] = <<Request>>
        BY <4>1, <4>2, <2>1, <1>1
      <4>4. \A c \in Conns : c # conn => toServer'[c] = <<>>
        BY <2>1, <2>3, <1>1
      <4> QED
        BY <4>3, <4>4, <2>3, <1>10 DEF Enters, SendData
    <3>2. <<k>> # <<>> /\ <<Request>> # <<>> /\ (<<Request>> = <<k>> => Request = k)
      OBVIOUS
    <3>3. Request = k => (~closing /\ k = command)
      BY <1>0 DEF Request
    <3>4. Request = k => (served[k] = 0 /\ outcome[k] = <<"none", 0>>)
      BY <3>1, <3>3, <1>0 DEF ServedOf, OutcomeOf
    <3>5. \A c \in Conns : toServer'[c] = <<k>> =>
             (c = conn /\ served[k] = 0 /\ k <= command /\ outcome[k] \notin {Unsent, <<"reply", k>>})
      <4>1. <<"none", 0>> # <<"reply", k>> /\ <<"none", 0>> # Unsent /\ k <= k
        BY <1>0 DEF Unsent
      <4> QED
        BY <3>1, <3>2, <3>3, <3>4, <4>1
    <3> QED
      BY <3>1, <3>2, <3>5, <1>0 DEF ServedOf
  <2> QED
    BY <2>2, <2>3, <1>10 DEF SendData
<1>11. CASE ReadDataStart
  <2>1. CASE Ends(Failure)
    BY <2>1, <1>3, <1>4, <1>11 DEF ReadDataStart
  <2>2. CASE Enters("read")
    <3>1. /\ UNCHANGED <<toServer, conn, closing, command, outcome, served>>
          /\ UnderWay /\ stage' = "read" /\ ~Broken(conn)
      BY <2>2, <1>0, <1>11, LoopReturned DEF ReadDataStart, Enters, UnderWay
    <3> QED
      BY <3>1, <1>0 DEF ServedOf
  <2> QED
    BY <2>1, <2>2, <1>11 DEF ReadDataStart
<1>12. CASE Finish
  <2>1. /\ \A c \in Conns : toServer'[c] = <<>>
        /\ stage' = "none" /\ UNCHANGED <<command, served>>
    BY <1>12, QuietBeforeSend DEF Finish, Ends, netVars
  <2>2. <<k>> # <<>>
    OBVIOUS
  <2> QED
    BY <2>1, <2>2, <1>0 DEF ServedOf, UnderWay
<1>13. CASE Throw
  BY <1>3, <1>4, <1>13 DEF Throw, netVars
<1>14. CASE CloseWe
  <2>1. \A c \in Conns : toServer'[c] = toServer[c] \/ toServer'[c] = <<>>
    BY <1>1, <1>14 DEF CloseWe
  <2> QED
    BY <2>1, <1>3, <1>4, <1>14 DEF CloseWe
<1>15. CASE UNCHANGED vars
  BY <1>0, <1>15 DEF vars, netVars, clientVars, ServedOf, UnderWay, Broken
<1>16. ASSUME NEW c \in Conns, Unopened(c)
       PROVE  ServedOf(k)'
  <2>1. /\ stage = "none" /\ stage' = "none" /\ UNCHANGED <<toServer, served>>
        /\ \/ UNCHANGED <<command, outcome>>
           \/ /\ command' = command + 1
              /\ outcome' = [outcome EXCEPT ![command + 1] = Unsent]
    BY <1>16 DEF Unopened, netVars
  <2>2. k <= command => (k <= command' /\ outcome'[k] = outcome[k])
    BY <2>1, <1>0, <1>1
  <2> QED
    BY <2>1, <2>2, <1>0 DEF ServedOf, UnderWay
<1> QED
  BY <1>5, <1>6, <1>7, <1>8, <1>9, <1>10, <1>11, <1>12, <1>13, <1>14, <1>15, <1>16 DEF Next, Command

LEMMA NextNumbered == IInv /\ [Next]_vars => CommandNumbered'
<1> SUFFICES ASSUME IInv, [Next]_vars, stage' # "none", ~closing' PROVE command' # 0
  BY DEF CommandNumbered
<1>1. /\ command \in Nat
      /\ (stage # "none" /\ ~closing) => command # 0
  BY NetworkAssumption DEF IInv, TypeOK, CommandNumbered
<1>2. ASSUME NEW c \in Conns, Begin(c) \/ BeginClose(c)
      PROVE  command' # 0
  <2>1. command' = command + 1
    BY <1>2 DEF Begin, BeginClose
  <2> QED
    BY <2>1, <1>1
<1>3. ASSUME NEW c \in Conns, Callback(c) \/ Greet(c) \/ Serve(c)
      PROVE  command' # 0
  <2>1. UNCHANGED clientVars
    BY <1>3, CallbackChanges DEF IInv, Greet, Serve
  <2> QED
    BY <2>1, <1>1 DEF clientVars
<1>4. CASE Command
  BY <1>1, <1>4 DEF Command, SendData, ReadDataStart, Finish, Throw, CloseWe, Ends, Enters
<1>5. CASE UNCHANGED vars
  BY <1>1, <1>5 DEF vars, clientVars
<1>6. ASSUME NEW c \in Conns, Unopened(c)
      PROVE  command' # 0
  BY <1>6 DEF Unopened
<1> QED
  BY <1>2, <1>3, <1>4, <1>5, <1>6 DEF Next

LEMMA InitInv == Init => IInv
<1> SUFFICES ASSUME Init PROVE IInv
  OBVIOUS
<1> USE NetworkAssumption
<1>1. TypeOK
  BY InitTypes
<1>2. Connections
  <2>1. Len(<<>>) <= 1
    OBVIOUS
  <2>2. ASSUME NEW c \in Conns
        PROVE  toServer[c] = <<>> /\ toClient[c] = <<>> /\ conStatus[c] = "none"
    BY DEF Init
  <2> QED
    BY <2>1, <2>2 DEF Init, Connections, ConnectionOf, UnderWay
<1>3. ExchangeOK /\ CommandNumbered
  BY DEF Init, ExchangeOK, CommandNumbered, UnderWay
<1>4. Outcomes
  <2>1. \A k \in Commands : k > 0
    BY DEF Commands
  <2> QED
    BY <2>1 DEF Init, Outcomes, OutcomeOf, Failure, Unsent
<1>5. ServedOnce
  <2>1. \A k \in Commands : <<k>> # <<>>
    OBVIOUS
  <2> QED
    BY <2>1 DEF Init, ServedOnce, ServedOf, UnderWay
<1> QED
  BY <1>1, <1>2, <1>3, <1>4, <1>5 DEF IInv

(* The invariant that all follows from: only the connection of the command *)
(* that is executed has anything under way, and what it has under way is   *)
(* that command; all else is idle and quiet, not there, or broken for good.*)
THEOREM Invariance == Spec => []IInv
<1>1. IInv /\ [Next]_vars => IInv'
  <2>1. IInv /\ [Next]_vars => TypeOK' /\ Connections' /\ ExchangeOK'
    BY NextTypes, NextConnections, NextExchange
  <2>2. IInv /\ [Next]_vars => Outcomes' /\ ServedOnce' /\ CommandNumbered'
    BY NextOutcomes, NextServed, NextNumbered
  <2> QED
    BY <2>1, <2>2 DEF IInv
<1> QED
  BY <1>1, InitInv, PTL DEF Spec

-----------------------------------------------------------------------------
(* The state of ColumnStoreCommands and its connections has its types, and *)
(* libuv has been asked for what the status of a connection says.          *)
THEOREM Types == Spec => []TypeOK
<1>1. IInv => TypeOK
  BY DEF IInv
<1> QED
  BY <1>1, Invariance, PTL

(* A command that returns has read the reply to its own request, in        *)
(* whatever pieces replies arrive and however commands before it ended.    *)
THEOREM OwnReplyAlways == Spec => []OwnReply
<1>1. IInv => OwnReply
  BY DEF IInv, Outcomes, OutcomeOf, OwnReply, Failure, Unsent
<1> QED
  BY <1>1, Invariance, PTL

(* Between two commands a connection that is idle has no request and no    *)
(* piece of a reply that the next command could take for its own.          *)
THEOREM IdleIsQuietAlways == Spec => []IdleIsQuiet
<1>1. IInv => IdleIsQuiet
  BY DEF IInv, Connections, ConnectionOf, IdleIsQuiet, UnderWay
<1> QED
  BY <1>1, Invariance, PTL

(* Once a connection is broken no command of this object sends anything,   *)
(* to none of the servers.                                                 *)
THEOREM BrokenBlocksAllAlways == Spec => BrokenBlocksAll
<1> DEFINE Step == (\E c \in Conns : Broken(c)) =>
                      \A c \in Conns : Len(toServer'[c]) <= Len(toServer[c])
<1>1. IInv /\ [Next]_vars => [Step]_vars
  <2> SUFFICES ASSUME IInv, Next, NEW b \in Conns, Broken(b), NEW d \in Conns
               PROVE  Len(toServer'[d]) <= Len(toServer[d])
    OBVIOUS
  <2>1. /\ TypeOK /\ toServer \in [Conns -> Seq(0 .. MaxCommands)]
        /\ toServer[d] \in Seq(0 .. MaxCommands)
    BY DEF IInv, TypeOK
  <2>2. \A n \in Nat : n <= n /\ n - 1 <= n
    OBVIOUS
  <2>3. Len(toServer[d]) \in Nat
    BY <2>1, LenProperties
  <2>4. ~LoopReturns
    BY <2>1, LoopReturned
  <2>5. CASE toServer'[d] = toServer[d]
    BY <2>2, <2>3, <2>5, Zenon
  <2>6. ASSUME NEW c \in Conns, Serve(c)
        PROVE  Len(toServer'[d]) <= Len(toServer[d])
    <3>1. CASE c # d
      BY <3>1, <2>1, <2>5, <2>6 DEF Serve
    <3>2. CASE c = d
      <4>1. toServer'[d] = Tail(toServer[d]) /\ toServer[d] # <<>>
        BY <3>2, <2>1, <2>6 DEF Serve
      <4>2. Len(Tail(toServer[d])) = Len(toServer[d]) - 1
        BY <4>1, <2>1, HeadTailProperties
      <4> QED
        BY <4>1, <4>2, <2>2, <2>3, Zenon
    <3> QED
      BY <3>1, <3>2
  <2>7. ASSUME NEW c \in Conns, Begin(c) \/ BeginClose(c) \/ Unopened(c) \/ Callback(c) \/ Greet(c)
        PROVE  toServer' = toServer
    BY <2>1, <2>7, CallbackChanges DEF Begin, BeginClose, Unopened, Greet, netVars
  <2>8. Command => toServer' = toServer
    BY <2>4 DEF Command, SendData, ReadDataStart, Finish, Throw, CloseWe, netVars
  <2> QED
    BY <2>5, <2>6, <2>7, <2>8 DEF Next
<1> QED
  BY <1>1, Invariance, PTL DEF Spec, BrokenBlocksAll

-----------------------------------------------------------------------------
(* What Exchange sees of a command.                                        *)
LEMMA Seen ==
    ASSUME Outcomes
    PROVE  \A k \in Commands :
              /\ outcome[k] = <<"none", 0>> => Answers[k] = "none"
              /\ outcome[k] = Unsent => Answers[k] = "unsent"
              /\ outcome[k] = Failure => Answers[k] = "failed"
              /\ outcome[k] = <<"reply", k>> => Answers[k] = "answered"
<1> SUFFICES ASSUME NEW k \in Commands
             PROVE  /\ outcome[k] = <<"none", 0>> => Answers[k] = "none"
                    /\ outcome[k] = Unsent => Answers[k] = "unsent"
                    /\ outcome[k] = Failure => Answers[k] = "failed"
                    /\ outcome[k] = <<"reply", k>> => Answers[k] = "answered"
  OBVIOUS
<1>1. Answers[k] = CASE outcome[k] = <<"reply", k>> -> "answered"
                     [] outcome[k][1] = "reply" /\ outcome[k][2] # k -> "mistaken"
                     [] OTHER -> outcome[k][1]
  BY DEF Answers
<1>2. CASE outcome[k] = <<"none", 0>>
  BY <1>1, <1>2 DEF Failure, Unsent
<1>3. CASE outcome[k] = Failure
  BY <1>1, <1>3 DEF Failure, Unsent
<1>4. CASE outcome[k] = <<"reply", k>>
  BY <1>1, <1>4 DEF Failure, Unsent
<1>5. CASE outcome[k] = Unsent
  BY <1>1, <1>5 DEF Failure, Unsent
<1> QED
  BY <1>2, <1>3, <1>4, <1>5 DEF Failure, Unsent

(* How a command ends, for Exchange.                                       *)
LEMMA EndsSeen ==
    ASSUME IInv, Outcomes', stage # "none", UNCHANGED served,
           NEW result, Ends(result),
           ~closing => (result = Failure \/ (result = <<"reply", command>> /\ served[command] = 1
                                                /\ \A c \in Conns : ~Broken(c)))
    PROVE  Abstract!Next \/ UNCHANGED <<command, served, Answers>>
<1> USE NetworkAssumption
<1>1. UNCHANGED command
  BY DEF Ends
<1>2. CASE closing
  BY <1>1, <1>2 DEF Ends, Answers
<1>3. CASE ~closing
  <2>1. /\ command \in Commands /\ command > 0
        /\ Outcomes /\ outcome[command] = <<"none", 0>>
        /\ outcome \in [Commands -> {"none", "unsent", "failed", "reply"} \X (0 .. MaxCommands)]
    <3>1. TypeOK /\ Outcomes /\ command \in 0 .. MaxCommands /\ command # 0
      BY <1>3 DEF IInv, CommandNumbered, TypeOK
    <3>2. command \in Commands /\ command > 0
      BY <3>1 DEF Commands
    <3>3. OutcomeOf(command)
      BY <3>1, <3>2 DEF Outcomes
    <3> QED
      BY <3>1, <3>2, <3>3, <1>3 DEF OutcomeOf, TypeOK
  <2>2. Answers[command] = "none"
    BY <2>1, Seen
  <2>3. outcome' = [outcome EXCEPT ![command] = result]
    BY <1>3 DEF Ends
  <2>4. \A k \in Commands : k # command => Answers'[k] = Answers[k]
    BY <2>1, <2>3 DEF Answers
  <2>5. \A value : Answers'[command] = value => Answers' = [Answers EXCEPT ![command] = value]
    <3> SUFFICES ASSUME NEW value, Answers'[command] = value
                 PROVE  Answers' = [Answers EXCEPT ![command] = value]
      OBVIOUS
    <3>1. \A k \in Commands : Answers'[k] = [Answers EXCEPT ![command] = value][k]
      BY <2>4 DEF Answers
    <3> QED
      BY <3>1 DEF Answers
  <2>6. outcome'[command] = result
    BY <2>1, <2>3
  <2>7. CASE result = Failure
    <3>1. Answers'[command] = "failed"
      BY <2>1, <2>6, <2>7, <1>1, Seen DEF Outcomes, Failure, Answers
    <3>2. Abstract!Fail
      BY <3>1, <2>1, <2>2, <2>5, <1>1 DEF Abstract!Fail
    <3> QED
      BY <3>2 DEF Abstract!Next
  <2>8. CASE /\ result = <<"reply", command>> /\ served[command] = 1
             /\ \A c \in Conns : ~Broken(c)
    <3>1. Answers'[command] = "answered"
      BY <2>1, <2>6, <2>8, <1>1 DEF Answers
    <3>2. \A k \in Commands : Answers[k] # "failed"
      <4> SUFFICES ASSUME NEW k \in Commands PROVE Answers[k] # "failed"
        OBVIOUS
      <4>1. OutcomeOf(k)
        BY <2>1 DEF Outcomes
      <4>2. outcome[k] = <<"none", 0>> \/ outcome[k] = Unsent \/ outcome[k] = <<"reply", k>>
        BY <4>1, <2>8 DEF OutcomeOf
      <4> QED
        BY <4>2, <2>1, Seen
    <3>3. Abstract!Answer
      BY <3>1, <3>2, <2>1, <2>2, <2>5, <2>8, <1>1
         DEF Abstract!Answer, Abstract!Commands, Commands
    <3> QED
      BY <3>3 DEF Abstract!Next
  <2> QED
    BY <2>7, <2>8, <1>3
<1> QED
  BY <1>2, <1>3

LEMMA NextSeen ==
    IInv /\ Outcomes' /\ [Next]_vars => [Abstract!Next]_<<command, served, Answers>>
<1> SUFFICES ASSUME IInv, Outcomes', [Next]_vars
             PROVE  Abstract!Next \/ UNCHANGED <<command, served, Answers>>
  OBVIOUS
<1> USE NetworkAssumption
<1>0. TypeOK /\ Outcomes /\ ServedOnce /\ command \in 0 .. MaxCommands /\ conn \in Conns
  BY DEF IInv, TypeOK
<1>1. ASSUME UNCHANGED <<command, served, outcome>>
      PROVE  UNCHANGED <<command, served, Answers>>
  BY <1>1 DEF Answers
<1>ended. ASSUME stage = "none", command > 0
          PROVE  Answers[command] # "none"
  <2>1. command \in Commands /\ ~(command > command)
    BY <1>ended, <1>0 DEF Commands
  <2>2. OutcomeOf(command)
    BY <2>1, <1>0 DEF Outcomes
  <2>3. \/ outcome[command] = Unsent \/ outcome[command] = Failure
        \/ outcome[command] = <<"reply", command>>
    BY <2>1, <2>2, <1>ended DEF OutcomeOf
  <2> QED
    BY <2>1, <2>3, <1>0, Seen
<1>2. ASSUME NEW c \in Conns, Begin(c)
      PROVE  Abstract!Next
  <2>1. /\ stage = "none" /\ command < MaxCommands /\ command' = command + 1
        /\ UNCHANGED <<outcome, served>>
    BY <1>2 DEF Begin
  <2>2. command > 0 => Answers[command] # "none"
    BY <2>1, <1>ended
  <2>3. UNCHANGED Answers
    BY <2>1 DEF Answers
  <2>4. Abstract!Begin
    BY <2>1, <2>2, <2>3 DEF Abstract!Begin
  <2> QED
    BY <2>4 DEF Abstract!Next
<1>3. ASSUME NEW c \in Conns, BeginClose(c) \/ Callback(c) \/ Greet(c)
      PROVE  UNCHANGED <<command, served, Answers>>
  BY <1>0, <1>1, <1>3, CallbackChanges DEF BeginClose, Greet, clientVars
<1>4. ASSUME NEW c \in Conns, Serve(c)
      PROVE  Abstract!Next \/ UNCHANGED <<command, served, Answers>>
  <2> DEFINE h == Head(toServer[c])
  <2>1. toServer[c] = <<h>> /\ h \in 0 .. MaxCommands
    <3>1. toServer[c] \in Seq(0 .. MaxCommands) /\ toServer[c] # <<>> /\ Len(toServer[c]) <= 1
      BY <1>4 DEF IInv, TypeOK, Serve, Connections, ConnectionOf
    <3> QED
      BY <3>1, OneElement
  <2>2. UNCHANGED <<command, Answers>>
    BY <1>4 DEF Serve, clientVars, Answers
  <2>3. IF h = 0 THEN UNCHANGED served ELSE served' = [served EXCEPT ![h] = served[h] + 1]
    BY <1>4 DEF Serve
  <2> HIDE DEF h
  <2>4. CASE h = 0
    BY <2>2, <2>3, <2>4
  <2>5. CASE h # 0
    <3>1. h \in Commands
      BY <2>1, <2>5 DEF Commands
    <3>2. /\ served[h] = 0 /\ h <= command /\ outcome[h] \notin {Unsent, <<"reply", h>>}
          /\ OutcomeOf(h)
      BY <3>1, <2>1, <1>0 DEF ServedOnce, ServedOf, Outcomes
    <3>3. Answers[h] \notin {"answered", "unsent"}
      <4>1. outcome[h] = <<"none", 0>> \/ outcome[h] = Failure
        BY <3>2 DEF OutcomeOf
      <4> QED
        BY <4>1, <3>1, <1>0, Seen
    <3>4. served' = [served EXCEPT ![h] = 1]
      BY <2>3, <2>5, <3>2
    <3>5. Abstract!Serve(h)
      BY <3>2, <3>3, <3>4, <2>2 DEF Abstract!Serve
    <3> QED
      BY <3>1, <3>5 DEF Abstract!Next, Abstract!Commands, Commands
  <2> QED
    BY <2>4, <2>5
<1>5. ASSUME stage # "none", Ends(Failure), UNCHANGED served
      PROVE  Abstract!Next \/ UNCHANGED <<command, served, Answers>>
  BY <1>5, EndsSeen
<1>6. CASE SendData \/ ReadDataStart
  <2>1. CASE Ends(Failure)
    BY <2>1, <1>5, <1>6 DEF SendData, ReadDataStart
  <2>2. CASE \E s \in {"write", "read"} : Enters(s)
    BY <2>2, <1>1, <1>6 DEF SendData, ReadDataStart, Enters
  <2> QED
    BY <2>1, <2>2, <1>6 DEF SendData, ReadDataStart
<1>7. CASE Finish
  <2>1. /\ stage # "none" /\ UNCHANGED served
        /\ Ends(<<"reply", command>>)
        /\ \A c \in Conns : ~Broken(c)
        /\ ~closing /\ command \in Commands /\ toServer[conn] = <<>> /\ UnderWay
    BY <1>7, ReplyIsComplete DEF Finish, UnderWay
  <2>2. served[command] = 1
    <3>1. ServedOf(command)
      BY <2>1, <1>0 DEF ServedOnce
    <3> QED
      BY <3>1, <2>1, <1>0 DEF ServedOf
  <2> QED
    BY <2>1, <2>2, EndsSeen
<1>8. CASE Throw \/ CloseWe
  BY <1>5, <1>8 DEF Throw, CloseWe
<1>9. CASE UNCHANGED vars
  BY <1>1, <1>9 DEF vars, clientVars
<1>10. ASSUME NEW c \in Conns, Unopened(c)
       PROVE  Abstract!Next \/ UNCHANGED <<command, served, Answers>>
  <2>1. /\ stage = "none" /\ UNCHANGED served
        /\ \/ UNCHANGED <<command, outcome>>
           \/ /\ command < MaxCommands /\ command' = command + 1
              /\ outcome' = [outcome EXCEPT ![command + 1] = Unsent]
    BY <1>10 DEF Unopened
  <2>2. CASE UNCHANGED <<command, outcome>>
    BY <2>1, <2>2, <1>1
  <2>3. CASE /\ command < MaxCommands /\ command' = command + 1
             /\ outcome' = [outcome EXCEPT ![command + 1] = Unsent]
    <3>1. \A k \in Commands : outcome'[k] = IF k = command + 1 THEN Unsent ELSE outcome[k]
      BY <2>3, <1>0 DEF TypeOK
    <3>2. \A k \in Commands : Answers'[k] = IF k = command + 1 THEN "unsent" ELSE Answers[k]
      BY <3>1 DEF Answers, Unsent
    <3>3. \A k \in Commands : Answers'[k] = [Answers EXCEPT ![command + 1] = "unsent"][k]
      BY <3>2 DEF Answers
    <3>4. Answers' = [Answers EXCEPT ![command + 1] = "unsent"]
      BY <3>3 DEF Answers
    <3>5. command > 0 => Answers[command] # "none"
      BY <2>1, <1>ended
    <3>6. Abstract!TurnDown
      BY <3>4, <3>5, <2>1, <2>3 DEF Abstract!TurnDown
    <3> QED
      BY <3>6 DEF Abstract!Next
  <2> QED
    BY <2>1, <2>2, <2>3
<1> QED
  BY <1>2, <1>3, <1>4, <1>6, <1>7, <1>8, <1>9, <1>10 DEF Next, Command

(* ColumnStoreCommands keeps what Exchange promises: commands are executed *)
(* one after the other, one that returns exactly once; one that throws for *)
(* want of a connection never is, one that throws on a connection at most  *)
(* once, and after that none returns.                                      *)
THEOREM Implements == Spec => ImplementsExchange
<1>1. Init => Abstract!Init
  <2> SUFFICES ASSUME Init PROVE Abstract!Init
    OBVIOUS
  <2>1. command = 0 /\ served = [k \in Commands |-> 0]
    BY DEF Init
  <2>2. Outcomes /\ \A k \in Commands : outcome[k] = <<"none", 0>>
    BY InitInv DEF Init, IInv
  <2>3. \A k \in Commands : Answers[k] = "none"
    BY <2>2, Seen
  <2>4. Answers = [k \in Commands |-> "none"]
    BY <2>3 DEF Answers
  <2> QED
    BY <2>1, <2>4 DEF Abstract!Init, Abstract!Commands, Commands
<1>2. IInv => Outcomes
  BY DEF IInv
<1> QED
  BY <1>1, <1>2, NextSeen, Invariance, PTL DEF Spec, ImplementsExchange, Abstract!Spec

=============================================================================
