------------------------- MODULE SyslogSenderProofs -------------------------
(***************************************************************************)
(* Proofs about SyslogSender, for any number of messages, crashes and      *)
(* failures and any sizes of header and text: its type invariant and the   *)
(* properties of the run, from one inductive invariant.                    *)
(***************************************************************************)
EXTENDS SyslogSender, SequenceTheorems, TLAPS

Conn == [type : {"dgram", "stream"}, peer : {"up", "gone", "reset"}, got : Seq(Pieces)]

(* TypeOK, with the types of the parts it leaves out and what is known of  *)
(* a call of process() that has not returned.                              *)
TypeInv ==
  /\ TypeOK
  /\ rfc5424 \in BOOLEAN
  /\ service \in {"dgram", "stream"}
  /\ proto = "tcp" => service = "stream"
  /\ conns \in Seq(Conn)
  /\ pc # "idle" => message \in 1..MaxMessages /\ i < Tries
  /\ pc = "connect_stream" => proto = "unix" /\ fd = 0
  /\ pc = "send_body" => proto = "tcp"

(* The descriptor in use is that of the newest connection: only that one   *)
(* receives anything.                                                      *)
NewestInv == NoDescriptorLeak /\ (fd # 0 => fd = Len(conns))

(* On the connection in use, as long as its peer is there, nothing was cut *)
(* short, and on TCP it ends in a prefix exactly when that of the current  *)
(* message was sent and its body was not.                                  *)
InUse ==
  fd # 0 /\ conns[fd].peer = "up" =>
    LET got == conns[fd].got
    IN /\ \A k \in DOMAIN got : got[k].whole
       /\ proto = "tcp" => /\ pc = "send_body" => Len(got) % 2 = 1 /\ got[Len(got)].message = message
                           /\ pc # "send_body" => Len(got) % 2 = 0

FramingInv == Framing /\ InUse

(* A complete message is one that process() has returned from.             *)
CompleteInv ==
  \A n \in DOMAIN conns : \A k \in DOMAIN conns[n].got :
    conns[n].got[k].part = "body" /\ conns[n].got[k].whole =>
      /\ conns[n].got[k].message <= message
      /\ pc # "idle" => conns[n].got[k].message < message

(* A connection carries at most two pieces of a message.                   *)
LengthInv ==
  /\ \A n \in DOMAIN conns : Len(conns[n].got) <= 2 * message
  /\ fd # 0 /\ pc # "idle" =>
       Len(conns[fd].got) <= 2 * message - (IF pc = "send_body" THEN 1 ELSE 2)

(* The last message handed to process() was received whole.                *)
MessageReceived ==
  \E n \in DOMAIN conns : \E k \in DOMAIN conns[n].got :
    conns[n].got[k].part = "body" /\ conns[n].got[k].whole /\ conns[n].got[k].message = message

(* While nothing goes wrong that the code cannot see, the server is up,    *)
(* the second try finds a good connection or none, and process() ends with *)
(* the message received.                                                   *)
FairInv ==
  fair =>
    /\ pc # "idle" => /\ server = service
                      /\ fd # 0 => conns[fd].peer # "gone"
                      /\ fd # 0 /\ i > 0 => conns[fd].peer = "up"
    /\ pc = "send_body" => conns[fd].peer = "up"
    /\ pc = "connect_stream" => service = "stream"
    /\ pc = "idle" /\ message > 0 => MessageReceived

IndInv == TypeInv /\ NewestInv /\ FramingInv /\ CompleteInv /\ OnceInOrder /\ LengthInv /\ FairInv

-----------------------------------------------------------------------------
(* What a step does to the connections.                                    *)

(* A ::send that reaches the server adds one piece to the connection in    *)
(* use and touches nothing else.                                           *)
LEMMA ReceiveStep ==
  ASSUME TypeInv, pc \in {"send", "send_body"}, NEW whole \in BOOLEAN, Receive(whole)
  PROVE  /\ fd \in DOMAIN conns
         /\ conns' \in Seq(Conn)
         /\ Len(conns') = Len(conns)
         /\ \A n \in DOMAIN conns : /\ conns'[n].peer = conns[n].peer
                                    /\ n # fd => conns'[n] = conns[n]
         /\ conns'[fd].got =
              Append(conns[fd].got, [message |-> message, part |-> Part, whole |-> whole])
<1> DEFINE piece == [message |-> message, part |-> Part, whole |-> whole]
           new == [conns[fd] EXCEPT !.got = Append(@, piece)]
<1>1. conns \in Seq(Conn) /\ fd \in 1..Len(conns) /\ conns[fd] \in Conn
  BY DEF TypeInv, TypeOK
<1>2. piece \in Pieces
  BY DEF TypeInv, Part, Pieces
<1>3. Append(conns[fd].got, piece) \in Seq(Pieces)
  BY <1>1, <1>2 DEF Conn
<1>4. new \in Conn
  BY <1>1, <1>3 DEF Conn
<1>5. conns' = [conns EXCEPT ![fd] = new]
  BY <1>1 DEF Receive
<1>6. new.got = Append(conns[fd].got, piece) /\ new.peer = conns[fd].peer
  BY <1>1 DEF Conn
<1> HIDE DEF new, piece
<1>7. conns' \in Seq(Conn) /\ Len(conns') = Len(conns) /\ conns'[fd] = new
  BY <1>1, <1>4, <1>5, ExceptSeq
<1>8. \A n \in DOMAIN conns : n # fd => conns'[n] = conns[n]
  BY <1>1, <1>5
<1> QED
  BY <1>1, <1>6, <1>7, <1>8 DEF piece

(* A crash or a reset changes the peers of connections, towards "reset",   *)
(* and nothing that was received.                                          *)
LEMMA PeersStep ==
  ASSUME TypeInv, Crash \/ ResetArrives
  PROVE  /\ conns' \in Seq(Conn)
         /\ Len(conns') = Len(conns)
         /\ \A n \in DOMAIN conns : /\ conns'[n].got = conns[n].got
                                    /\ conns'[n].peer = "up" => conns[n].peer = "up"
         /\ ResetArrives => \A n \in DOMAIN conns :
              conns'[n].peer = conns[n].peer \/ (conns[n].peer = "gone" /\ conns'[n].peer = "reset")
<1>1. conns \in Seq(Conn) /\ DOMAIN conns = 1..Len(conns)
  BY DEF TypeInv
<1>2. CASE Crash
  <2> DEFINE lost(c) == [c EXCEPT !.peer = IF @ # "up" THEN @
                                           ELSE IF proto = "tcp" THEN "gone" ELSE "reset"]
  <2>1. \A c \in Conn : lost(c) \in Conn /\ lost(c).got = c.got /\ lost(c).peer # "up"
    BY DEF Conn
  <2>2. conns' = [n \in 1..Len(conns) |-> lost(conns[n])]
    BY <1>1, <1>2 DEF Crash
  <2>3. \A n \in 1..Len(conns) : conns[n] \in Conn
    BY <1>1
  <2> HIDE DEF lost
  <2>4. \A n \in 1..Len(conns) : conns'[n] = lost(conns[n])
    BY <2>2
  <2>5. conns' \in Seq(Conn) /\ Len(conns') = Len(conns)
    BY <1>1, <2>1, <2>2, <2>3
  <2>6. ~ResetArrives
    <3>1. crashes \in Int /\ crashes' = crashes + 1
      BY <1>2 DEF Crash, TypeInv, TypeOK
    <3>2. ResetArrives => crashes' = crashes
      BY DEF ResetArrives, history
    <3> QED
      BY <3>1, <3>2
  <2> QED
    BY <1>1, <2>1, <2>3, <2>4, <2>5, <2>6
<1>3. CASE ResetArrives
  <2>1. PICK n \in DOMAIN conns : /\ conns[n].peer = "gone"
                                  /\ conns' = [conns EXCEPT ![n].peer = "reset"]
    BY <1>3 DEF ResetArrives
  <2> DEFINE new == [conns[n] EXCEPT !.peer = "reset"]
  <2>2. new \in Conn /\ new.got = conns[n].got /\ new.peer = "reset"
    <3>1. conns[n] \in Conn
      BY <1>1
    <3> QED
      BY <3>1 DEF Conn
  <2>3. conns' = [conns EXCEPT ![n] = new]
    BY <2>1
  <2> HIDE DEF new
  <2>4. conns' \in Seq(Conn) /\ Len(conns') = Len(conns) /\ conns'[n] = new
    BY <1>1, <2>2, <2>3, ExceptSeq
  <2>5. \A m \in DOMAIN conns : m # n => conns'[m] = conns[m]
    BY <1>1, <2>3
  <2> QED
    BY <1>1, <2>1, <2>2, <2>4, <2>5
<1> QED
  BY <1>2, <1>3

(* A new connection is the last, its peer is up and nothing was received.  *)
LEMMA ConnectStep ==
  ASSUME TypeInv, Connect
  PROVE  /\ conns' \in Seq(Conn)
         /\ Len(conns') = Len(conns) + 1
         /\ fd' = Len(conns')
         /\ \A n \in DOMAIN conns : conns'[n] = conns[n]
         /\ conns'[fd'].peer = "up"
         /\ conns'[fd'].got = <<>>
<1> DEFINE new == [type |-> Trying, peer |-> "up", got |-> <<>>]
<1>1. new \in Conn /\ new.peer = "up" /\ new.got = <<>>
  BY DEF Conn, Trying
<1>2. conns' = Append(conns, new) /\ fd' = Len(conns') /\ conns \in Seq(Conn)
  BY DEF Connect, TypeInv
<1> HIDE DEF new
<1> QED
  BY <1>1, <1>2, AppendProperties

-----------------------------------------------------------------------------
(* Types and descriptors.                                                  *)

(* The invariant holds of a dump that was just constructed.                *)
LEMMA InitIndInv == Init => IndInv
<1> SUFFICES ASSUME Init PROVE IndInv
  OBVIOUS
<1>1. Len(conns) = 0 /\ DOMAIN conns = {} /\ conns \in Seq(Conn)
  BY DEF Init
<1>2. TypeInv
  BY <1>1, SenderAssumption DEF Init, TypeInv, TypeOK, Protocols, Tries
<1>3. Complete = {}
  BY <1>1 DEF Complete
<1>4. NewestInv /\ FramingInv /\ CompleteInv /\ LengthInv /\ FairInv
  BY <1>1 DEF Init, NewestInv, NoDescriptorLeak, FramingInv, Framing, InUse, CompleteInv,
    LengthInv, FairInv
<1> QED
  BY <1>2, <1>3, <1>4 DEF IndInv, OnceInOrder

(* A line with its header is never empty: process() always sends.  The     *)
(* size sent is within the buffer for the lines that fit it, which a       *)
(* header within its margin makes of every line, and for no other.         *)
LEMMA LineFits ==
  ASSUME TypeInv, NEW m \in 1..MaxMessages
  PROVE  /\ FormatMessage(m) > 0
         /\ LineSize(m) <= SyslogBufferSize <=> FormatMessage(m) <= SyslogBufferSize
         /\ LineSize(m) <= SyslogBufferSize =>
              FormatMessage(m) - 1 = IF LineSize(m) < SyslogBufferSize
                                      THEN LineSize(m) ELSE SyslogBufferSize - 1
         /\ HeaderSize[rfc5424] <= Margin => LineSize(m) <= SyslogBufferSize
<1>1. /\ HeaderSize[rfc5424] \in Nat \ {0} /\ TextSize[m] \in 0..TraceMessageCapacity
      /\ Margin \in Nat /\ TraceMessageCapacity \in Nat
  BY FormatAssumption DEF TypeInv
<1>2. /\ LineSize(m) \in Nat \ {0} /\ SyslogBufferSize \in Nat
      /\ HeaderSize[rfc5424] <= Margin => LineSize(m) <= SyslogBufferSize
  BY <1>1 DEF LineSize, SyslogBufferSize
<1> QED
  BY <1>2 DEF FormatMessage

(* A sequence of connections gives TypeOK's part on connections.           *)
LEMMA ConnTypes ==
  ASSUME NEW s \in Seq(Conn)
  PROVE  /\ Len(s) \in Nat
         /\ \A n \in DOMAIN s : /\ s[n].peer \in {"up", "gone", "reset"}
                                /\ s[n].got \in Seq(Pieces)
                                /\ \A k \in DOMAIN s[n].got : s[n].got[k] \in Pieces
<1>1. \A n \in DOMAIN s : s[n] \in Conn
  OBVIOUS
<1>2. \A q \in Seq(Pieces) : \A k \in DOMAIN q : q[k] \in Pieces
  OBVIOUS
<1> QED
  BY <1>1, <1>2 DEF Conn

(* Every step keeps the types: the loop of process() is left after its     *)
(* last try, and nothing is sent without a descriptor.                     *)
LEMMA TypeStep == TypeInv /\ NewestInv /\ [Next]_vars => TypeInv'
<1> SUFFICES ASSUME TypeInv, NewestInv, [Next]_vars PROVE TypeInv'
  OBVIOUS
<1> USE SenderAssumption DEF TypeInv, TypeOK, sender, network, history, Tries
<1>0. conns \in Seq(Conn) /\ Len(conns) \in Nat
  OBVIOUS
<1>a. Close => descriptors' \in Nat
  BY DEF NewestInv, NoDescriptorLeak, Close
<1>b. Failure \/ UNCHANGED history =>
        failures' \in 0..MaxFailures /\ crashes' = crashes /\ fair' \in BOOLEAN
  <2>1. CASE Failure
    <3>1. failures' = failures + 1 /\ failures < MaxFailures /\ crashes' = crashes
      BY <2>1 DEF Failure
    <3>2. fair' = FALSE
      BY <2>1 DEF Failure
    <3>3. failures' \in 0..MaxFailures
      BY <3>1
    <3>4. fair' \in BOOLEAN
      BY <3>2
    <3> QED
      BY <3>1, <3>3, <3>4
  <2>2. CASE UNCHANGED history
    BY <2>2
  <2> QED
    BY <2>1, <2>2
<1>1. CASE Process
  <2>1. message + 1 \in 1..MaxMessages
    BY <1>1 DEF Process
  <2> QED
    BY <1>1, <2>1 DEF Process
<1>2. CASE Connected
  BY <1>2 DEF Connected
<1>3. CASE Connect
  BY <1>3, ConnectStep, ConnTypes DEF Connect
<1>4. CASE ConnectFails
  <2>1. failures' \in 0..MaxFailures /\ crashes' = crashes /\ fair' \in BOOLEAN
    BY <1>4, <1>b DEF ConnectFails
  <2>2. CASE Trying = "dgram"
    BY <1>4, <2>1, <2>2 DEF ConnectFails, Trying, DescriptorsAfterFailedConnect
  <2>3. CASE Trying # "dgram"
    BY <1>4, <2>1, <2>3 DEF ConnectFails, NextTry, DescriptorsAfterFailedConnect
  <2> QED
    BY <2>2, <2>3
<1>5. CASE SendOk
  <2>1. conns' \in Seq(Conn) /\ Len(conns') = Len(conns)
    BY <1>5, ReceiveStep DEF SendOk
  <2> QED
    BY <1>5, <2>1, ConnTypes DEF SendOk, Part, AfterSend
<1>6. CASE SendFails
  <2>1. conns' \in Seq(Conn) /\ Len(conns') = Len(conns)
    BY <1>6, ReceiveStep DEF SendFails
  <2> QED
    <3>1. fd' = 0 /\ descriptors' \in Nat
      BY <1>6, <1>a DEF SendFails, Close
    <3>2. failures' \in 0..MaxFailures /\ crashes' = crashes /\ fair' \in BOOLEAN
      BY <1>6, <1>b DEF SendFails
    <3>3. i' \in 0..Tries /\ (pc' # "idle" => i' < Tries) /\ pc' \in {"connect", "idle"}
      BY <1>6 DEF SendFails, NextTry
    <3>4. message \in 1..MaxMessages /\ UNCHANGED <<rfc5424, proto, message, socket, server, service>>
      BY <1>6 DEF SendFails
    <3> QED
      BY <2>1, <3>1, <3>2, <3>3, <3>4, ConnTypes
<1>7. CASE StopSender
  <2>1. /\ pc' = "idle"
        /\ fd' = 0
        /\ descriptors' \in Nat
        /\ socket' = FALSE
        /\ UNCHANGED <<rfc5424, proto, i, message, network, history>>
    BY <1>7, <1>a DEF StopSender, Close
  <2>2. socket' \in BOOLEAN
    BY <2>1
  <2> QED
    BY <1>0, <2>1, <2>2
<1>8. CASE Crash
  <2>1. conns' \in Seq(Conn) /\ Len(conns') = Len(conns)
    BY <1>8, PeersStep
  <2> QED
    <3>1. crashes' \in 0..MaxCrashes /\ fair' = FALSE /\ server' = "down"
      BY <1>8 DEF Crash
    <3>2. UNCHANGED <<sender, service, failures>>
      BY <1>8 DEF Crash
    <3> QED
      BY <2>1, <3>1, <3>2, ConnTypes
<1>9. CASE Restart
  BY <1>9 DEF Restart
<1>10. CASE ResetArrives
  <2>1. UNCHANGED <<sender, server, service, history>>
    BY <1>10 DEF ResetArrives
  <2> QED
    BY <1>10, <2>1, PeersStep, ConnTypes
<1>11. CASE UNCHANGED vars
  BY <1>11 DEF vars
<1> QED
  BY <1>1, <1>2, <1>3, <1>4, <1>5, <1>6, <1>7, <1>8, <1>9, <1>10, <1>11 DEF Next

(* Every step keeps the count of descriptors, and the descriptor in use    *)
(* that of the newest connection.                                          *)
LEMMA NewestStep == TypeInv /\ NewestInv /\ [Next]_vars => NewestInv'
<1> SUFFICES ASSUME TypeInv, NewestInv, [Next]_vars PROVE NewestInv'
  OBVIOUS
<1> USE DEF NewestInv, NoDescriptorLeak
<1>1. fd \in Nat /\ Len(conns) \in Nat
  BY DEF TypeInv, TypeOK
<1>2. CASE Connect
  BY <1>1, <1>2, ConnectStep DEF Connect
<1>3. CASE SendOk
  BY <1>3, ReceiveStep DEF SendOk
<1>4. CASE SendFails
  BY <1>1, <1>4 DEF SendFails, Close
<1>5. CASE StopSender
  BY <1>1, <1>5 DEF StopSender, Close
<1>6. CASE Crash \/ ResetArrives
  <2>1. UNCHANGED sender
    BY <1>6 DEF Crash, ResetArrives
  <2> QED
    BY <1>6, <2>1, PeersStep DEF sender
<1>7. CASE Process \/ Connected \/ ConnectFails \/ Restart \/ UNCHANGED vars
  BY <1>7 DEF Process, Connected, ConnectFails, Restart, DescriptorsAfterFailedConnect,
    vars, sender, network
<1> QED
  BY <1>2, <1>3, <1>4, <1>5, <1>6, <1>7 DEF Next

-----------------------------------------------------------------------------
(* Framing.                                                                *)

(* The framing of one connection.                                          *)
Framed(got) ==
  \A k \in DOMAIN got :
    /\ k < Len(got) => got[k].whole
    /\ proto = "tcp" /\ k % 2 = 1 => got[k].part = "prefix"
    /\ proto = "tcp" /\ k % 2 = 0 =>
         got[k].part = "body" /\ got[k].message = got[k - 1].message

(* A piece received whole or cut short keeps the framing of the connection *)
(* in use, where nothing was cut short before.                             *)
LEMMA ReceiveFramed ==
  ASSUME TypeInv, InUse, pc \in {"send", "send_body"}, NEW whole \in BOOLEAN, Receive(whole),
         conns[fd].peer = "up", Framed(conns[fd].got)
  PROVE  /\ Framed(conns'[fd].got)
         /\ whole => \A k \in DOMAIN conns'[fd].got : conns'[fd].got[k].whole
         /\ proto = "tcp" /\ pc = "send" => /\ Len(conns'[fd].got) % 2 = 1
                                          /\ conns'[fd].got[Len(conns'[fd].got)].message = message
         /\ proto = "tcp" /\ pc = "send_body" => Len(conns'[fd].got) % 2 = 0
<1> DEFINE got == conns[fd].got
           piece == [message |-> message, part |-> Part, whole |-> whole]
<1>1. fd # 0 /\ got \in Seq(Pieces) /\ conns'[fd].got = Append(got, piece)
  BY ReceiveStep, ConnTypes DEF TypeInv, TypeOK
<1>2. /\ \A k \in DOMAIN got : got[k].whole
      /\ proto = "tcp" => /\ pc = "send_body" => Len(got) % 2 = 1 /\ got[Len(got)].message = message
                          /\ pc # "send_body" => Len(got) % 2 = 0
  BY <1>1 DEF InUse
<1>3. Framed(got)
  OBVIOUS
<1>4. /\ piece.message = message /\ piece.whole = whole
      /\ piece.part = IF proto = "tcp" /\ pc = "send" THEN "prefix" ELSE "body"
  BY DEF Part
<1> HIDE DEF got, piece
<1> DEFINE all == Append(got, piece)
<1>5. /\ Len(got) \in Nat /\ Len(all) = Len(got) + 1 /\ DOMAIN all = 1..(Len(got) + 1)
      /\ DOMAIN got = 1..Len(got)
      /\ \A k \in 1..Len(got) : all[k] = got[k]
      /\ all[Len(got) + 1] = piece
  BY <1>1
<1> HIDE DEF all
<1>6. Framed(all)
  <2> SUFFICES ASSUME NEW k \in 1..(Len(got) + 1)
               PROVE  /\ k < Len(all) => all[k].whole
                      /\ proto = "tcp" /\ k % 2 = 1 => all[k].part = "prefix"
                      /\ proto = "tcp" /\ k % 2 = 0 =>
                           all[k].part = "body" /\ all[k].message = all[k - 1].message
    BY <1>5 DEF Framed
  <2>1. CASE k <= Len(got)
    <3>1. all[k] = got[k] /\ (k > 1 => all[k - 1] = got[k - 1])
      BY <1>5, <2>1
    <3> QED
      BY <1>2, <1>3, <1>5, <2>1, <3>1 DEF Framed
  <2>2. CASE k = Len(got) + 1
    <3>1. CASE proto = "tcp" /\ pc = "send"
      BY <1>2, <1>4, <1>5, <2>2, <3>1
    <3>2. CASE proto = "tcp" /\ pc = "send_body"
      <4>1. Len(got) > 0 /\ all[k - 1] = got[Len(got)] /\ k % 2 = 0
        BY <1>2, <1>5, <2>2, <3>2
      <4> QED
        BY <1>2, <1>4, <1>5, <2>2, <3>2, <4>1
    <3>3. CASE proto # "tcp"
      BY <1>5, <2>2, <3>3
    <3> QED
      BY <3>1, <3>2, <3>3
  <2> QED
    BY <1>5, <2>1, <2>2
<1>7. ASSUME whole, NEW k \in DOMAIN all PROVE all[k].whole
  <2>1. CASE k <= Len(got)
    <3>1. k \in DOMAIN got /\ all[k] = got[k]
      BY <1>5, <2>1
    <3> QED
      BY <1>2, <3>1
  <2>2. CASE k = Len(got) + 1
    <3>1. all[k] = piece
      BY <1>5, <2>2
    <3> QED
      BY <1>4, <1>7, <3>1, Zenon
  <2> QED
    BY <1>5, <2>1, <2>2
<1>8. proto = "tcp" /\ pc = "send" => Len(all) % 2 = 1 /\ all[Len(all)].message = message
  BY <1>2, <1>4, <1>5
<1>9. proto = "tcp" /\ pc = "send_body" => Len(all) % 2 = 0
  BY <1>2, <1>5
<1>10. conns'[fd].got = all
  BY <1>1 DEF all
<1> QED
  BY <1>6, <1>7, <1>8, <1>9, <1>10, Zenon

(* Every step keeps the framing of every connection.                       *)
LEMMA FramingStep == TypeInv /\ NewestInv /\ FramingInv /\ [Next]_vars => FramingInv'
<1> SUFFICES ASSUME TypeInv, NewestInv, FramingInv, [Next]_vars PROVE FramingInv'
  OBVIOUS
<1>1. \A n \in DOMAIN conns : Framed(conns[n].got)
  BY DEF FramingInv, Framing, Framed
<1>2. DOMAIN conns = 1..Len(conns) /\ Len(conns) \in Nat /\ (fd # 0 => fd \in DOMAIN conns)
  BY DEF TypeInv, TypeOK
<1>3. ASSUME proto' = proto, \A n \in DOMAIN conns' : Framed(conns'[n].got) PROVE Framing'
  BY <1>3 DEF Framing, Framed
<1>4. ASSUME UNCHANGED <<conns, proto>>, fd' = 0 \/ (fd' = fd /\ pc' # "send_body" /\ pc # "send_body")
      PROVE  FramingInv'
  BY <1>1, <1>3, <1>4 DEF FramingInv, InUse
<1>5. CASE Connect
  <2>1. /\ \A n \in DOMAIN conns' : n # fd' => n \in DOMAIN conns /\ conns'[n] = conns[n]
        /\ conns'[fd'].got = <<>> /\ proto' = proto /\ pc' = "send"
    BY <1>2, <1>5, ConnectStep DEF Connect
  <2>2. Framed(<<>>)
    BY DEF Framed
  <2>3. \A n \in DOMAIN conns' : Framed(conns'[n].got)
    BY <1>1, <2>1, <2>2
  <2> QED
    BY <1>3, <2>1, <2>3 DEF FramingInv, InUse
<1>6. CASE SendOk
  <2>0. /\ pc \in {"send", "send_body"} /\ fd # 0 /\ UNCHANGED <<proto, fd, message>>
        /\ pc' = IF Part = "prefix" THEN "send_body" ELSE "idle"
    BY <1>6 DEF SendOk, AfterSend, TypeInv, TypeOK
  <2>1. CASE conns[fd].peer = "up" /\ Receive(TRUE)
    <3>1. /\ Framed(conns'[fd].got)
          /\ \A k \in DOMAIN conns'[fd].got : conns'[fd].got[k].whole
          /\ proto = "tcp" /\ pc = "send" => /\ Len(conns'[fd].got) % 2 = 1
                                          /\ conns'[fd].got[Len(conns'[fd].got)].message = message
          /\ proto = "tcp" /\ pc = "send_body" => Len(conns'[fd].got) % 2 = 0
      BY <1>1, <1>2, <2>0, <2>1, ReceiveFramed DEF FramingInv
    <3>2. \A n \in DOMAIN conns' : Framed(conns'[n].got)
      <4>1. \A n \in DOMAIN conns' : n \in DOMAIN conns /\ (n # fd => conns'[n] = conns[n])
        <5>1. /\ conns' \in Seq(Conn) /\ Len(conns') = Len(conns)
              /\ \A n \in DOMAIN conns : n # fd => conns'[n] = conns[n]
          BY <2>0, <2>1, ReceiveStep
        <5> QED
          BY <1>2, <5>1
      <4> QED
        BY <1>1, <3>1, <4>1
    <3>3. InUse'
      BY <2>0, <3>1 DEF InUse, Part
    <3> QED
      BY <1>3, <2>0, <3>2, <3>3 DEF FramingInv
  <2>2. CASE conns[fd].peer = "gone" /\ conns' = conns
    BY <1>1, <1>3, <2>0, <2>2 DEF FramingInv, InUse
  <2> QED
    BY <1>6, <2>1, <2>2 DEF SendOk
<1>7. CASE SendFails
  <2>0. pc \in {"send", "send_body"} /\ fd # 0 /\ fd' = 0 /\ proto' = proto
    BY <1>7 DEF SendFails, Close, TypeInv, TypeOK
  <2>1. CASE conns[fd].peer = "up" /\ Receive(FALSE)
    <3>1. Framed(conns'[fd].got)
      BY <1>1, <1>2, <2>0, <2>1, ReceiveFramed DEF FramingInv
    <3>2. \A n \in DOMAIN conns' : Framed(conns'[n].got)
      <4>1. \A n \in DOMAIN conns' : n \in DOMAIN conns /\ (n # fd => conns'[n] = conns[n])
        <5>1. /\ conns' \in Seq(Conn) /\ Len(conns') = Len(conns)
              /\ \A n \in DOMAIN conns : n # fd => conns'[n] = conns[n]
          BY <2>0, <2>1, ReceiveStep
        <5> QED
          BY <1>2, <5>1
      <4> QED
        BY <1>1, <3>1, <4>1
    <3> QED
      BY <1>3, <2>0, <3>2 DEF FramingInv, InUse
  <2>2. CASE conns' = conns
    BY <1>4, <2>0, <2>2
  <2> QED
    BY <1>7, <2>1, <2>2 DEF SendFails
<1>8. CASE Crash \/ ResetArrives
  <2>1. UNCHANGED sender
    BY <1>8 DEF Crash, ResetArrives
  <2>2. \A n \in DOMAIN conns' : n \in DOMAIN conns /\ conns'[n].got = conns[n].got
    BY <1>2, <1>8, PeersStep
  <2>3. Framing'
    BY <1>1, <1>3, <2>1, <2>2 DEF sender
  <2>4. fd # 0 => conns'[fd].got = conns[fd].got /\ (conns'[fd].peer = "up" => conns[fd].peer = "up")
    BY <1>2, <1>8, PeersStep
  <2> QED
    BY <2>1, <2>3, <2>4 DEF FramingInv, InUse, sender
<1>9. CASE Process \/ Connected \/ ConnectFails \/ StopSender
  <2>1. UNCHANGED <<conns, proto>> /\ (fd' = 0 \/ (fd' = fd /\ pc' # "send_body" /\ pc # "send_body"))
    BY <1>9 DEF Process, Connected, ConnectFails, StopSender, Close, NextTry, network, TypeInv
  <2> QED
    BY <1>4, <2>1
<1>10. CASE Restart \/ UNCHANGED vars
  <2>1. UNCHANGED <<conns, sender>>
    BY <1>10 DEF Restart, vars, network
  <2> QED
    BY <1>1, <1>3, <2>1 DEF FramingInv, InUse, sender
<1> QED
  BY <1>5, <1>6, <1>7, <1>8, <1>9, <1>10 DEF Next

-----------------------------------------------------------------------------
(* The complete messages.                                                  *)

(* A call of process() in progress is one that was in progress before, or  *)
(* the next one.                                                           *)
LEMMA MessageStep ==
  ASSUME TypeInv, [Next]_vars
  PROVE  \/ message' = message + 1 /\ pc = "idle" /\ conns' = conns
         \/ message' = message /\ (pc' # "idle" => pc # "idle")
<1>1. CASE Process
  BY <1>1 DEF Process, network
<1>2. CASE Connected \/ Connect \/ ConnectFails \/ SendOk \/ SendFails
  BY <1>2 DEF Connected, Connect, ConnectFails, SendOk, SendFails
<1>3. CASE StopSender \/ Crash \/ Restart \/ ResetArrives \/ UNCHANGED vars
  <2>1. message' = message /\ pc' = pc
    BY <1>3 DEF StopSender, Crash, Restart, ResetArrives, vars, sender
  <2> QED
    BY <2>1
<1> QED
  BY <1>1, <1>2, <1>3 DEF Next

(* What a step that receives nothing leaves alone.                         *)
LEMMA NothingReceived ==
  ASSUME TypeInv, [Next]_vars, ~(SendOk \/ SendFails)
  PROVE  \/ conns' \in Seq(Conn) /\ Len(conns') = Len(conns)
            /\ \A n \in DOMAIN conns : conns'[n].got = conns[n].got
         \/ Connect
<1>1. CASE Crash \/ ResetArrives
  BY <1>1, PeersStep
<1>2. CASE Process \/ Connected \/ ConnectFails \/ StopSender \/ Restart \/ UNCHANGED vars
  <2>1. conns' = conns /\ conns \in Seq(Conn)
    BY <1>2 DEF Process, Connected, ConnectFails, StopSender, Restart, vars, network, TypeInv
  <2> QED
    BY <2>1
<1> QED
  BY <1>1, <1>2 DEF Next

(* A step of a send adds a piece of the current message or none.           *)
LEMMA SendStep ==
  ASSUME TypeInv, SendOk \/ SendFails
  PROVE  /\ pc \in {"send", "send_body"} /\ fd \in DOMAIN conns
         /\ message' = message
         /\ \/ conns' = conns
            \/ /\ SendOk
               /\ Receive(TRUE)
               /\ Part = "body" => pc' = "idle"
            \/ Receive(FALSE)
<1>1. pc \in {"send", "send_body"} /\ message' = message
  BY DEF SendOk, SendFails
<1>2. fd \in DOMAIN conns
  BY <1>1 DEF TypeInv, TypeOK
<1>3. CASE SendOk
  BY <1>1, <1>2, <1>3 DEF SendOk, AfterSend
<1>4. CASE SendFails
  BY <1>1, <1>2, <1>4 DEF SendFails
<1> QED
  BY <1>3, <1>4

(* What was received stays received.                                       *)
LEMMA PiecesKept ==
  ASSUME TypeInv, [Next]_vars, NEW n \in DOMAIN conns, NEW k \in DOMAIN conns[n].got
  PROVE  /\ n \in DOMAIN conns' /\ k \in DOMAIN conns'[n].got
         /\ conns'[n].got[k] = conns[n].got[k]
<1>0. conns \in Seq(Conn) /\ conns[n].got \in Seq(Pieces) /\ DOMAIN conns = 1..Len(conns)
  BY ConnTypes DEF TypeInv
<1>a. ASSUME conns' \in Seq(Conn), Len(conns') = Len(conns) PROVE n \in DOMAIN conns'
  BY <1>0, <1>a
<1>1. CASE SendOk \/ SendFails
  <2>1. ASSUME NEW w \in BOOLEAN, Receive(w)
        PROVE  n \in DOMAIN conns' /\ k \in DOMAIN conns'[n].got /\ conns'[n].got[k] = conns[n].got[k]
    <3> DEFINE piece == [message |-> message, part |-> Part, whole |-> w]
    <3>1. /\ conns' \in Seq(Conn) /\ Len(conns') = Len(conns)
          /\ n # fd => conns'[n] = conns[n]
          /\ conns'[fd].got = Append(conns[fd].got, piece)
      BY <1>1, <2>1, SendStep, ReceiveStep
    <3> HIDE DEF piece
    <3>2. CASE n = fd
      <4>1. k \in DOMAIN Append(conns[n].got, piece) /\ Append(conns[n].got, piece)[k] = conns[n].got[k]
        BY <1>0
      <4> QED
        BY <1>a, <3>1, <3>2, <4>1
    <3> QED
      BY <1>a, <3>1, <3>2
  <2> QED
    BY <1>1, <2>1, SendStep
<1>2. CASE Connect
  BY <1>0, <1>2, ConnectStep
<1>3. CASE ~(SendOk \/ SendFails) /\ ~Connect
  BY <1>a, <1>3, NothingReceived
<1> QED
  BY <1>1, <1>2, <1>3

(* What is received that was not before is the last piece of the           *)
(* connection in use and part of the current message; if it completes the  *)
(* message, process() returns.                                             *)
LEMMA PiecesStep ==
  ASSUME TypeInv, [Next]_vars, NEW n \in DOMAIN conns', NEW k \in DOMAIN conns'[n].got
  PROVE  \/ /\ n \in DOMAIN conns /\ k \in DOMAIN conns[n].got
            /\ conns'[n].got[k] = conns[n].got[k]
         \/ /\ n = fd /\ fd \in DOMAIN conns /\ k = Len(conns[fd].got) + 1
            /\ pc # "idle" /\ message' = message
            /\ conns'[n].got[k].message = message
            /\ conns'[n].got[k].part = "body" /\ conns'[n].got[k].whole => pc' = "idle"
<1>0. conns \in Seq(Conn) /\ DOMAIN conns = 1..Len(conns)
  BY DEF TypeInv
<1>a. ASSUME conns' \in Seq(Conn), Len(conns') = Len(conns) PROVE n \in DOMAIN conns
  BY <1>0, <1>a
<1>1. CASE SendOk \/ SendFails
  <2>0. pc \in {"send", "send_body"} /\ fd \in DOMAIN conns /\ message' = message
    BY <1>1, SendStep
  <2>1. ASSUME NEW w \in BOOLEAN, Receive(w), Part = "body" /\ w => pc' = "idle"
        PROVE  \/ /\ n \in DOMAIN conns /\ k \in DOMAIN conns[n].got
                  /\ conns'[n].got[k] = conns[n].got[k]
               \/ /\ n = fd /\ k = Len(conns[fd].got) + 1
                  /\ conns'[n].got[k].message = message
                  /\ conns'[n].got[k].part = "body" /\ conns'[n].got[k].whole => pc' = "idle"
    <3> DEFINE piece == [message |-> message, part |-> Part, whole |-> w]
    <3>1. /\ conns' \in Seq(Conn) /\ Len(conns') = Len(conns)
          /\ \A m \in DOMAIN conns : m # fd => conns'[m] = conns[m]
          /\ conns'[fd].got = Append(conns[fd].got, piece)
      BY <2>0, <2>1, ReceiveStep
    <3>2. n \in DOMAIN conns
      BY <1>a, <3>1
    <3>3. piece.message = message /\ piece.part = Part /\ piece.whole = w
      OBVIOUS
    <3> HIDE DEF piece
    <3>4. CASE n = fd /\ k <= Len(conns[fd].got)
      <4>1. conns[fd].got \in Seq(Pieces)
        BY <1>0, <2>0, ConnTypes
      <4> QED
        BY <3>1, <3>2, <3>4, <4>1
    <3>5. CASE n = fd /\ ~(k <= Len(conns[fd].got))
      <4>1. conns[fd].got \in Seq(Pieces)
        BY <1>0, <2>0, ConnTypes
      <4>2. k = Len(conns[fd].got) + 1 /\ conns'[n].got[k] = piece
        BY <3>1, <3>5, <4>1
      <4> QED
        BY <2>1, <3>3, <3>5, <4>2, Zenon
    <3>6. CASE n # fd
      BY <3>1, <3>2, <3>6
    <3> QED
      BY <3>4, <3>5, <3>6
  <2>2. CASE conns' = conns
    BY <2>2
  <2>3. CASE SendOk /\ Receive(TRUE) /\ (Part = "body" => pc' = "idle")
    BY <2>0, <2>1, <2>3
  <2>4. CASE Receive(FALSE)
    BY <2>0, <2>1, <2>4
  <2> QED
    BY <1>1, <2>2, <2>3, <2>4, SendStep
<1>2. CASE Connect
  <2>1. n # fd'
    BY <1>2, ConnectStep
  <2> QED
    BY <1>0, <1>2, <2>1, ConnectStep
<1>3. CASE ~(SendOk \/ SendFails) /\ ~Connect
  BY <1>a, <1>3, NothingReceived
<1> QED
  BY <1>1, <1>2, <1>3

(* Every step keeps the complete messages among those process() has        *)
(* returned from.                                                          *)
LEMMA CompleteStep == TypeInv /\ CompleteInv /\ [Next]_vars => CompleteInv'
<1> SUFFICES ASSUME TypeInv, CompleteInv, [Next]_vars,
                    NEW n \in DOMAIN conns', NEW k \in DOMAIN conns'[n].got,
                    conns'[n].got[k].part = "body", conns'[n].got[k].whole
             PROVE  /\ conns'[n].got[k].message <= message'
                    /\ pc' # "idle" => conns'[n].got[k].message < message'
  BY DEF CompleteInv
<1>1. message \in Nat
  BY SenderAssumption DEF TypeInv, TypeOK
<1>2. CASE n \in DOMAIN conns /\ k \in DOMAIN conns[n].got /\ conns'[n].got[k] = conns[n].got[k]
  <2>1. /\ conns[n].got[k].message <= message
        /\ pc # "idle" => conns[n].got[k].message < message
    BY <1>2 DEF CompleteInv
  <2>2. conns[n].got[k].message \in Nat
    BY <1>2, ConnTypes, SenderAssumption DEF TypeInv, Pieces
  <2> QED
    BY <1>1, <1>2, <2>1, <2>2, MessageStep
<1>3. CASE message' = message /\ conns'[n].got[k].message = message /\ pc' = "idle"
  BY <1>1, <1>3
<1> QED
  BY <1>2, <1>3, PiecesStep

(* Every step keeps the complete messages in the order of the calls.       *)
LEMMA OrderStep ==
  TypeInv /\ NewestInv /\ CompleteInv /\ OnceInOrder /\ [Next]_vars => OnceInOrder'
<1> SUFFICES ASSUME TypeInv, NewestInv, CompleteInv, OnceInOrder, [Next]_vars,
                    NEW v \in Complete', NEW w \in Complete', Earlier(v, w)
             PROVE  MessageAt(v)' < MessageAt(w)'
  BY DEF OnceInOrder, Earlier
<1> DEFINE Old(x) == /\ x[1] \in DOMAIN conns /\ x[2] \in DOMAIN conns[x[1]].got
                     /\ conns'[x[1]].got[x[2]] = conns[x[1]].got[x[2]]
           New(x) == /\ x[1] = fd /\ fd \in DOMAIN conns /\ x[2] = Len(conns[fd].got) + 1
                     /\ pc # "idle"
                     /\ conns'[x[1]].got[x[2]].message = message
<1>0. conns \in Seq(Conn) /\ conns' \in Seq(Conn)
  BY TypeStep DEF TypeInv
<1>1. ASSUME NEW x \in Complete'
      PROVE  /\ x \in (DOMAIN conns') \X (1..(2 * MaxMessages))
             /\ x[1] \in DOMAIN conns' /\ x[2] \in DOMAIN conns'[x[1]].got
             /\ conns'[x[1]].got[x[2]].part = "body" /\ conns'[x[1]].got[x[2]].whole
  <2>1. /\ x \in (DOMAIN conns') \X (1..(2 * MaxMessages)) /\ x[2] <= Len(conns'[x[1]].got)
        /\ conns'[x[1]].got[x[2]].part = "body" /\ conns'[x[1]].got[x[2]].whole
    BY DEF Complete
  <2>2. conns'[x[1]].got \in Seq(Pieces) /\ x[1] \in DOMAIN conns' /\ x[2] \in 1..(2 * MaxMessages)
    BY <1>0, <2>1, ConnTypes
  <2> QED
    BY <2>1, <2>2, SenderAssumption
<1>2. ASSUME NEW x \in Complete' PROVE Old(x) \/ New(x)
  BY <1>1, PiecesStep
<1>3. ASSUME NEW x \in Complete', Old(x) PROVE x \in Complete
  <2>1. /\ x \in (DOMAIN conns') \X (1..(2 * MaxMessages))
        /\ conns[x[1]].got[x[2]].part = "body" /\ conns[x[1]].got[x[2]].whole
    BY <1>1, <1>3
  <2>2. conns[x[1]].got \in Seq(Pieces)
    BY <1>0, <1>3, ConnTypes
  <2>3. x[2] <= Len(conns[x[1]].got) /\ x \in (DOMAIN conns) \X (1..(2 * MaxMessages))
    BY <1>3, <2>1, <2>2
  <2> QED
    BY <2>1, <2>3 DEF Complete
<1>4. CASE Old(v) /\ Old(w)
  BY <1>3, <1>4 DEF OnceInOrder, MessageAt
<1>5. CASE Old(v) /\ New(w)
  <2>1. conns[v[1]].got[v[2]].message < message
    BY <1>1, <1>5 DEF CompleteInv
  <2> QED
    BY <1>5, <2>1 DEF MessageAt
<1>6. CASE New(v)
  <2>1. fd = Len(conns) /\ conns[fd].got \in Seq(Pieces) /\ DOMAIN conns = 1..Len(conns)
        /\ Len(conns) \in Nat /\ Len(conns[fd].got) \in Nat
    BY <1>0, <1>6, ConnTypes DEF NewestInv
  <2>2. ~Old(w)
    <3> SUFFICES ASSUME Old(w) PROVE FALSE
      OBVIOUS
    <3>1. CASE v[1] < w[1]
      BY <1>6, <2>1, <3>1
    <3>2. CASE v[1] = w[1] /\ v[2] < w[2]
      BY <1>6, <2>1, <3>2
    <3> QED
      BY <3>1, <3>2 DEF Earlier
  <2>3. ~New(w)
    BY <1>6, <2>1 DEF Earlier
  <2> QED
    BY <1>2, <2>2, <2>3
<1> QED
  BY <1>2, <1>4, <1>5, <1>6

(* Every step keeps the number of pieces of a connection.                  *)
LEMMA LengthStep == TypeInv /\ LengthInv /\ [Next]_vars => LengthInv'
<1> SUFFICES ASSUME TypeInv, LengthInv, [Next]_vars PROVE LengthInv'
  OBVIOUS
<1> USE DEF LengthInv
<1>0. /\ message \in Nat /\ DOMAIN conns = 1..Len(conns) /\ Len(conns) \in Nat
      /\ fd # 0 => fd \in DOMAIN conns
      /\ conns \in Seq(Conn) /\ conns' \in Seq(Conn)
      /\ \A n \in DOMAIN conns : Len(conns[n].got) \in Nat
  <2>1. \A n \in DOMAIN conns : conns[n].got \in Seq(Pieces)
    BY ConnTypes DEF TypeInv
  <2>2. conns' \in Seq(Conn)
    <3>1. CASE Connect
      BY <3>1, ConnectStep
    <3>2. CASE SendOk \/ SendFails
      BY <3>2, SendStep, ReceiveStep DEF TypeInv
    <3> QED
      BY <3>1, <3>2, NothingReceived
  <2> QED
    BY <2>1, <2>2, SenderAssumption DEF TypeInv, TypeOK
<1>a. ASSUME pc \in {"send", "send_body"}, NEW w \in BOOLEAN, Receive(w)
      PROVE  /\ \A n \in DOMAIN conns' : n \in DOMAIN conns /\ (n # fd => conns'[n] = conns[n])
             /\ Len(conns'[fd].got) = Len(conns[fd].got) + 1
  <2> DEFINE piece == [message |-> message, part |-> Part, whole |-> w]
  <2>1. /\ Len(conns') = Len(conns) /\ fd \in DOMAIN conns
        /\ \A n \in DOMAIN conns : n # fd => conns'[n] = conns[n]
        /\ conns'[fd].got = Append(conns[fd].got, piece)
    BY <1>a, ReceiveStep
  <2> HIDE DEF piece
  <2>2. conns[fd].got \in Seq(Pieces)
    BY <1>0, <2>1, ConnTypes
  <2> QED
    BY <1>0, <2>1, <2>2
<1>b. ASSUME fd # 0, pc # "idle"
      PROVE  /\ Len(conns[fd].got) + 1 <= 2 * message
             /\ pc # "send_body" => Len(conns[fd].got) + 2 <= 2 * message
  <2>1. CASE pc = "send_body"
    BY <1>0, <1>b, <2>1
  <2>2. CASE pc # "send_body"
    BY <1>0, <1>b, <2>2
  <2> QED
    BY <2>1, <2>2
<1>1. CASE Process
  BY <1>0, <1>1 DEF Process, network
<1>2. CASE Connected
  BY <1>0, <1>2 DEF Connected, network
<1>3. CASE Connect
  <2>1. /\ message' = message /\ pc' = "send" /\ message > 0
        /\ \A n \in DOMAIN conns' : n # fd' => n \in DOMAIN conns /\ conns'[n] = conns[n]
        /\ Len(conns'[fd'].got) = 0
    BY <1>0, <1>3, ConnectStep DEF Connect, TypeInv
  <2> QED
    BY <1>0, <2>1
<1>4. CASE SendOk
  <2>1. /\ message' = message /\ fd' = fd /\ fd \in DOMAIN conns /\ pc \in {"send", "send_body"}
        /\ pc' = "idle" \/ (pc' = "send_body" /\ pc = "send")
    <3>1. message' = message /\ fd \in DOMAIN conns /\ pc \in {"send", "send_body"}
      BY <1>4, SendStep
    <3>2. fd' = fd /\ pc' = IF Part = "prefix" THEN "send_body" ELSE "idle"
      BY <1>4 DEF SendOk, AfterSend
    <3> QED
      BY <3>1, <3>2 DEF Part
  <2>2. CASE conns' = conns
    <3>1. pc = "send" => Len(conns[fd].got) <= 2 * message - 1
      BY <1>0, <1>b, <2>1
    <3>2. CASE pc' = "idle"
      BY <2>1, <2>2, <3>2
    <3>3. CASE pc' = "send_body" /\ pc = "send"
      BY <2>1, <2>2, <3>1, <3>3
    <3> QED
      BY <2>1, <3>2, <3>3
  <2>3. CASE Receive(TRUE)
    <3>1. /\ \A n \in DOMAIN conns' : n \in DOMAIN conns /\ (n # fd => conns'[n] = conns[n])
          /\ Len(conns'[fd].got) = Len(conns[fd].got) + 1
      BY <1>a, <2>1, <2>3
    <3>2. Len(conns[fd].got) \in Nat /\ Len(conns[fd].got) + 1 <= 2 * message
      BY <1>0, <1>b, <2>1
    <3>3. ASSUME NEW n \in DOMAIN conns' PROVE Len(conns'[n].got) <= 2 * message
      BY <1>0, <3>1, <3>2
    <3>4. pc = "send" => Len(conns'[fd].got) <= 2 * message - 1
      BY <1>0, <1>b, <2>1, <3>1, <3>2
    <3>5. CASE pc' = "idle"
      BY <2>1, <3>3, <3>5
    <3>6. CASE pc' = "send_body" /\ pc = "send"
      BY <2>1, <3>3, <3>4, <3>6
    <3> QED
      BY <2>1, <3>5, <3>6
  <2> QED
    BY <1>4, <2>2, <2>3 DEF SendOk
<1>5. CASE SendFails
  <2>1. message' = message /\ fd' = 0 /\ fd \in DOMAIN conns /\ pc \in {"send", "send_body"}
    BY <1>5, SendStep DEF SendFails, Close
  <2>2. CASE conns' = conns
    BY <1>0, <2>1, <2>2
  <2>3. CASE Receive(FALSE)
    <3>1. /\ \A n \in DOMAIN conns' : n \in DOMAIN conns /\ (n # fd => conns'[n] = conns[n])
          /\ Len(conns'[fd].got) = Len(conns[fd].got) + 1
      BY <1>a, <2>1, <2>3
    <3>2. Len(conns[fd].got) \in Nat /\ Len(conns[fd].got) + 1 <= 2 * message
      BY <1>0, <1>b, <2>1
    <3>3. ASSUME NEW n \in DOMAIN conns' PROVE Len(conns'[n].got) <= 2 * message
      BY <1>0, <3>1, <3>2
    <3> QED
      BY <1>0, <2>1, <3>1, <3>3
  <2> QED
    BY <1>5, <2>2, <2>3 DEF SendFails
<1>6. CASE ConnectFails \/ StopSender
  BY <1>0, <1>6 DEF ConnectFails, StopSender, Close, network
<1>7. CASE Crash \/ ResetArrives
  <2>1. UNCHANGED sender
    BY <1>7 DEF Crash, ResetArrives
  <2>2. \A n \in DOMAIN conns' : n \in DOMAIN conns /\ conns'[n].got = conns[n].got
    BY <1>0, <1>7, PeersStep
  <2>3. fd # 0 => conns'[fd].got = conns[fd].got
    BY <1>0, <1>7, PeersStep
  <2> QED
    BY <2>1, <2>2, <2>3 DEF sender
<1>8. CASE Restart \/ UNCHANGED vars
  BY <1>8 DEF Restart, vars, sender, network
<1> QED
  BY <1>1, <1>2, <1>3, <1>4, <1>5, <1>6, <1>7, <1>8 DEF Next

-----------------------------------------------------------------------------
(* Delivery.                                                               *)

(* A message that was received stays received until the next call.         *)
LEMMA ReceivedKept ==
  ASSUME TypeInv, [Next]_vars, message' = message, MessageReceived
  PROVE  MessageReceived'
<1>1. PICK n \in DOMAIN conns : \E k \in DOMAIN conns[n].got :
        conns[n].got[k].part = "body" /\ conns[n].got[k].whole /\ conns[n].got[k].message = message
  BY DEF MessageReceived
<1>2. PICK k \in DOMAIN conns[n].got :
        conns[n].got[k].part = "body" /\ conns[n].got[k].whole /\ conns[n].got[k].message = message
  BY <1>1
<1>3. /\ n \in DOMAIN conns' /\ k \in DOMAIN conns'[n].got
      /\ conns'[n].got[k] = conns[n].got[k]
  BY PiecesKept
<1> QED
  BY <1>2, <1>3 DEF MessageReceived

(* A whole body received completes the current message.                    *)
LEMMA BodyReceived ==
  ASSUME TypeInv, pc \in {"send", "send_body"}, NEW w \in BOOLEAN, w, Receive(w), Part = "body",
         message' = message
  PROVE  MessageReceived'
<1> DEFINE piece == [message |-> message, part |-> Part, whole |-> w]
           k == Len(conns[fd].got) + 1
<1>1. /\ fd \in DOMAIN conns /\ conns' \in Seq(Conn) /\ Len(conns') = Len(conns)
      /\ conns'[fd].got = Append(conns[fd].got, piece)
  BY ReceiveStep
<1>2. piece.message = message /\ piece.part = "body" /\ piece.whole
  OBVIOUS
<1> HIDE DEF piece
<1>3. conns[fd].got \in Seq(Pieces) /\ conns \in Seq(Conn)
  BY <1>1, ConnTypes DEF TypeInv
<1>4. fd \in DOMAIN conns' /\ k \in DOMAIN conns'[fd].got /\ conns'[fd].got[k] = piece
  BY <1>1, <1>3
<1> HIDE DEF k
<1> QED
  BY <1>2, <1>4 DEF MessageReceived

(* Every step of a call in which nothing unseen goes wrong leads to the    *)
(* message received.                                                       *)
LEMMA FairStep == TypeInv /\ FairInv /\ [Next]_vars => FairInv'
<1> SUFFICES ASSUME TypeInv, FairInv, [Next]_vars, fair' PROVE FairInv'
  BY DEF FairInv
<1>0. /\ server \in {service, "down"} /\ service # "down" /\ i \in 0..Tries
      /\ pc \in {"idle", "connect", "connect_stream", "send", "send_body"}
      /\ pc \in {"send", "send_body"} => fd # 0
      /\ fd # 0 => fd \in DOMAIN conns
  BY DEF TypeInv, TypeOK
<1>1. CASE Process
  <2>1. message + 1 \in 1..MaxMessages
    BY <1>1, SenderAssumption DEF Process, TypeInv, TypeOK
  <2>2. FormatMessage(message + 1) > 0
    BY <2>1, LineFits
  <2>3. pc' = "connect" /\ i' = 0 /\ UNCHANGED <<fd, conns, server, service>>
    BY <1>1, <2>2 DEF Process, network
  <2>4. server # "down" /\ (fd # 0 => conns[fd].peer # "gone")
    BY <1>1 DEF Process
  <2> QED
    BY <1>0, <2>3, <2>4 DEF FairInv
<1>2. CASE Connected
  BY <1>2 DEF Connected, FairInv, network, history
<1>3. CASE Connect
  <2>1. conns'[fd'].peer = "up"
    BY <1>3, ConnectStep
  <2>2. pc # "idle" /\ pc' = "send" /\ UNCHANGED <<server, service, fair>>
    BY <1>3 DEF Connect, history
  <2> QED
    BY <2>1, <2>2 DEF FairInv
<1>4. CASE ConnectFails
  <2>1. server # Trying /\ fair' = fair
    BY <1>4 DEF ConnectFails, Failure, history
  <2>2. pc \in {"connect", "connect_stream"} /\ fd = 0 /\ UNCHANGED <<fd, conns, server, service>>
    BY <1>4 DEF ConnectFails, network
  <2>3. server = service /\ (pc = "connect_stream" => service = "stream")
    BY <2>1, <2>2 DEF FairInv
  <2>4. Trying = "dgram" /\ service = "stream"
    BY <2>1, <2>2, <2>3 DEF Trying, TypeInv, TypeOK, Protocols
  <2>5. pc' = "connect_stream"
    BY <1>4, <2>4 DEF ConnectFails
  <2> QED
    BY <2>2, <2>3, <2>4, <2>5 DEF FairInv
<1>5. CASE SendOk
  <2>1. /\ pc \in {"send", "send_body"}
        /\ UNCHANGED <<fd, message, server, service, fair>>
        /\ pc' = IF Part = "prefix" THEN "send_body" ELSE "idle"
    BY <1>5 DEF SendOk, AfterSend, history
  <2>2. server = service /\ conns[fd].peer # "gone"
    BY <1>0, <2>1 DEF FairInv
  <2>3. conns[fd].peer = "up" /\ Receive(TRUE)
    BY <1>5, <2>2 DEF SendOk
  <2>4. conns'[fd].peer = "up"
    BY <2>1, <2>3, ReceiveStep
  <2>5. CASE Part = "prefix"
    BY <2>1, <2>2, <2>4, <2>5 DEF FairInv
  <2>6. CASE Part = "body"
    <3>1. MessageReceived'
      BY <2>1, <2>3, <2>6, BodyReceived
    <3> QED
      BY <2>1, <2>6, <3>1 DEF FairInv
  <2> QED
    BY <2>5, <2>6 DEF Part
<1>6. CASE SendFails
  <2>1. conns[fd].peer = "reset" /\ fair
    BY <1>6 DEF SendFails, Failure, history
  <2>2. pc \in {"send", "send_body"} /\ fd' = 0 /\ UNCHANGED <<server, service>>
    BY <1>6 DEF SendFails, Close
  <2>3. i = 0 /\ server = service
    BY <1>0, <2>1, <2>2 DEF FairInv
  <2>4. pc' = "connect"
    BY <1>6, <2>3 DEF SendFails, NextTry, Tries
  <2> QED
    BY <2>2, <2>3, <2>4 DEF FairInv
<1>7. CASE StopSender
  <2>1. pc = "idle" /\ fd' = 0 /\ UNCHANGED <<pc, message, fair>>
    BY <1>7 DEF StopSender, Close, history
  <2> QED
    BY <2>1, ReceivedKept DEF FairInv
<1>8. CASE Crash
  BY <1>8 DEF Crash
<1>9. CASE Restart
  <2>1. server = "down" /\ UNCHANGED <<sender, fair>>
    BY <1>9 DEF Restart, history
  <2>2. pc = "idle"
    BY <1>0, <2>1 DEF FairInv
  <2> QED
    BY <2>1, <2>2, ReceivedKept DEF FairInv, sender
<1>10. CASE ResetArrives
  <2>1. UNCHANGED <<sender, server, service, fair>>
    BY <1>10 DEF ResetArrives, history
  <2>2. fd # 0 => \/ conns'[fd].peer = conns[fd].peer
                  \/ conns[fd].peer = "gone" /\ conns'[fd].peer = "reset"
    BY <1>0, <1>10, PeersStep
  <2> QED
    BY <1>0, <2>1, <2>2, ReceivedKept DEF FairInv, sender
<1>11. CASE UNCHANGED vars
  BY <1>11 DEF vars, sender, network, history, FairInv, MessageReceived
<1> QED
  BY <1>1, <1>2, <1>3, <1>4, <1>5, <1>6, <1>7, <1>8, <1>9, <1>10, <1>11 DEF Next

-----------------------------------------------------------------------------
(* The theorems.                                                           *)

(* The invariant holds of every state of process() and the server, for any *)
(* interleaving of sends, failures, crashes and restarts.                  *)
LEMMA Inductive == Spec => []IndInv
<1>1. IndInv /\ [Next]_vars => IndInv'
  BY TypeStep, NewestStep, FramingStep, CompleteStep, OrderStep, LengthStep, FairStep DEF IndInv
<1> QED
  BY InitIndInv, <1>1, PTL DEF Spec

(* process() leaves its loop after its last try and never calls ::send     *)
(* without a descriptor.                                                   *)
THEOREM TypeCorrect == Spec => []TypeOK
<1>1. IndInv => TypeOK
  BY DEF IndInv, TypeInv
<1> QED
  BY Inductive, <1>1, PTL

(* However connecting and sending fail, at most the one descriptor in use  *)
(* is open.                                                                *)
THEOREM NoLeak == Spec => []NoDescriptorLeak
<1>1. IndInv => NoDescriptorLeak
  BY DEF IndInv, NewestInv
<1> QED
  BY Inductive, <1>1, PTL

(* Of every line that fits the buffer ::send is given what snprintf put    *)
(* there and nothing behind it, and of every other more than the buffer    *)
(* has; a header that fits the margin is enough for a line to fit.         *)
THEOREM SentFits == Spec => []SentFromBuffer
<1>1. IndInv => SentFromBuffer
  BY LineFits DEF IndInv, TypeInv, SentFromBuffer
<1> QED
  BY Inductive, <1>1, PTL

(* The receiver never takes the middle of a message for the beginning of   *)
(* one, however many connections are cut in the middle of a message.       *)
THEOREM StreamFramed == Spec => []Framing
<1>1. IndInv => Framing
  BY DEF IndInv, FramingInv
<1> QED
  BY Inductive, <1>1, PTL

(* The retry of process() duplicates and reorders nothing.                 *)
THEOREM SentOnceInOrder == Spec => []OnceInOrder
<1>1. IndInv => OnceInOrder
  BY DEF IndInv
<1> QED
  BY Inductive, <1>1, PTL

(* Two tries are enough for a message to survive the reset of an old       *)
(* connection.                                                             *)
THEOREM ResetSurvived == Spec => []DeliveredAfterReset
<1>1. ASSUME IndInv PROVE DeliveredAfterReset
  <2> SUFFICES ASSUME pc = "idle", fair, message > 0
               PROVE  \E w \in Complete : MessageAt(w) = message
    BY DEF DeliveredAfterReset
  <2>1. MessageReceived
    BY <1>1 DEF IndInv, FairInv
  <2>2. PICK n \in DOMAIN conns : \E k \in DOMAIN conns[n].got :
        conns[n].got[k].part = "body" /\ conns[n].got[k].whole /\ conns[n].got[k].message = message
    BY <2>1 DEF MessageReceived
  <2>3. PICK k \in DOMAIN conns[n].got :
        conns[n].got[k].part = "body" /\ conns[n].got[k].whole /\ conns[n].got[k].message = message
    BY <2>2
  <2>4. conns[n].got \in Seq(Pieces)
    BY <1>1, ConnTypes DEF IndInv, TypeInv
  <2>5. Len(conns[n].got) <= 2 * message /\ message \in 0..MaxMessages
    BY <1>1 DEF IndInv, LengthInv, TypeInv, TypeOK
  <2>6. k <= Len(conns[n].got) /\ k \in 1..(2 * MaxMessages)
    BY <2>4, <2>5, SenderAssumption
  <2>7. <<n, k>> \in Complete
    BY <2>3, <2>6 DEF Complete
  <2>8. MessageAt(<<n, k>>) = message
    BY <2>3 DEF MessageAt
  <2> QED
    BY <2>7, <2>8
<1> QED
  BY Inductive, <1>1, PTL
=============================================================================
