---------------------------- MODULE SyslogSender ----------------------------
(***************************************************************************)
(* SyslogTraceDump::process and the sockets of trace_dump.cpp it sends     *)
(* through, against a syslog server that crashes, restarts, refuses        *)
(* connections and takes part of what is sent.                             *)
(*                                                                         *)
(* A message is its number: the calls of process() are counted.  What the  *)
(* server has received on a connection is a sequence of pieces, one per    *)
(* ::send that reached it: the length prefix (TCP only) or the body of a   *)
(* message, whole or cut short.  Of the text only its length matters, and  *)
(* of the header format_message puts before it the length and the time.    *)
(***************************************************************************)
EXTENDS Integers, Sequences, FiniteSets

CONSTANTS
  MaxMessages,  \* bound on the calls of process()
  MaxCrashes,   \* bound on the crashes of the server
  MaxFailures,  \* bound on the socket calls that fail without a crash
  TraceMessageCapacity,
  Margin,       \* 8192 characters of the buffer are for the header
  HeaderSize,   \* length of the header, for RFC 5424 and without
  TextSize,     \* length of each message
  Timestamp     \* timestamp of each message, in milliseconds

ASSUME SenderAssumption ==
  /\ MaxMessages \in Nat
  /\ MaxCrashes \in Nat
  /\ MaxFailures \in Nat

(* The names of host, application and process in the header are the        *)
(* caller's and can be of any length, longer than the margin too.          *)
ASSUME FormatAssumption ==
  /\ TraceMessageCapacity \in Nat
  /\ Margin \in Nat
  /\ HeaderSize \in [BOOLEAN -> Nat \ {0}]
  /\ TextSize \in [1..MaxMessages -> 0..TraceMessageCapacity]
  /\ Timestamp \in [1..MaxMessages -> Nat]

VARIABLES
  rfc5424,      \* the format of the header
  proto,        \* "unix" or "tcp": the class of socket
  fd,           \* fd: 0 for -1, otherwise the number of its connection
  descriptors,  \* descriptors of the process open for this socket
  pc,           \* where process() is
  i,            \* the loop counter of process()
  message,      \* number of the message in or last through process()
  socket,       \* SyslogTraceDump::socket is not NULL
  server,       \* the server: "dgram" or "stream", what it listens on, or "down"
  service,      \* what the server listens on when it is up
  conns,        \* connections made: type, state of the peer, pieces received
  crashes,      \* history: number of crashes
  failures,     \* history: number of failures without a crash
  fair          \* history: nothing the code cannot see went wrong in this process()

sender == <<rfc5424, proto, fd, descriptors, pc, i, message, socket>>
network == <<server, service, conns>>
history == <<crashes, failures, fair>>
vars == <<sender, network, history>>

Protocols == {"unix", "tcp"}

Init ==
  /\ rfc5424 \in BOOLEAN
  /\ proto \in Protocols
  /\ service \in IF proto = "tcp" THEN {"stream"} ELSE {"dgram", "stream"}
  /\ server \in {service, "down"}
  /\ fd = 0
  /\ descriptors = 0
  /\ pc = "idle"
  /\ i = 0
  /\ message = 0
  /\ socket = TRUE
  /\ conns = <<>>
  /\ crashes = 0
  /\ failures = 0
  /\ fair = TRUE

-----------------------------------------------------------------------------
(* Faults, each before the definition it is a fault of.                    *)

(* The message is sent at most twice; fault: once                          *)
TriesOne == 1
Tries == 2

(* After a successful send process() leaves its loop; fault: it goes on    *)
AfterSendGoesOn == IF i + 1 < Tries THEN "connect" ELSE "idle"
AfterSend == "idle"

(* close(); fault: the descriptor is kept                                  *)
CloseNothing == UNCHANGED <<fd, descriptors>>
Close == fd' = 0 /\ descriptors' = descriptors - (IF fd = 0 THEN 0 ELSE 1)

(* The descriptors left when connect fails; fault: the new one is not      *)
(* closed                                                                  *)
DescriptorsLeaked == descriptors + 1
DescriptorsAfterFailedConnect == descriptors

-----------------------------------------------------------------------------

(* The next turn of the loop of process(); fault: the loop has no bound    *)
NextTryUnbounded ==
  /\ i' = i + 1
  /\ pc' = "connect"
NextTry ==
  /\ i' = i + 1
  /\ pc' = IF i + 1 < Tries THEN "connect" ELSE "idle"

(* The buffer format_message writes to; fault: no room for the header      *)
SyslogBufferTextOnly == TraceMessageCapacity
SyslogBufferSize == TraceMessageCapacity + Margin

(* format_message: what snprintf says the line takes, which is more than   *)
(* was written if it had to be cut, and the size to send, with the NUL     *)
LineSize(m) == HeaderSize[rfc5424] + TextSize[m]
FormatMessage(m) ==
  IF LineSize(m) = SyslogBufferSize THEN LineSize(m)
  ELSE IF LineSize(m) > 0 THEN LineSize(m) + 1 ELSE -1

(* The time in a header of RFC 5424 and in a line that                     *)
(* FileTraceDump::process prints with the same code: whole seconds and,    *)
(* unless it is zero, a decimal fraction of that many digits               *)
Fraction(ms) == [number |-> ms, digits |-> IF ms = 0 THEN 0 ELSE 6]
IsoTime(ts) == [seconds |-> ts \div 1000, fraction |-> Fraction(ts % 1000)]

(* process()                                                               *)
Process ==
  /\ pc = "idle"
  /\ socket
  /\ message < MaxMessages
  /\ message' = message + 1
  /\ i' = 0
  /\ pc' = IF FormatMessage(message') > 0 THEN "connect" ELSE "idle"
  /\ fair' = (server # "down" /\ (fd # 0 => conns[fd].peer # "gone"))
  /\ UNCHANGED <<rfc5424, proto, fd, descriptors, socket, network, crashes, failures>>

(* try_connect: already connected                                          *)
Connected ==
  /\ pc = "connect"
  /\ fd # 0
  /\ pc' = "send"
  /\ UNCHANGED <<rfc5424, proto, fd, descriptors, i, message, socket, network, history>>

(* The type of socket tried: a UNIX socket first as datagram socket.       *)
Trying == IF proto = "unix" /\ pc = "connect" THEN "dgram" ELSE "stream"

(* try_connect, try_connect_to_type: socket() and connect() succeed        *)
Connect ==
  /\ pc \in {"connect", "connect_stream"}
  /\ fd = 0
  /\ server = Trying
  /\ conns' = Append(conns, [type |-> Trying, peer |-> "up", got |-> <<>>])
  /\ fd' = Len(conns')
  /\ descriptors' = descriptors + 1
  /\ pc' = "send"
  /\ UNCHANGED <<rfc5424, proto, i, message, socket, server, service, history>>

(* A failure the sender meets although the server is there.                *)
Failure ==
  /\ failures < MaxFailures
  /\ failures' = failures + 1
  /\ fair' = FALSE
  /\ UNCHANGED crashes

(* socket() or connect() fails: close(), and for a UNIX datagram socket    *)
(* the attempt with a stream socket                                        *)
ConnectFails ==
  /\ pc \in {"connect", "connect_stream"}
  /\ fd = 0
  /\ IF server = Trying THEN Failure ELSE UNCHANGED history
  /\ descriptors' = DescriptorsAfterFailedConnect
  /\ IF Trying = "dgram" THEN pc' = "connect_stream" /\ UNCHANGED i ELSE NextTry
  /\ UNCHANGED <<rfc5424, proto, fd, message, socket, network>>

(* The piece that the next ::send writes.                                  *)
Part == IF proto = "tcp" /\ pc = "send" THEN "prefix" ELSE "body"

Receive(whole) ==
  conns' = [conns EXCEPT ![fd].got = Append(@, [message |-> message, part |-> Part,
                                                whole |-> whole])]

(* ::send returns the size it was given.  A TCP peer that is gone is not   *)
(* noticed until its reset arrives.  Of a size beyond the buffer this and  *)
(* SendFails are the outcomes as well.                                     *)
SendOk ==
  /\ pc \in {"send", "send_body"}
  /\ \/ conns[fd].peer = "up" /\ Receive(TRUE)
     \/ conns[fd].peer = "gone" /\ UNCHANGED conns
  /\ pc' = IF Part = "prefix" THEN "send_body" ELSE AfterSend
  /\ i' = IF Part = "body" /\ pc' = "connect" THEN i + 1 ELSE i
  /\ UNCHANGED <<rfc5424, proto, fd, descriptors, message, socket, server, service, history>>

(* ::send returns less or -1: close(), return false.  Part of the bytes    *)
(* may have reached the server; a datagram is sent whole or not at all.    *)
SendFails ==
  /\ pc \in {"send", "send_body"}
  /\ IF conns[fd].peer = "reset" THEN UNCHANGED history ELSE Failure
  /\ \/ conns[fd].peer = "up" /\ conns[fd].type = "stream" /\ Receive(FALSE)
     \/ UNCHANGED conns
  /\ Close
  /\ NextTry
  /\ UNCHANGED <<rfc5424, proto, message, socket, server, service>>

(* SyslogTraceDump::stop, process() having returned: socket->close();      *)
(* delete socket; socket = NULL                                            *)
StopSender ==
  /\ pc = "idle"
  /\ socket
  /\ Close
  /\ socket' = FALSE
  /\ UNCHANGED <<rfc5424, proto, pc, i, message, network, history>>

-----------------------------------------------------------------------------
(* The server and the network.                                             *)

(* The server crashes; a UNIX socket knows at once that its peer is gone.  *)
Crash ==
  /\ server # "down"
  /\ crashes < MaxCrashes
  /\ crashes' = crashes + 1
  /\ server' = "down"
  /\ conns' = [n \in DOMAIN conns |->
                 [conns[n] EXCEPT !.peer = IF @ # "up" THEN @
                                           ELSE IF proto = "tcp" THEN "gone" ELSE "reset"]]
  /\ fair' = FALSE
  /\ UNCHANGED <<sender, service, failures>>

Restart ==
  /\ server = "down"
  /\ server' = service
  /\ UNCHANGED <<sender, service, conns, history>>

(* The sender's host learns that the peer of a connection is gone.         *)
ResetArrives ==
  /\ \E n \in DOMAIN conns :
       /\ conns[n].peer = "gone"
       /\ conns' = [conns EXCEPT ![n].peer = "reset"]
  /\ UNCHANGED <<sender, server, service, history>>

Next ==
  \/ Process
  \/ Connected
  \/ Connect
  \/ ConnectFails
  \/ SendOk
  \/ SendFails
  \/ StopSender
  \/ Crash
  \/ Restart
  \/ ResetArrives

Spec == Init /\ [][Next]_vars

-----------------------------------------------------------------------------
(* Properties.                                                             *)

Pieces == [message : 1..MaxMessages, part : {"prefix", "body"}, whole : BOOLEAN]

(* The variables keep their types: in particular the loop of process() is  *)
(* left after its last try, and nothing is sent without a descriptor.      *)
TypeOK ==
  /\ proto \in Protocols
  /\ fd \in 0..Len(conns)
  /\ descriptors \in Nat
  /\ pc \in {"idle", "connect", "connect_stream", "send", "send_body"}
  /\ pc \in {"send", "send_body"} => fd # 0
  /\ i \in 0..Tries
  /\ message \in 0..MaxMessages
  /\ socket \in BOOLEAN
  /\ server \in {service, "down"}
  /\ \A n \in DOMAIN conns : /\ conns[n].peer \in {"up", "gone", "reset"}
                             /\ \A k \in DOMAIN conns[n].got : conns[n].got[k] \in Pieces
  /\ crashes \in 0..MaxCrashes
  /\ failures \in 0..MaxFailures
  /\ fair \in BOOLEAN

(* A connection never carries anything after a piece that was cut short,   *)
(* and on TCP every body follows the length prefix of the same message and *)
(* every prefix but the last is followed by its body: the receiver never   *)
(* takes the middle of a message for the beginning of one.                 *)
Framing ==
  \A n \in DOMAIN conns :
    LET got == conns[n].got
    IN \A k \in DOMAIN got :
         /\ k < Len(got) => got[k].whole
         /\ proto = "tcp" /\ k % 2 = 1 => got[k].part = "prefix"
         /\ proto = "tcp" /\ k % 2 = 0 =>
              got[k].part = "body" /\ got[k].message = got[k - 1].message

(* The complete messages received, by connection and position.             *)
Complete ==
  {w \in (DOMAIN conns) \X (1..(2 * MaxMessages)) :
     /\ w[2] <= Len(conns[w[1]].got)
     /\ conns[w[1]].got[w[2]].part = "body"
     /\ conns[w[1]].got[w[2]].whole}

MessageAt(w) == conns[w[1]].got[w[2]].message

Earlier(v, w) == v[1] < w[1] \/ (v[1] = w[1] /\ v[2] < w[2])

(* The retry duplicates nothing and reorders nothing: over all connections *)
(* the complete messages come in the order of the process() calls, each at *)
(* most once.                                                              *)
OnceInOrder ==
  \A v, w \in Complete : Earlier(v, w) => MessageAt(v) < MessageAt(w)

(* "Try twice to send the message: first time may fail because the         *)
(* connection got reset": a message is received although the connection    *)
(* was reset since the last one, provided the server is up throughout      *)
(* process(), no call fails for another reason and the reset has arrived.  *)
DeliveredAfterReset ==
  pc = "idle" /\ fair /\ message > 0 => \E w \in Complete : MessageAt(w) = message

(* What ::send is given of a line that fits the buffer, up to the one that *)
(* fills it exactly, is in the buffer and ends where snprintf put the NUL  *)
(* or would have put it; and every line fits whose header fits its margin. *)
(* Of a longer line, which names beyond the margin make, more is sent than *)
(* the buffer has.                                                         *)
SentFromBuffer ==
  pc \in {"send", "send_body"} =>
    /\ LineSize(message) <= SyslogBufferSize
         <=> FormatMessage(message) <= SyslogBufferSize
    /\ LineSize(message) <= SyslogBufferSize =>
         FormatMessage(message) - 1 = IF LineSize(message) < SyslogBufferSize
                                       THEN LineSize(message) ELSE SyslogBufferSize - 1
    /\ HeaderSize[rfc5424] <= Margin => LineSize(message) <= SyslogBufferSize

(* However often connecting or sending fails, the dump has at most the one *)
(* descriptor it uses open, and none once it is stopped.                   *)
NoDescriptorLeak == descriptors = IF fd = 0 THEN 0 ELSE 1

-----------------------------------------------------------------------------
(* What a comment claims and the code does not do.                         *)

(* An ISO 8601 time in microseconds                                        *)
Read(iso) ==
  1000000 * iso.seconds + iso.fraction.number * 10 ^ (6 - iso.fraction.digits)

(* "TIMESTAMP is ISO date": with the header of RFC 5424, which has one, a  *)
(* message that arrived carries the time it was written.                   *)
TimestampIsIso ==
  rfc5424 => \A w \in Complete :
    Read(IsoTime(Timestamp[MessageAt(w)])) = 1000 * Timestamp[MessageAt(w)]
=============================================================================
