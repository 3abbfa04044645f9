------------------------------ MODULE Packets ------------------------------
(***************************************************************************)
(* BiliApiUtil::Unpack, as on_read of the session calls it.  A message of  *)
(* the server holds several packets one behind the other; the body of a    *)
(* packet may be a compressed buffer of packets, which Unpack is called    *)
(* for in turn.  What comes out goes to the thread pool (CommandPool).     *)
(*                                                                         *)
(* A buffer is a sequence of cells.  A header (16 bytes) is one cell, and  *)
(* so is a body; only the replies to heartbeats are spelt out by the byte, *)
(* because Unpack looks for the bytes { and } there.                       *)
(***************************************************************************)
EXTENDS Integers, Sequences, SequencesExt

CONSTANTS
    Known,          \* the names in liveCommandMap
    Messages,       \* messages the server may send: sequences of packets
    MaxMessages     \* bound: messages in a behaviour

ASSUME BoundAssumption == MaxMessages \in Nat

\* liveCommandMap holds names of commands only.
ASSUME KnownAssumption == Known \subseteq STRING \ {"", "NONE", "OTHER"}

-----------------------------------------------------------------------------
(* What the server sends *)

\* The kinds of packets.  The name of a command may be missing, as in the
\* reply to the authentication.
Plain(cmd) == [kind |-> "plain", cmd |-> cmd]

\* A reply to a heartbeat may fail to repeat the heartbeat it answers.
Heartbeat(popularity, echo) == [kind |-> "heartbeat", popularity |-> popularity, echo |-> echo]

\* A compressed body may be damaged; bytes may follow where the stream of the
\* brotli encoder ends.
Zlib(packets, intact) == [kind |-> "zlib", packets |-> packets, intact |-> intact]
Brotli(packets, intact, trailing) ==
    [kind |-> "brotli", packets |-> packets, intact |-> intact, trailing |-> trailing]

\* A packet of another version may say that its size is 0.
Other(sized) == [kind |-> "other", sized |-> sized]

\* The popularity of the room is four bytes.  Left out are those of which a { is
\* next to a }: Unpack takes them for the echo and reads a header from the middle
\* of the reply, and past the end of the buffer when nothing follows.
Popularities ==
    {s \in Seq(STRING) : \A i \in 1..(Len(s) - 1) : ~(s[i] = "{" /\ s[i + 1] = "}")}

\* A reply without its echo has nothing behind it in its buffer: Unpack would
\* look for { and } in the text of later packets, which is not spelt out.
MuteOnlyLast(packets) ==
    \A i \in 1..(Len(packets) - 1) : packets[i].kind = "heartbeat" => packets[i].echo

\* What a compressed body holds is not compressed again.
InnerPackets ==
    [kind : {"plain"}, cmd : STRING] \cup
    [kind : {"heartbeat"}, popularity : Popularities, echo : BOOLEAN] \cup
    [kind : {"other"}, sized : BOOLEAN]
Contents == {packets \in Seq(InnerPackets) : MuteOnlyLast(packets)}
PacketsOfServer ==
    InnerPackets \cup
    [kind : {"zlib"}, packets : Contents, intact : BOOLEAN] \cup
    [kind : {"brotli"}, packets : Contents, intact : BOOLEAN, trailing : BOOLEAN]

ASSUME MessagesAssumption ==
    Messages \subseteq {packets \in Seq(PacketsOfServer) : MuteOnlyLast(packets)}

Byte(c) == [byte |-> c]
HeaderSize == 1

\* A packet: the header, then the body.
MakePack(body, version, operation) ==
    <<[totalSize |-> HeaderSize + Len(body), version |-> version,
       operation |-> operation]>> \o body

\* The body of the heartbeats do_ping sends.
PingBody == <<Byte("{"), Byte("}")>>

\* How the server puts a packet into a buffer.  The reply to a heartbeat holds
\* the popularity of the room and may repeat the body of the heartbeat, which
\* its totalSize does not count.
Encode(packet) ==
    CASE packet.kind = "plain"     -> MakePack(<<packet>>, "NormalNone", "SEND_MSG_REPLY")
      [] packet.kind = "zlib"      -> MakePack(<<packet>>, "NormalZlib", "SEND_MSG_REPLY")
      [] packet.kind = "brotli"    -> MakePack(<<packet>>, "NormalBrotli", "SEND_MSG_REPLY")
      [] packet.kind = "other"     ->
            <<[totalSize |-> IF packet.sized THEN HeaderSize + 1 ELSE 0,
               version |-> "unknown", operation |-> "SEND_MSG_REPLY"], packet>>
      [] packet.kind = "heartbeat" ->
            MakePack([i \in DOMAIN packet.popularity |-> Byte(packet.popularity[i])],
                     "HeartBeatNone", "HEARTBEAT_REPLY")
               \o (IF packet.echo THEN PingBody ELSE <<>>)
Buffer(packets) == FlattenSeq([i \in DOMAIN packets |-> Encode(packets[i])])

-----------------------------------------------------------------------------
VARIABLES
    frames,         \* the calls of Unpack under way, the innermost last: the
                    \* buffer, the position and the commands found so far
    pack,           \* what Unpack returned to on_read and is still to be added
    tasks,          \* the tasks given to the thread pool
    terminated,     \* did an exception leave the robot thread?
    sent            \* history: the packets received so far

vars == <<frames, pack, tasks, terminated, sent>>

Init ==
    /\ frames = <<>> /\ pack = <<>> /\ tasks = <<>>
    /\ terminated = FALSE
    /\ sent = <<>>

Innermost == Last(frames)
Frame(buffer) == [buffer |-> buffer, start |-> 0, temp |-> <<>>]
UnpackHeader == Innermost.buffer[Innermost.start + 1]
Body         == Innermost.buffer[Innermost.start + HeaderSize + 1]

\* Does the loop of the innermost call go on?  What UnpackHeader reads where no
\* header begins is not modelled: AtHeader says that it does not happen.
IsHeader(buffer, start) == start < Len(buffer) /\ "totalSize" \in DOMAIN buffer[start + 1]
InLoop == frames # <<>> /\ IsHeader(Innermost.buffer, Innermost.start)

\* Is it at a packet that is no heartbeat reply?
AtPacket(versions) ==
    /\ InLoop
    /\ UnpackHeader.operation # "HEARTBEAT_REPLY"
    /\ UnpackHeader.version \in versions

\* The packet is done with; commands were found in it.
NextPacket(commands) ==
    frames' = [frames EXCEPT ![Len(frames)].start = @ + UnpackHeader.totalSize,
                             ![Len(frames)].temp = @ \o commands]

-----------------------------------------------------------------------------
\* A message has been read into the buffer and on_read calls Unpack.
OnRead(packets) ==
    /\ frames = <<>> /\ pack = <<>> /\ Len(sent) < MaxMessages
    /\ sent' = Append(sent, packets)
    /\ frames' = <<Frame(Buffer(packets))>>
    /\ UNCHANGED <<pack, tasks, terminated>>

\* GetLiveCommand looks for the name of the command in the body.
GetLiveCommand(cmd) == IF cmd = "" THEN "NONE" ELSE IF cmd \in Known THEN cmd ELSE "OTHER"

UnpackBodyNoneCompress ==
    /\ AtPacket({"NormalNone", "HeartBeatNone"})
    /\ NextPacket(<<GetLiveCommand(Body.cmd)>>)
    /\ UNCHANGED <<pack, tasks, terminated, sent>>

\* The decoder reports success and is called again as long as input is left:
\* with bytes behind the end of the stream UnpackBodyBrotli never leaves its loop.
BrotliSpins == AtPacket({"NormalBrotli"}) /\ Body.intact /\ Body.trailing

\* A body that can be decompressed is unpacked by a call of Unpack of its own.
UnpackBody ==
    /\ AtPacket({"NormalZlib", "NormalBrotli"}) /\ Body.intact /\ ~BrotliSpins
    /\ frames' = Append(frames, Frame(Buffer(Body.packets)))
    /\ UNCHANGED <<pack, tasks, terminated, sent>>

\* The decompressor of boost throws; nobody catches it.
UnpackBodyZlibThrows ==
    /\ AtPacket({"NormalZlib"}) /\ ~Body.intact
    /\ terminated' = TRUE
    /\ UNCHANGED <<frames, pack, tasks, sent>>

\* The brotli decoder reports an error or asks for more input, and the packet
\* holds nothing.
UnpackBodyBrotliFails ==
    /\ AtPacket({"NormalBrotli"}) /\ ~Body.intact
    /\ NextPacket(<<>>)
    /\ UNCHANGED <<pack, tasks, terminated, sent>>

\* No case of the switch.  At a packet of size 0 the loop stays where it is.
SkipPacket ==
    /\ AtPacket({"unknown"})
    /\ NextPacket(<<>>)
    /\ UNCHANGED <<pack, tasks, terminated, sent>>

\* Faulty variant: the last two bytes are not looked at.
BracesBeforeEnd(start) ==
    {i \in start..(Len(Innermost.buffer) - 3) :
        Innermost.buffer[i + 1] = Byte("{") /\ Innermost.buffer[i + 2] = Byte("}")}

\* Positions of { and } one behind the other, from where the packet begins;
\* positions count from 0.
BracesFrom(start) ==
    {i \in start..(Len(Innermost.buffer) - 2) :
        Innermost.buffer[i + 1] = Byte("{") /\ Innermost.buffer[i + 2] = Byte("}")}

\* Faulty variant: totalSize is trusted, as for the other packets.
SkipHeartbeatBySize ==
    /\ InLoop /\ UnpackHeader.operation = "HEARTBEAT_REPLY"
    /\ NextPacket(<<>>)
    /\ UNCHANGED <<pack, tasks, terminated, sent>>

\* Of a heartbeat reply the size is not trusted: it ends behind the first {}.
\* Without one the loop stays where it is.
SkipHeartbeat ==
    /\ InLoop /\ UnpackHeader.operation = "HEARTBEAT_REPLY"
    /\ LET braces == BracesFrom(Innermost.start)
       IN  IF braces = {} THEN UNCHANGED frames
           ELSE frames' = [frames EXCEPT ![Len(frames)].start = Min(braces) + 2]
    /\ UNCHANGED <<pack, tasks, terminated, sent>>

\* Faulty variant: nothing is left out.
ReturnedUnfiltered == Innermost.temp

\* NONE and OTHER are left out.
Kept(command) == IF command \in {"NONE", "OTHER"} THEN <<>> ELSE <<command>>
KeptOf(commands) == FlattenSeq([i \in DOMAIN commands |-> Kept(commands[i])])
Returned == KeptOf(Innermost.temp)

\* Faulty variant: what was compressed comes before what came before it.
ReturnCommandsInFront ==
    /\ frames # <<>> /\ Innermost.start >= Len(Innermost.buffer)
    /\ IF Len(frames) = 1
       THEN frames' = <<>> /\ pack' = Returned
       ELSE LET outer  == frames[Len(frames) - 1]
                header == outer.buffer[outer.start + 1]
            IN  /\ frames' = Append(SubSeq(frames, 1, Len(frames) - 2),
                                    [outer EXCEPT !.start = @ + header.totalSize,
                                                  !.temp = Returned \o @])
                /\ UNCHANGED pack
    /\ UNCHANGED <<tasks, terminated, sent>>

\* The innermost call ends: the commands liveCommandMap knows go to on_read or
\* to the call around it, whose packet is then done with.
ReturnCommands ==
    /\ frames # <<>> /\ Innermost.start >= Len(Innermost.buffer)
    /\ IF Len(frames) = 1
       THEN frames' = <<>> /\ pack' = Returned
       ELSE LET outer  == frames[Len(frames) - 1]
                header == outer.buffer[outer.start + 1]
            IN  /\ frames' = Append(SubSeq(frames, 1, Len(frames) - 2),
                                    [outer EXCEPT !.start = @ + header.totalSize,
                                                  !.temp = @ \o Returned])
                /\ UNCHANGED pack
    /\ UNCHANGED <<tasks, terminated, sent>>

\* on_read gives each of them to the thread pool.
AddTask ==
    /\ frames = <<>> /\ pack # <<>>
    /\ tasks' = Append(tasks, Head(pack))
    /\ pack' = Tail(pack)
    /\ UNCHANGED <<frames, terminated, sent>>

UnpackSteps ==
    \/ UnpackBodyNoneCompress \/ UnpackBody \/ UnpackBodyZlibThrows
    \/ UnpackBodyBrotliFails \/ SkipPacket \/ SkipHeartbeat \/ ReturnCommands

Next ==
    /\ ~terminated
    /\ \/ \E packets \in Messages : OnRead(packets)
       \/ UnpackSteps \/ AddTask

Spec == Init /\ [][Next]_vars

\* The robot thread runs.
FairSpec == Spec /\ WF_vars(Next)

-----------------------------------------------------------------------------
(* Properties *)

Commands == Known \cup {"NONE", "OTHER"}
Payloads == {p.packets : p \in {q \in UNION {ToSet(m) : m \in Messages} : q.kind \in {"zlib", "brotli"}}}
Buffers == {Buffer(packets) : packets \in Messages \cup Payloads}

\* The variables keep their types; no call has moved past the end of its buffer.
TypeOK ==
    /\ frames \in Seq([buffer : Buffers, start : Nat, temp : Seq(Commands)])
    /\ \A i \in DOMAIN frames : frames[i].start <= Len(frames[i].buffer)
    /\ pack \in Seq(Known) /\ tasks \in Seq(Known)
    /\ terminated \in BOOLEAN
    /\ sent \in Seq(Messages) /\ Len(sent) <= MaxMessages

\* Every call is at the header of a packet or at the end of its buffer: the bytes
\* it takes for a header are one, behind packets that are skipped by their size
\* and replies that are skipped by their echo, in buffers of the server and in
\* decompressed ones.  It holds of the messages MessagesAssumption admits: a
\* popularity with { next to }, or a reply without its echo in front of other
\* packets, leads the code to other bytes.
AtHeader ==
    \A i \in DOMAIN frames :
        \/ IsHeader(frames[i].buffer, frames[i].start)
        \/ frames[i].start = Len(frames[i].buffer)

\* Reference: the commands of a packet that liveCommandMap knows.
KnownIn(packet) == IF packet.kind = "plain" /\ packet.cmd \in Known THEN <<packet.cmd>> ELSE <<>>
CommandsOf(packet) ==
    IF packet.kind \in {"zlib", "brotli"}
    THEN IF packet.intact
         THEN FlattenSeq([i \in DOMAIN packet.packets |-> KnownIn(packet.packets[i])])
         ELSE <<>>
    ELSE KnownIn(packet)
CommandsIn(packets) == FlattenSeq([i \in DOMAIN packets |-> CommandsOf(packets[i])])
Expected == CommandsIn(FlattenSeq(sent))

\* The thread pool gets the commands of all packets, whatever they are wrapped
\* in, once each and in the order the server put them: none too many or out of
\* order at any time, and all of them when on_read reads on.
CommandsInOrder ==
    /\ IsPrefix(tasks, Expected)
    /\ frames = <<>> /\ pack = <<>> => tasks = Expected

\* The packets at which the code has no way on: a reply without its echo, a
\* packet of size 0, a brotli body that does not end with its stream.
NoWayOn(packet) ==
    \/ packet.kind = "heartbeat" /\ ~packet.echo
    \/ packet.kind = "other" /\ ~packet.sized
    \/ packet.kind = "brotli" /\ packet.intact /\ packet.trailing
Endless(packets) ==
    \E p \in ToSet(packets) :
        \/ NoWayOn(p)
        \/ p.kind \in {"zlib", "brotli"} /\ \E q \in ToSet(p.packets) : NoWayOn(q)

\* Unpack comes to an end, so the session reads on, unless the message holds a
\* packet with no way on: then it goes round for ever, which nothing in the code
\* stops.
UnpackEnds == frames # <<>> ~> frames = <<>> \/ terminated \/ Endless(Last(sent))
=============================================================================
