------------------------------- MODULE Frames -------------------------------
(***************************************************************************)
(* The bytes that arrive on a connection become responses:                 *)
(* Connection::on_read and consume, ResponseMessage::decode.  A read       *)
(* returns any number of bytes, so that a frame may arrive in any number   *)
(* of pieces and a piece may hold the ends and the beginnings of frames.   *)
(*                                                                         *)
(* A byte is a digit of base Base.  A frame has a version, flags, a stream *)
(* (one byte, or two from version 3 on), an opcode, the length of its body *)
(* and its body, whose contents are in Responses.                          *)
(***************************************************************************)
EXTENDS Values

CONSTANTS
    FrameLists,     \* what a node may send on a connection: sequences of frames
    Known,          \* opcodes that allocate_body knows
    Malformed       \* bodies that their decoders refuse

VARIABLES
    frames, unread,     \* what the node sends, and the bytes not read yet
    buffer,             \* what the last read returned and consume has not decoded yet
    message,            \* response_, a ResponseMessage
    delivered,          \* the responses given to their handlers or to on_event
    closing             \* notify_error was called

vars == <<frames, unread, buffer, message, delivered, closing>>

HeaderSize(version) == (IF version >= 3 THEN 4 + 1 ELSE 4) + Int32

\* A frame in bytes, as a node writes it (external).
StreamWidth(version) == IF version >= 3 THEN 2 ELSE 1
Unsigned(n, width) == IF n < 0 THEN n + Base ^ width ELSE n
FrameBytes(f) ==
    <<f.version, f.flags>> \o Digits(Unsigned(f.stream, StreamWidth(f.version)), StreamWidth(f.version))
      \o <<f.opcode>> \o encode_int32(Len(f.body)) \o f.body

NewMessage ==
    [version |-> 0, received |-> 0, header |-> <<>>, is_header_received |-> FALSE,
     body |-> <<>>, length |-> 0, is_body_ready |-> FALSE, failed |-> FALSE]

Init ==
    /\ frames \in FrameLists
    /\ unread = FlattenSeq([i \in DOMAIN frames |-> FrameBytes(frames[i])])
    /\ buffer = <<>> /\ message = NewMessage /\ delivered = <<>> /\ closing = FALSE

\* on_read: n more bytes.
OnRead(n) ==
    /\ buffer = <<>> /\ ~closing /\ n <= Len(unread)
    /\ buffer' = SubSeq(unread, 1, n)
    /\ unread' = SubSeq(unread, n + 1, Len(unread))
    /\ UNCHANGED <<frames, message, delivered, closing>>

\* The fields of a header.
Signed(n, width) == IF n >= Base ^ width \div 2 THEN n - Base ^ width ELSE n
HeaderStream(m) ==
    Signed(Number(m.header, 3, StreamWidth(m.version)), StreamWidth(m.version))
HeaderOpcode(m) == m.header[3 + StreamWidth(m.version)]
HeaderLength(m) == decode_int32(m.header, 4 + StreamWidth(m.version))

\* decode, the part for the header: the message, and how much of input it took.
DecodeHeader(m, input) ==
    LET known == [m EXCEPT !.version = IF @ = 0 THEN input[1] ELSE @, !.received = @ + Len(input)]
        overage == known.received - HeaderSize(known.version)
        needed == Len(input) - overage
        full == [known EXCEPT !.header = @ \o SubSeq(input, 1, needed), !.is_header_received = TRUE]
    IN  IF overage < 0
        THEN [m |-> [known EXCEPT !.header = @ \o input], taken |-> Len(input), more |-> FALSE]
        ELSE [m |-> [full EXCEPT !.length = HeaderLength(full), !.failed = HeaderOpcode(full) \notin Known],
              taken |-> needed, more |-> TRUE]

\* Faulty: takes all that has arrived for the body.
DecodeBodyAll(m, input, taken) ==
    LET body == m.body \o SubSeq(input, taken + 1, Len(input))
        ready == m.received >= HeaderSize(m.version) + m.length
    IN  [m |-> [m EXCEPT !.body = body, !.is_body_ready = ready, !.failed = ready /\ body \in Malformed],
         taken |-> Len(input)]

\* decode, the part for the body.
DecodeBody(m, input, taken) ==
    LET remaining == Len(input) - taken
        overage == m.received - (HeaderSize(m.version) + m.length)
        needed == remaining - overage
    IN  IF overage < 0
        THEN [m |-> [m EXCEPT !.body = @ \o SubSeq(input, taken + 1, Len(input))], taken |-> Len(input)]
        ELSE LET body == m.body \o SubSeq(input, taken + 1, taken + needed)
             IN  [m |-> [m EXCEPT !.body = body, !.is_body_ready = TRUE, !.failed = body \in Malformed],
                  taken |-> taken + needed]

MessageDecode(m, input) ==
    LET head == IF m.is_header_received
                THEN [m |-> [m EXCEPT !.received = @ + Len(input)], taken |-> 0, more |-> TRUE]
                ELSE DecodeHeader(m, input)
    IN  IF ~head.more \/ head.m.failed THEN [m |-> head.m, taken |-> head.taken]
        ELSE DecodeBody(head.m, input, head.taken)

\* consume, one round of its loop.  A message that cannot be decoded is the
\* connection's last; a complete one goes to its handler, or to on_event.
Consume ==
    LET d == MessageDecode(message, buffer)
        m == d.m
    IN  /\ buffer # <<>>
        /\ IF m.failed
           THEN /\ closing' = TRUE /\ buffer' = <<>>
                /\ UNCHANGED <<message, delivered>>
           ELSE /\ buffer' = SubSeq(buffer, d.taken + 1, Len(buffer))
                /\ message' = IF m.is_body_ready THEN NewMessage ELSE m
                /\ delivered' = IF m.is_body_ready
                                THEN Append(delivered, [version |-> m.version, flags |-> m.header[2],
                                                        stream |-> HeaderStream(m), opcode |-> HeaderOpcode(m),
                                                        body |-> m.body])
                                ELSE delivered
                /\ UNCHANGED closing
        /\ UNCHANGED <<frames, unread>>

Next == (\E n \in 1..Len(unread) : OnRead(n)) \/ Consume

Spec == Init /\ [][Next]_vars
-----------------------------------------------------------------------------
\* However the bytes are split between reads, the driver gets the frames the
\* node sent, whole and in their order, and nothing from a frame on that it does
\* not know or cannot decode; when everything was read, it has them all.
FramesReassembled ==
    /\ IsPrefix(delivered, frames)
    /\ closing => LET f == frames[Len(delivered) + 1] IN f.opcode \notin Known \/ f.body \in Malformed
    /\ unread = <<>> /\ buffer = <<>> /\ ~closing => delivered = frames
=============================================================================
