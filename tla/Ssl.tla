-------------------------------- MODULE Ssl --------------------------------
(***************************************************************************)
(* A connection over SSL: the handshake, the encrypted writes and reads    *)
(* (connection.cpp), the two ring buffers between the socket and OpenSSL,  *)
(* and the verification of the peer's certificate (ssl_openssl_impl.cpp).  *)
(*                                                                         *)
(* OpenSSL is external: it drains what it reads, and its output is the     *)
(* bytes 1, 2, 3, ... in their order; so is what the server sends.  libuv  *)
(* reads the memory that a write points to at any time until it reports    *)
(* the write.                                                              *)
(***************************************************************************)
EXTENDS RingBuffer

CONSTANTS
    Flights,        \* the handshake: what it needs from the server, and what it then sends
    MaxBuffer,      \* SslHandshakeWriter::MAX_BUFFER_SIZE
    WriteSize,      \* SSL_WRITE_SIZE
    Overhead,       \* bytes that OpenSSL adds to a record
    Sizes,          \* of requests
    ReadSizes,      \* with which OpenSSL may read
    MaxIn, MaxOut, MaxQueued,   \* bounds: bytes each way, writes at a time
    Prompt,         \* the socket takes the bytes of a handshake at once
    Certificates, VerifyFlags, AddressOfPeer

VARIABLES
    incoming, outgoing,     \* the ring buffers
    flight, needed,         \* of the handshake: the next flight, and what it still needs
    arrived, plain,         \* bytes the server has sent and this side has read; those OpenSSL got
    produced, wire,         \* bytes that OpenSSL has put out; those the socket has sent
    queue,                  \* uv_write requests, in their order
    status,                 \* of the connection
    cert, flags             \* of the peer; what to verify

vars == <<incoming, outgoing, flight, needed, arrived, plain, produced, wire, queue, status, cert, flags>>

Numbered(from, n) == [i \in 1..n |-> from + i]
NoCert == [present |-> FALSE]
NoSAN == <<"no SAN">>
-----------------------------------------------------------------------------
(* Verification *)

\* match_subject_alt_names: a malformed address ends the search.
match_subject_alt_names(c) ==
    LET decided == {i \in DOMAIN c.sans : c.sans[i] \in {AddressOfPeer, "malformed"}}
    IN  IF c.sans = NoSAN THEN "NO_SAN_PRESENT"
        ELSE IF decided = {} THEN "NO_MATCH"
        ELSE IF c.sans[Min(decided)] = "malformed" THEN "INVALID_CERT" ELSE "MATCH"

\* match_common_name: the loop over the common names goes on as long as their
\* place in the subject (from 0 on) is greater than 0.
match_common_name(c) ==
    LET places == {i \in DOMAIN c.subject : c.subject[i].type = "CN"}
    IN  IF places # {} /\ Min(places) > 1 /\ \E i \in places : c.subject[i].value = AddressOfPeer
        THEN "MATCH" ELSE "NO_MATCH"

match(c) == IF match_subject_alt_names(c) = "NO_SAN_PRESENT" THEN match_common_name(c) ELSE match_subject_alt_names(c)

\* Faulty: asks for the identity only when the certificate is not verified.
VerifyOne(c, f) ==
    CASE f = {} -> "OK"
      [] f # {} /\ ~c.present -> "NO_PEER_CERT"
      [] f # {} /\ c.present /\ "PEER_CERT" \in f -> IF c.valid THEN "OK" ELSE "INVALID_PEER_CERT"
      [] f # {} /\ c.present /\ "PEER_CERT" \notin f -> IF match(c) = "MATCH" THEN "OK" ELSE "IDENTITY_MISMATCH"

verify(c, f) ==
    CASE f = {} -> "OK"
      [] f # {} /\ ~c.present -> "NO_PEER_CERT"
      [] f # {} /\ c.present /\ "PEER_CERT" \in f /\ ~c.valid -> "INVALID_PEER_CERT"
      [] f # {} /\ c.present /\ ("PEER_CERT" \in f => c.valid) ->
            IF "PEER_IDENTITY" \notin f THEN "OK"
            ELSE CASE match(c) = "MATCH" -> "OK"
                   [] match(c) = "INVALID_CERT" -> "INVALID_PEER_CERT"
                   [] OTHER -> "IDENTITY_MISMATCH"
-----------------------------------------------------------------------------
(* OpenSSL, external *)

\* RingBufferBio::read, until there is nothing left.
RECURSIVE Drain(_, _, _)
Drain(rb, size, out) ==
    IF rb.length = 0 \/ rb.broken THEN [rb |-> rb, out |-> out]
    ELSE LET r == read(rb, size) IN Drain(r.rb, size, out \o r.out)

\* RingBufferBio::write of each record of a request.
Records(size) == [i \in 1..(size + WriteSize - 1) \div WriteSize |->
                    Min({WriteSize, size - (i - 1) * WriteSize}) + Overhead]

RECURSIVE WriteRecords(_, _, _)
WriteRecords(rb, from, records) ==
    IF records = <<>> THEN [rb |-> rb, produced |-> from]
    ELSE WriteRecords(write(rb, Numbered(from, Head(records))), from + Head(records), Tail(records))
-----------------------------------------------------------------------------
Init ==
    /\ incoming = NewRingBuffer /\ outgoing = NewRingBuffer
    /\ flight = 1 /\ needed = Flights[1].needs
    /\ arrived = 0 /\ plain = <<>> /\ produced = 0 /\ wire = <<>> /\ queue = <<>>
    /\ status = "connecting"
    /\ cert \in Certificates /\ flags \in VerifyFlags

HandshakeDone == flight > Len(Flights)

\* ssl_handshake, after "got" came in: OpenSSL puts out the next flight when
\* it has what it needs; SslHandshakeWriter points libuv to the caller's buffer.
ssl_handshake(got, now) ==
    LET complete == needed = Len(got)
        out == IF complete THEN Flights[flight].sends ELSE 0
        sent == read(write(outgoing, Numbered(produced, out)), MaxBuffer)
        done == complete /\ flight = Len(Flights)
    IN  /\ needed' = IF ~complete THEN needed - Len(got) ELSE IF done THEN 0 ELSE Flights[flight + 1].needs
        /\ flight' = IF complete THEN flight + 1 ELSE flight
        /\ produced' = produced + out
        /\ outgoing' = sent.rb
        /\ queue' = IF sent.out = <<>> THEN queue
                    ELSE Append(queue, [type |-> "handshake", size |-> Len(sent.out), written |-> now])
        /\ wire' = IF now THEN wire \o sent.out ELSE wire
        /\ status' = IF ~done THEN "handshaking" ELSE IF verify(cert, flags) = "OK" THEN "connected" ELSE "closing"

\* on_connect.
OnConnect ==
    /\ status = "connecting"
    /\ \E now \in {TRUE, Prompt} : ssl_handshake(<<>>, now)
    /\ UNCHANGED <<incoming, arrived, plain, cert, flags>>

\* What the server may send by now.
ServerSends ==
    IF HandshakeDone THEN MaxIn - arrived
    ELSE IF Len(wire) = produced THEN needed ELSE 0

\* alloc_buffer_ssl and on_read_ssl.
OnReadSsl(n, size) ==
    /\ status \in {"handshaking", "connected"}
    /\ n <= ServerSends /\ n <= Writable(incoming)
    /\ LET drained == Drain(commit(incoming, Numbered(arrived, n)), size, <<>>)
       IN  /\ incoming' = drained.rb
           /\ plain' = plain \o drained.out
           /\ IF HandshakeDone THEN UNCHANGED <<outgoing, flight, needed, produced, wire, queue, status>>
              ELSE \E now \in {TRUE, Prompt} : ssl_handshake(drained.out, now)
    /\ arrived' = arrived + n
    /\ UNCHANGED <<cert, flags>>

\* Faulty: writes all that is in the ring buffer, not only what was added.
FlushAll(size, encrypted) ==
    LET records == Records(size)
        start == [buf |-> outgoing.read_head, pos |-> outgoing.bufs[outgoing.read_head].read_pos]
        w == WriteRecords(outgoing, produced, SubSeq(records, 1, encrypted))
        chunks == peek_multiple(w.rb, start.buf, start.pos)
    IN  /\ status = "connected" /\ Len(queue) < MaxQueued
        /\ encrypted <= Len(records) /\ w.produced <= MaxOut
        /\ outgoing' = w.rb /\ produced' = w.produced
        /\ queue' = Append(queue, [type |-> "request", size |-> PeekedSize(chunks), chunks |-> chunks, written |-> FALSE])
        /\ status' = IF encrypted < Len(records) THEN "closing" ELSE status
        /\ UNCHANGED <<incoming, flight, needed, arrived, plain, wire, cert, flags>>

\* PendingWriteSsl::flush: encrypt, up to the record that cannot be, then
\* write what was added to the ring buffer.
Flush(size, encrypted) ==
    LET records == Records(size)
        start == write_position(outgoing)
        w == WriteRecords(outgoing, produced, SubSeq(records, 1, encrypted))
        chunks == peek_multiple(w.rb, start.buf, start.pos)
    IN  /\ status = "connected" /\ Len(queue) < MaxQueued
        /\ encrypted <= Len(records) /\ w.produced <= MaxOut
        /\ outgoing' = w.rb /\ produced' = w.produced
        /\ queue' = Append(queue, [type |-> "request", size |-> PeekedSize(chunks), chunks |-> chunks, written |-> FALSE])
        /\ status' = IF encrypted < Len(records) THEN "closing" ELSE status
        /\ UNCHANGED <<incoming, flight, needed, arrived, plain, wire, cert, flags>>

Unwritten == {i \in DOMAIN queue : ~queue[i].written}

\* The socket takes the bytes of the next write (external); the buffer of a
\* handshake is gone by then.
SocketSends ==
    /\ Unwritten # {}
    /\ LET i == Min(Unwritten)
           bytes == IF queue[i].type = "handshake" THEN [j \in 1..queue[i].size |-> Nothing]
                    ELSE FlattenSeq([c \in DOMAIN queue[i].chunks |-> Contents(outgoing, queue[i].chunks[c])])
       IN  wire' = wire \o bytes /\ queue' = [queue EXCEPT ![i].written = TRUE]
    /\ UNCHANGED <<incoming, outgoing, flight, needed, arrived, plain, produced, status, cert, flags>>

\* PendingWriteSsl::on_write and SslHandshakeWriter::on_write, without an error.
OnWrite ==
    /\ queue # <<>> /\ queue[1].written /\ status # "closing"
    /\ queue' = Tail(queue)
    /\ outgoing' = IF queue[1].type = "request" THEN read(outgoing, queue[1].size).rb ELSE outgoing
    /\ UNCHANGED <<incoming, flight, needed, arrived, plain, produced, wire, status, cert, flags>>

\* A read or write error, an error of OpenSSL, a timeout.
Fails ==
    /\ status # "closing" /\ status' = "closing"
    /\ UNCHANGED <<incoming, outgoing, flight, needed, arrived, plain, produced, wire, queue, cert, flags>>

Next ==
    \/ OnConnect
    \/ \E n \in 1..BufferLength, size \in ReadSizes : OnReadSsl(n, size)
    \/ \E size \in Sizes, encrypted \in 0..MaxOut : Flush(size, encrypted)
    \/ SocketSends \/ OnWrite \/ Fails

Spec == Init /\ [][Next]_vars
-----------------------------------------------------------------------------
QueuedSize == FoldLeft(LAMBDA total, w : total + (IF w.type = "request" THEN w.size ELSE 0), 0, queue)

\* The socket sends what OpenSSL put out, in its order, although it reads the
\* ring buffer when it likes and other requests are encrypted meanwhile; the
\* ring buffer holds what was not yet reported as written, no more; and what
\* the server sends reaches OpenSSL in its order, in whatever pieces it comes.
EncryptedIntact ==
    /\ ~incoming.broken /\ ~outgoing.broken
    /\ IsPrefix(wire, Numbered(0, produced))
    /\ status # "closing" => outgoing.length = QueuedSize
    /\ plain = Numbered(0, arrived)

\* A certificate that stands for the peer, as far as the flags ask.
Trusted ==
    /\ flags # {} => cert.present
    /\ "PEER_CERT" \in flags => cert.valid
    /\ "PEER_IDENTITY" \in flags =>
          \/ AddressOfPeer \in ToSet(cert.sans)
          \/ cert.sans = NoSAN /\ [type |-> "CN", value |-> AddressOfPeer] \in ToSet(cert.subject)

HandshakeBytes == FoldLeft(LAMBDA total, f : total + f.sends, 0, Flights)

\* Nothing but the handshake leaves for a peer whose certificate does not
\* stand for it.
SecuredBeforeUse == Len(wire) > HandshakeBytes \/ status = "connected" => Trusted
=============================================================================
