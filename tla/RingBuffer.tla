----------------------------- MODULE RingBuffer -----------------------------
(***************************************************************************)
(* rb::RingBuffer (ring_buffer.cpp): a queue of bytes in a ring of buffers *)
(* of BufferLength bytes each.  A ring buffer is a record: its buffers,    *)
(* the two heads and length_.  Memory that was deleted is not in "bufs"    *)
(* any more; "broken" says that an assertion failed or that a loop does    *)
(* not end.                                                                *)
(***************************************************************************)
EXTENDS Integers, Sequences, FiniteSets, FiniteSetsExt, SequencesExt, TLC

CONSTANT BufferLength

Nothing == 0        \* a byte that was not written

NewBuffer(next) == [read_pos |-> 0, write_pos |-> 0, next |-> next, data |-> [i \in 1..BufferLength |-> Nothing]]
First == 1          \* head_, the buffer that is part of the object

NewRingBuffer ==
    [bufs |-> (First :> NewBuffer(First)), length |-> 0, read_head |-> First, write_head |-> First, broken |-> FALSE]

Check(rb, condition) == [rb EXCEPT !.broken = @ \/ ~condition]

RECURSIVE try_move_read_head(_)
try_move_read_head(rb) ==
    LET buf == rb.bufs[rb.read_head]
        reset == [rb EXCEPT !.bufs[rb.read_head] = [buf EXCEPT !.read_pos = 0, !.write_pos = 0],
                            !.read_head = IF @ # rb.write_head THEN buf.next ELSE @]
    IN  IF buf.read_pos # 0 /\ buf.read_pos = buf.write_pos THEN try_move_read_head(reset) ELSE rb

\* free_empty: the buffers from the second one after the write head up to the
\* read head are deleted, but for head_.
RECURSIVE Doomed(_, _)
Doomed(rb, b) == IF b = rb.read_head THEN <<>> ELSE <<b>> \o Doomed(rb, rb.bufs[b].next)

free_empty(rb) ==
    LET child == rb.bufs[rb.write_head].next
        cur == rb.bufs[child].next
        walked == Doomed(rb, cur)
        deleted == {b \in ToSet(walked) : b # First}
        prev == IF First \in ToSet(walked) THEN First ELSE child
        kept == [b \in DOMAIN rb.bufs \ deleted |->
                    IF b = prev THEN [rb.bufs[b] EXCEPT !.next = rb.read_head]
                    ELSE IF b = child /\ prev # child THEN [rb.bufs[b] EXCEPT !.next = First]
                    ELSE rb.bufs[b]]
    IN  IF {child, cur} \cap {rb.write_head, rb.read_head} # {} THEN rb
        ELSE Check([rb EXCEPT !.bufs = kept],
                    \A b \in deleted : b # rb.write_head /\ rb.bufs[b].write_pos = rb.bufs[b].read_pos)

\* read: the bytes, and the ring buffer after them.
RECURSIVE ReadLoop(_, _, _)
ReadLoop(rb, left, out) ==
    LET buf == rb.bufs[rb.read_head]
        avail == Min({buf.write_pos - buf.read_pos, left})
        taken == SubSeq(buf.data, buf.read_pos + 1, buf.read_pos + avail)
    IN  IF left = 0 THEN [rb |-> rb, out |-> out]
        ELSE IF avail <= 0 THEN [rb |-> Check(rb, FALSE), out |-> out]
        ELSE ReadLoop(try_move_read_head([rb EXCEPT !.bufs[rb.read_head].read_pos = @ + avail]),
                      left - avail, out \o taken)

read(rb, size) ==
    LET expected == Min({rb.length, size})
        r == ReadLoop(rb, expected, <<>>)
    IN  [rb |-> free_empty([r.rb EXCEPT !.length = @ - expected]), out |-> r.out]

\* A new buffer after the write head, if that is full and the next one is in use.
try_allocate_for_write(rb) ==
    LET w == rb.bufs[rb.write_head]
        new == Min({i \in 1..Cardinality(DOMAIN rb.bufs) + 1 : i \notin DOMAIN rb.bufs})
    IN  IF w.write_pos = BufferLength /\ (w.next = rb.read_head \/ rb.bufs[w.next].write_pos # 0)
        THEN [rb EXCEPT !.bufs = (new :> NewBuffer(w.next)) @@ [@ EXCEPT ![rb.write_head].next = new]]
        ELSE rb

MoveWriteHead(rb) == try_move_read_head([rb EXCEPT !.write_head = rb.bufs[@].next])

\* Bytes put at the write head.
Put(rb, bytes) ==
    LET w == rb.bufs[rb.write_head]
    IN  Check([rb EXCEPT !.bufs[rb.write_head].write_pos = @ + Len(bytes),
                          !.bufs[rb.write_head].data =
                              [i \in 1..BufferLength |-> IF i > w.write_pos /\ i <= w.write_pos + Len(bytes)
                                                         THEN bytes[i - w.write_pos] ELSE @[i]],
                          !.length = @ + Len(bytes)],
               w.write_pos + Len(bytes) <= BufferLength)

RECURSIVE write(_, _)
write(rb, bytes) ==
    LET avail == BufferLength - rb.bufs[rb.write_head].write_pos
        n == Min({avail, Len(bytes)})
        put == Put(rb, SubSeq(bytes, 1, n))
    IN  IF n = Len(bytes) THEN put
        ELSE write(MoveWriteHead(try_allocate_for_write(put)), SubSeq(bytes, n + 1, Len(bytes)))

\* peek_writable, for a reader that offers more than there is room.
Writable(rb) == BufferLength - rb.bufs[rb.write_head].write_pos

\* commit of bytes that were put where peek_writable said.
commit(rb, bytes) ==
    LET allocated == try_allocate_for_write(Put(rb, bytes))
    IN  IF allocated.bufs[allocated.write_head].write_pos = BufferLength THEN MoveWriteHead(allocated) ELSE allocated

write_position(rb) == [buf |-> rb.write_head, pos |-> rb.bufs[rb.write_head].write_pos]

\* peek_multiple: where the bytes from a position on are.
RECURSIVE peek_multiple(_, _, _)
peek_multiple(rb, buf, offset) ==
    LET chunk == [buf |-> buf, offset |-> offset, len |-> rb.bufs[buf].write_pos - offset]
        next == rb.bufs[buf].next
    IN  IF buf = rb.write_head THEN <<chunk>>
        ELSE <<chunk>> \o peek_multiple(rb, next, rb.bufs[next].read_pos)

PeekedSize(chunks) == FoldLeft(LAMBDA total, c : total + c.len, 0, chunks)

\* What is in the memory of a chunk.
Contents(rb, chunk) ==
    [i \in 1..chunk.len |-> IF chunk.buf \in DOMAIN rb.bufs THEN rb.bufs[chunk.buf].data[chunk.offset + i] ELSE Nothing]
=============================================================================
