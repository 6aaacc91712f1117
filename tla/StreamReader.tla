----------------------------- MODULE StreamReader -----------------------------
(***************************************************************************)
(* The video socket of one device: StreamReader (reader.js), which turns   *)
(* chunks into exact reads, and #readVideo() (scrcpy.js), which turns the  *)
(* reads into frames.                                                      *)
(*                                                                         *)
(* A byte on the wire is <<kind, n>>: <<"pre", i>> belongs to the i-th     *)
(* block of the preamble (dummy byte, device name, codec meta), <<"hdr",   *)
(* len>> to a frame header, <<"dat", k>> to the k-th frame.                *)
(*                                                                         *)
(* Node runs the continuation of a resolved promise before the next event, *)
(* so Consume goes before every event while `due` holds.  The exception is *)
(* what came in before the 'data' handler was there: the stream delivers   *)
(* it in one turn, and its 'end' too.                                      *)
(***************************************************************************)
EXTENDS Integers, Sequences, SequencesExt

CONSTANTS
    PreambleSizes,  \* lengths of the blocks before the first frame header
    HeaderSize,     \* length of a frame header; 12 bytes in the code
    Lengths,        \* payload lengths the device may announce
    MaxFrames,      \* bound on the frames of a behaviour
    MaxChunk,       \* the most a 'data' event carries
    MaxLength,      \* #readVideo()'s limit on a frame; 32 MB in the code
    PauseAbove,     \* pause() above this many buffered bytes; 16 MB
    ResumeBelow,    \* resume() below this many; 4 MB
    Resets          \* whether the connection may be reset

ASSUME ReaderAssumption ==
    /\ PreambleSizes \in Seq(Nat \ {0}) /\ PreambleSizes # <<>>
    /\ HeaderSize \in Nat \ {0}
    /\ Lengths \subseteq Nat
    /\ MaxFrames \in Nat /\ MaxChunk \in Nat \ {0} /\ MaxLength \in Nat
    /\ PauseAbove \in Nat /\ ResumeBelow \in Nat
    /\ Resets \in BOOLEAN

VARIABLES
    wire,       \* bytes the device has sent and the reader has not received
    link,       \* "open", "ended" by the device, or "reset"
    sent,       \* lengths of the frames sent
    chunks,     \* StreamReader.chunks
    buffered,   \* StreamReader.buffered
    pending,    \* StreamReader.pending.need, NoRead if there is none
    paused,     \* the socket is paused
    error,      \* StreamReader.error: "none" or the event that set it
    due,        \* a read has resolved and its continuation has not run yet
    resolved,   \* the value it resolved with
    awaits,     \* what #readVideo() is reading: "preamble", "header", ...
    block,      \* the preamble block it reads or has read last
    emitted,    \* payloads of the 'video' events
    closed      \* ScrcpyStream.closed

socketVars == <<wire, link, sent>>
vars == <<socketVars, chunks, buffered, pending, paused, error, due, resolved,
          awaits, block, emitted, closed>>

NoRead == 0

-----------------------------------------------------------------------------
(* StreamReader *)

\* Fault: what is left of a chunk is put before the chunks already kept.
TakeMisordered(cs, need) ==
    FoldLeft(LAMBDA acc, c :
                LET n == IF Len(c) <= acc.left THEN Len(c) ELSE acc.left
                IN  [left |-> acc.left - n,
                     out  |-> acc.out \o SubSeq(c, 1, n),
                     rest |-> IF n = Len(c) THEN acc.rest
                              ELSE <<SubSeq(c, n + 1, Len(c))>> \o acc.rest],
             [left |-> need, out |-> <<>>, rest |-> <<>>], cs)

\* The loop of #take(): whole chunks, then the front of the one that is left.
Take(cs, need) ==
    FoldLeft(LAMBDA acc, c :
                LET n == IF Len(c) <= acc.left THEN Len(c) ELSE acc.left
                IN  [left |-> acc.left - n,
                     out  |-> acc.out \o SubSeq(c, 1, n),
                     rest |-> IF n = Len(c) THEN acc.rest
                              ELSE Append(acc.rest, SubSeq(c, n + 1, Len(c)))],
             [left |-> need, out |-> <<>>, rest |-> <<>>], cs)

\* Fault: the byte count is not reduced.
TakeUncounted(cs, size, need) ==
    /\ chunks' = Take(cs, need).rest
    /\ buffered' = size
    /\ resolved' = Take(cs, need).out
    /\ due' = TRUE

\* #take() on the given buffer: the caller gets `out` and the socket resumes.
TakeFrom(cs, size, need) ==
    /\ chunks' = Take(cs, need).rest
    /\ buffered' = size - need
    /\ resolved' = Take(cs, need).out
    /\ due' = TRUE

\* read(need)
Read(need) ==
    IF buffered >= need
    THEN /\ TakeFrom(chunks, buffered, need)
         /\ paused' = (paused /\ buffered - need >= ResumeBelow)
         /\ UNCHANGED pending
    ELSE /\ pending' = need
         /\ due' = FALSE
         /\ UNCHANGED <<chunks, buffered, paused, resolved>>

\* In the turn of the first read the socket hands over all it has, which is
\* never near PauseAbove (Node's high-water mark is some kilobytes).
InTurn(size) == due => block = 1 /\ size <= PauseAbove

\* Fault: #settle() wants a byte too many.
SettlesLate(size) == pending # NoRead /\ size > pending

\* #settle() has a read to resolve.
Settles(size) == pending # NoRead /\ size >= pending

\* Fault: the two thresholds exchanged.
BehindEarly(size) == size > ResumeBelow

\* "The consumer has fallen a long way behind."
Behind(size) == size > PauseAbove

\* The 'data' handler: buffer the chunk, #settle(), then look at the size.
Data(n) ==
    /\ link # "reset" /\ ~paused /\ ~closed /\ InTurn(buffered + n)
    /\ n \in 1 .. MaxChunk /\ n <= Len(wire)
    /\ wire' = SubSeq(wire, n + 1, Len(wire))
    /\ LET all  == Append(chunks, SubSeq(wire, 1, n))
           size == buffered + n
       IN  IF Settles(size)
           THEN /\ TakeFrom(all, size, pending)
                /\ pending' = NoRead
                /\ paused' = Behind(size - pending)
           ELSE /\ chunks' = all /\ buffered' = size
                /\ paused' = Behind(size)
                /\ UNCHANGED <<pending, due, resolved>>
    /\ UNCHANGED <<link, sent, error, awaits, block, emitted, closed>>

\* Fault: the pending read is not rejected.
FailQuietly(event) ==
    /\ InTurn(buffered) /\ error = "none" /\ ~closed
    /\ error' = event
    /\ UNCHANGED <<socketVars, chunks, buffered, pending, paused, due, resolved,
                   awaits, block, emitted, closed>>

\* #fail(): a pending read is rejected; #readVideo() rejects, and #shutdown()
\* destroys the sockets.
Fail(event) ==
    /\ InTurn(buffered) /\ error = "none" /\ ~closed
    /\ error' = event
    /\ pending' = NoRead
    /\ closed' = ~due
    /\ awaits' = IF due THEN awaits ELSE "nothing"
    /\ UNCHANGED <<socketVars, chunks, buffered, paused, due, resolved,
                   block, emitted>>

\* 'end' comes when the last byte has been read; 'error' and 'close' at once.
SocketEnds == link = "ended" /\ wire = <<>> /\ ~paused /\ Fail("end")

SocketResets == link = "reset" /\ ~due /\ Fail("error")

\* The server process exits: #shutdown() destroys the sockets, whose 'close'
\* rejects the read.
ServerExits == Resets /\ ~due /\ Fail("close")

-----------------------------------------------------------------------------
(* #readVideo() *)

\* An implausible length makes #readVideo() throw.
Implausible(length) == length \notin 1 .. MaxLength

\* The continuation of the read that has resolved, up to its next read().
Consume ==
    /\ due
    /\ \/ /\ awaits = "preamble" /\ block < Len(PreambleSizes) /\ error = "none"
          /\ block' = block + 1
          /\ Read(PreambleSizes[block + 1])
          /\ UNCHANGED <<awaits, emitted, closed>>
       \/ /\ awaits = "preamble" /\ block = Len(PreambleSizes) /\ error = "none"
          /\ awaits' = "header"
          /\ Read(HeaderSize)
          /\ UNCHANGED <<block, emitted, closed>>
       \/ /\ awaits = "header" /\ ~Implausible(resolved[1][2]) /\ error = "none"
          /\ awaits' = "payload"
          /\ Read(resolved[1][2])
          /\ UNCHANGED <<block, emitted, closed>>
       \/ /\ awaits = "header" /\ Implausible(resolved[1][2]) /\ error = "none"
          /\ awaits' = "nothing"
          /\ closed' = TRUE
          /\ due' = FALSE
          /\ UNCHANGED <<block, emitted, chunks, buffered, pending, paused, resolved>>
       \/ /\ error # "none"            \* the next read() rejects
          /\ awaits' = "nothing"
          /\ closed' = TRUE
          /\ due' = FALSE
          /\ UNCHANGED <<block, emitted, chunks, buffered, pending, paused, resolved>>
       \/ /\ awaits = "payload" /\ error = "none"
          /\ emitted' = Append(emitted, resolved)
          /\ awaits' = "header"
          /\ Read(HeaderSize)
          /\ UNCHANGED <<block, closed>>
    /\ UNCHANGED <<socketVars, error>>

-----------------------------------------------------------------------------
(* The device *)

Bytes(kind, n, len) == [i \in 1 .. len |-> <<kind, n>>]

Preamble == FlattenSeq([i \in 1 .. Len(PreambleSizes) |->
                            Bytes("pre", i, PreambleSizes[i])])

Payload(k) == Bytes("dat", k, sent[k])

SendFrame(len) ==
    /\ link = "open" /\ Len(sent) < MaxFrames
    /\ sent' = Append(sent, len)
    /\ wire' = wire \o Bytes("hdr", len, HeaderSize) \o Bytes("dat", Len(sent) + 1, len)
    /\ UNCHANGED <<link, chunks, buffered, pending, paused, error, due, resolved,
                   awaits, block, emitted, closed>>

DeviceEnds ==
    /\ link = "open"
    /\ \/ link' = "ended" /\ UNCHANGED wire
       \/ Resets /\ link' = "reset" /\ wire' = <<>>
    /\ UNCHANGED <<sent, chunks, buffered, pending, paused, error, due, resolved,
                   awaits, block, emitted, closed>>

-----------------------------------------------------------------------------
Init ==
    /\ wire = Preamble /\ link = "open" /\ sent = <<>>
    /\ chunks = <<>> /\ buffered = 0 /\ paused = FALSE /\ error = "none"
    /\ pending = PreambleSizes[1]
    /\ due = FALSE /\ resolved = <<>>
    /\ awaits = "preamble" /\ block = 1 /\ emitted = <<>> /\ closed = FALSE

Next ==
    \/ \E n \in 1 .. MaxChunk : Data(n)
    \/ SocketEnds
    \/ SocketResets
    \/ ServerExits
    \/ Consume
    \/ \E len \in Lengths : SendFrame(len)
    \/ DeviceEnds

Spec == Init /\ [][Next]_vars

\* The event loop delivers what the kernel has; the device ends its stream
\* some day.
Fairness ==
    /\ WF_vars(\E n \in 1 .. MaxChunk : Data(n))
    /\ WF_vars(SocketEnds) /\ WF_vars(SocketResets)
    /\ WF_vars(Consume)
    /\ WF_vars(DeviceEnds)

FairSpec == Spec /\ Fairness

-----------------------------------------------------------------------------
(* Properties *)

Byte == {"pre", "hdr", "dat"} \X Nat

\* Types; and the byte count read() and #settle() decide by is that of the chunks.
TypeOK ==
    /\ wire \in Seq(Byte) /\ resolved \in Seq(Byte)
    /\ chunks \in Seq(Seq(Byte)) /\ emitted \in Seq(Seq(Byte))
    /\ link \in {"open", "ended", "reset"}
    /\ sent \in Seq(Lengths)
    /\ buffered = Len(FlattenSeq(chunks))
    /\ pending \in Nat
    /\ {paused, due, closed} \subseteq BOOLEAN
    /\ error \in {"none", "end", "error", "close"}
    /\ awaits \in {"preamble", "header", "payload", "nothing"}
    /\ block \in 1 .. Len(PreambleSizes)

\* However the bytes are cut into chunks, each frame is emitted once, in order,
\* whole and with nothing of its neighbours.
FramesIntact ==
    /\ Len(emitted) <= Len(sent)
    /\ \A k \in DOMAIN emitted : emitted[k] = Payload(k)

\* 'end' sets error, after which read() rejects whatever is buffered; no frame
\* that had arrived is lost for that, unless the stream had come and gone before
\* the reader was there.
EndLosesNoFrame == error = "end" /\ block > 1 => Len(emitted) = Len(sent)

\* The socket is paused only under a read that is longer than the pause mark:
\* no other read waits for bytes that the reader itself holds back.
NeverStarved == pending # NoRead /\ pending <= PauseAbove => ~paused

\* Such a read resolves or rejects, whatever was paused or reset meanwhile.
FittingReadsSettle == pending # NoRead /\ pending <= PauseAbove ~> pending = NoRead
=============================================================================
