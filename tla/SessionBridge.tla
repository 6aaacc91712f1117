----------------------------- MODULE SessionBridge -----------------------------
(***************************************************************************)
(* The video path of one session: SessionBridge (bridge.js) fans the       *)
(* packets of the device out to its sockets, and each browser (app.js)     *)
(* feeds what it receives to a WebCodecs decoder.                          *)
(*                                                                         *)
(* A packet is its kind and its epoch, the number of parameter sets the    *)
(* encoder has sent; a message also says, for the properties only, if the  *)
(* packet just before it in the stream was sent to the same socket.        *)
(***************************************************************************)
EXTENDS Integers, Sequences, SequencesExt

CONSTANTS
    Viewer,       \* browsers
    MaxEpoch,     \* bound on the parameter sets the encoder sends
    ConfigSize, KeySize, DeltaSize,   \* bytes of a packet, by kind
    GopLimit,     \* GOP_BUFFER_LIMIT; 6 MB
    DropAbove     \* bufferedAmount above which #sendFrame() drops; 4 MB

ASSUME BridgeAssumption ==
    /\ MaxEpoch \in Nat \ {0}
    /\ {ConfigSize, KeySize, DeltaSize} \subseteq Nat \ {0}
    /\ GopLimit \in Nat /\ DropAbove \in Nat

VARIABLES
    epoch,         \* parameter sets sent by the encoder so far
    encoder,       \* kind of the last packet of the encoder, or "ended"
    configPacket,  \* epoch of SessionBridge.configPacket, NoConfig if null
    gop,           \* SessionBridge.gop
    gopBytes,      \* SessionBridge.gopBytes
    clients,       \* SessionBridge.clients
    socket,        \* each viewer's WebSocket: "out", "open" or "closing"
    queue,         \* messages in its send buffer
    upToDate,      \* history: the last packet of the stream went to the viewer
    dropped,       \* history: a packet was withheld from it since it attached
    decoder,       \* "null" (or closed), "unconfigured" or "configured"
    configBytes,   \* epoch of the parameter sets the viewer holds
    started,       \* the viewer has fed the decoder a keyframe
    misfed,        \* history: it fed the decoder something undecodable
    failed         \* history: its last configure() threw, or the decoder failed since

bridgeVars == <<configPacket, gop, gopBytes, clients>>
socketVars == <<socket, queue, upToDate, dropped>>
pageVars   == <<decoder, configBytes, started, misfed, failed>>
vars == <<epoch, encoder, bridgeVars, socketVars, pageVars>>

NoConfig == 0

Packet(kind, e) == [kind |-> kind, epoch |-> e]

Size(p) ==
    CASE p.kind = "config" -> ConfigSize
      [] p.kind = "key"    -> KeySize
      [] p.kind = "delta"  -> DeltaSize

SizeOf(ps) == FoldLeft(LAMBDA n, p : n + Size(p), 0, ps)

-----------------------------------------------------------------------------
(* SessionBridge *)

\* Faults: parameter sets that enter the buffer, or leave it as it is.
FiledWithConfig(p) ==
    CASE p.kind = "config" -> <<p>>
      [] p.kind = "key"    -> <<p>>
      [] p.kind = "delta" /\ gop = <<>> -> <<>>
      [] OTHER -> IF gopBytes + Size(p) > GopLimit THEN <<>> ELSE Append(gop, p)

FiledAcrossConfig(p) ==
    CASE p.kind = "config" -> gop
      [] p.kind = "key"    -> <<p>>
      [] p.kind = "delta" /\ gop = <<>> -> <<>>
      [] OTHER -> IF gopBytes + Size(p) > GopLimit THEN <<>> ELSE Append(gop, p)

\* The GOP buffer after #onVideo() has filed packet p.
Filed(p) ==
    CASE p.kind = "config"         -> <<>>
      [] p.kind = "key"            -> <<p>>
      [] p.kind = "delta" /\ gop = <<>> -> <<>>
      [] OTHER -> IF gopBytes + Size(p) > GopLimit THEN <<>> ELSE Append(gop, p)

\* Fault: the count is not reset with the buffer.
FiledBytesAcrossConfig(p) ==
    CASE p.kind = "config"         -> gopBytes
      [] p.kind = "key"            -> Size(p)
      [] p.kind = "delta" /\ gop = <<>> -> gopBytes
      [] OTHER -> IF gopBytes + Size(p) > GopLimit THEN 0 ELSE gopBytes + Size(p)

\* The buffer's byte count; each branch of #onVideo() maintains it.
FiledBytes(p) ==
    CASE p.kind = "config"         -> 0
      [] p.kind = "key"            -> Size(p)
      [] p.kind = "delta" /\ gop = <<>> -> gopBytes
      [] OTHER -> IF gopBytes + Size(p) > GopLimit THEN 0 ELSE gopBytes + Size(p)

\* #sendFrame() sends to v unless its socket is closing or too far behind.
Sends(v) == socket[v] = "open" /\ SizeOf(queue[v]) <= DropAbove

Message(p, follows) == [kind |-> p.kind, epoch |-> p.epoch, follows |-> follows]

OnVideo(p) ==
    /\ configPacket' = IF p.kind = "config" THEN p.epoch ELSE configPacket
    /\ gop' = Filed(p)
    /\ gopBytes' = FiledBytes(p)
    /\ queue' = [v \in Viewer |->
                    IF v \in clients /\ Sends(v)
                    THEN Append(queue[v], Message(p, upToDate[v]))
                    ELSE queue[v]]
    /\ upToDate' = [v \in Viewer |-> v \in clients /\ Sends(v)]
    /\ dropped' = [v \in Viewer |-> dropped[v] \/ (v \in clients /\ ~Sends(v))]
    /\ UNCHANGED <<clients, socket, pageVars>>

\* Fault: the frames are replayed without their parameter sets.
ReplayFrames == [i \in 1 .. Len(gop) |-> Message(gop[i], i > 1)]

\* attachTo() in the browser and attach() in the bridge: the page starts over
\* and the parameter sets and the GOP are replayed, whatever their size.
Replay ==
    IF configPacket = NoConfig THEN <<>>
    ELSE <<Message(Packet("config", configPacket), FALSE)>>
         \o [i \in 1 .. Len(gop) |-> Message(gop[i], i > 1)]

Attach(v) ==
    /\ socket[v] = "out"
    /\ clients' = clients \cup {v}
    /\ socket' = [socket EXCEPT ![v] = "open"]
    /\ queue' = [queue EXCEPT ![v] = Replay]
    /\ upToDate' = [upToDate EXCEPT ![v] = gop # <<>>]
    /\ dropped' = [dropped EXCEPT ![v] = FALSE]
    /\ decoder' = [decoder EXCEPT ![v] = "unconfigured"]
    /\ configBytes' = [configBytes EXCEPT ![v] = NoConfig]
    /\ started' = [started EXCEPT ![v] = FALSE]
    /\ misfed' = [misfed EXCEPT ![v] = FALSE]
    /\ failed' = [failed EXCEPT ![v] = FALSE]
    /\ UNCHANGED <<epoch, encoder, configPacket, gop, gopBytes>>

\* The page goes away; the 'close' handler of attach() runs later.
Leave(v) ==
    /\ socket[v] = "open"
    /\ socket' = [socket EXCEPT ![v] = "closing"]
    /\ queue' = [queue EXCEPT ![v] = <<>>]
    /\ UNCHANGED <<epoch, encoder, bridgeVars, upToDate, dropped, pageVars>>

Closed(v) ==
    /\ socket[v] = "closing" /\ queue[v] = <<>>
    /\ clients' = clients \ {v}
    /\ socket' = [socket EXCEPT ![v] = "out"]
    /\ UNCHANGED <<epoch, encoder, configPacket, gop, gopBytes, queue, upToDate,
                   dropped, pageVars>>

\* The stream's 'close' handler: every socket is closed, behind what is queued
\* for it.  The bridge stays, and later sockets attach to it all the same.
StreamEnds ==
    /\ encoder # "ended"
    /\ encoder' = "ended"
    /\ socket' = [v \in Viewer |-> IF v \in clients THEN "closing" ELSE socket[v]]
    /\ clients' = {}
    /\ UNCHANGED <<epoch, configPacket, gop, gopBytes, queue, upToDate, dropped,
                   pageVars>>

-----------------------------------------------------------------------------
(* The page *)

\* configureDecoder(): a new decoder if there is none, and configure(), which
\* starts over or throws and then leaves the decoder and `started` as they were.
Configures(v) ==
    /\ decoder' = [decoder EXCEPT ![v] = "configured"]
    /\ started' = [started EXCEPT ![v] = FALSE]
    /\ failed' = [failed EXCEPT ![v] = FALSE]

ConfigureThrows(v) ==
    /\ decoder' = [decoder EXCEPT ![v] = IF @ = "null" THEN "unconfigured" ELSE @]
    /\ failed' = [failed EXCEPT ![v] = TRUE]
    /\ UNCHANGED started

\* onBinary() on parameter sets: hold them, then configureDecoder().
OnConfig(v, m) ==
    /\ m.kind = "config"
    /\ configBytes' = [configBytes EXCEPT ![v] = m.epoch]
    /\ Configures(v) \/ ConfigureThrows(v)
    /\ UNCHANGED misfed

\* onBinary() on a frame it discards.
OnUnusable(v, m) ==
    /\ m.kind # "config"
    /\ decoder[v] # "configured" \/ (~started[v] /\ m.kind = "delta")
    /\ UNCHANGED pageVars

\* Fault: the first frame decoded may be a delta.
OnFrameOfAnyKind(v, m) ==
    /\ m.kind # "config"
    /\ decoder[v] = "configured"
    /\ started' = [started EXCEPT ![v] = TRUE]
    /\ misfed' = [misfed EXCEPT ![v] =
                    \/ @
                    \/ m.kind = "key" /\ configBytes[v] # m.epoch
                    \/ m.kind = "delta" /\ ~m.follows]
    /\ UNCHANGED <<decoder, configBytes, failed>>

\* onBinary() on a frame it decodes.  A keyframe needs the parameter sets of
\* its epoch, a delta the packet before it.
OnFrame(v, m) ==
    /\ m.kind = "key" \/ (m.kind = "delta" /\ started[v])
    /\ decoder[v] = "configured"
    /\ started' = [started EXCEPT ![v] = TRUE]
    /\ misfed' = [misfed EXCEPT ![v] =
                    \/ @
                    \/ m.kind = "key" /\ configBytes[v] # m.epoch
                    \/ m.kind = "delta" /\ ~m.follows]
    /\ UNCHANGED <<decoder, configBytes, failed>>

Receive(v) ==
    /\ queue[v] # <<>>
    /\ queue' = [queue EXCEPT ![v] = Tail(@)]
    /\ \/ OnConfig(v, Head(queue[v]))
       \/ OnUnusable(v, Head(queue[v]))
       \/ OnFrame(v, Head(queue[v]))
    /\ UNCHANGED <<epoch, encoder, bridgeVars, socket, upToDate, dropped>>

\* The decoder's error callback, at any time: it was misfed, its codec is not
\* supported, or it gave up on its own.  A decoder that configureDecoder() rebuilt
\* is not discarded but closed, and `started` stays.
DecoderFails(v) ==
    /\ decoder[v] = "configured" /\ socket[v] # "out"
    /\ decoder' = [decoder EXCEPT ![v] = "null"]
    /\ failed' = [failed EXCEPT ![v] = TRUE]
    /\ \/ started' = [started EXCEPT ![v] = FALSE]
       \/ UNCHANGED started
    /\ UNCHANGED <<epoch, encoder, bridgeVars, socketVars, configBytes, misfed>>

-----------------------------------------------------------------------------
(* The encoder on the device: parameter sets when it starts and whenever it *)
(* starts over (a rotation), each followed by a keyframe; then frames.      *)

SendConfig ==
    /\ encoder \notin {"config", "ended"} /\ epoch < MaxEpoch
    /\ epoch' = epoch + 1
    /\ encoder' = "config"
    /\ OnVideo(Packet("config", epoch'))

SendKey ==
    /\ encoder \notin {"none", "ended"}
    /\ encoder' = "key"
    /\ OnVideo(Packet("key", epoch))
    /\ UNCHANGED epoch

SendDelta ==
    /\ encoder \in {"key", "delta"}
    /\ encoder' = "delta"
    /\ OnVideo(Packet("delta", epoch))
    /\ UNCHANGED epoch

-----------------------------------------------------------------------------
Init ==
    /\ epoch = 0 /\ encoder = "none"
    /\ configPacket = NoConfig /\ gop = <<>> /\ gopBytes = 0
    /\ clients = {}
    /\ socket = [v \in Viewer |-> "out"]
    /\ queue = [v \in Viewer |-> <<>>]
    /\ upToDate = [v \in Viewer |-> FALSE]
    /\ dropped = [v \in Viewer |-> FALSE]
    /\ decoder = [v \in Viewer |-> "unconfigured"]
    /\ configBytes = [v \in Viewer |-> NoConfig]
    /\ started = [v \in Viewer |-> FALSE]
    /\ misfed = [v \in Viewer |-> FALSE]
    /\ failed = [v \in Viewer |-> FALSE]

Next ==
    \/ SendConfig
    \/ SendKey
    \/ SendDelta
    \/ StreamEnds
    \/ \E v \in Viewer : Attach(v)
    \/ \E v \in Viewer : Leave(v)
    \/ \E v \in Viewer : Closed(v)
    \/ \E v \in Viewer : Receive(v)
    \/ \E v \in Viewer : DecoderFails(v)

Spec == Init /\ [][Next]_vars

\* The network delivers, and the encoder keeps sending keyframes.
Fairness ==
    /\ WF_vars(SendKey)
    /\ \A v \in Viewer : WF_vars(Receive(v)) /\ WF_vars(Closed(v))

FairSpec == Spec /\ Fairness

-----------------------------------------------------------------------------
(* Properties *)

TypeOK ==
    /\ epoch \in 0 .. MaxEpoch
    /\ encoder \in {"none", "config", "key", "delta", "ended"}
    /\ configPacket \in 0 .. MaxEpoch
    /\ gop \in Seq([kind : {"key", "delta"}, epoch : 1 .. MaxEpoch])
    /\ gopBytes \in Nat
    /\ clients \subseteq Viewer
    /\ socket \in [Viewer -> {"out", "open", "closing"}]
    /\ queue \in [Viewer -> Seq([kind : {"config", "key", "delta"},
                                 epoch : 1 .. MaxEpoch, follows : BOOLEAN])]
    /\ upToDate \in [Viewer -> BOOLEAN] /\ dropped \in [Viewer -> BOOLEAN]
    /\ decoder \in [Viewer -> {"null", "unconfigured", "configured"}]
    /\ configBytes \in [Viewer -> 0 .. MaxEpoch]
    /\ started \in [Viewer -> BOOLEAN] /\ misfed \in [Viewer -> BOOLEAN]
    /\ failed \in [Viewer -> BOOLEAN]

\* What attach() would replay now decodes from its first frame on: the buffer
\* is empty or one keyframe and then deltas, all under the parameter sets held.
GopDecodable ==
    \A i \in DOMAIN gop : /\ gop[i].epoch = configPacket
                          /\ gop[i].kind = "key" <=> i = 1

\* The byte count tracks the buffer, which stays within its limit but for a
\* single keyframe.
GopBounded ==
    /\ gopBytes = SizeOf(gop)
    /\ Len(gop) > 1 => gopBytes <= GopLimit

\* Joining at any moment, in the middle of a GOP or of a rotation, never makes
\* the page feed its decoder something undecodable: only dropping does.
MisfedOnlyByDrops == \A v \in Viewer : misfed[v] => dropped[v]

\* A page that has been sent everything holds, once its queue is empty, the
\* parameter sets the bridge holds; and it decodes unless it lacks a keyframe, or
\* the browser failed it: configure() threw on those sets, or the decoder reported
\* an error after them.  A failure under earlier sets leaves nothing behind.
CaughtUp ==
    \A v \in Viewer :
        socket[v] = "open" /\ ~dropped[v] /\ queue[v] = <<>> /\ configPacket # NoConfig
            => /\ configBytes[v] = configPacket
               /\ \/ failed[v]
                  \/ decoder[v] = "configured" /\ (gop # <<>> => started[v])

-----------------------------------------------------------------------------
(* What comments and documents of the repository say, and the code does not *)

\* app.js: "Recover rather than die: drop the decoder and rebuild on the next
\* config packet the server sends."  No such packet need ever come, however long
\* the stream goes on.
DecoderRecovers ==
    \A v \in Viewer :
        decoder[v] = "null"
            ~> decoder[v] # "null" \/ socket[v] # "open" \/ encoder = "ended"
=============================================================================
