------------------------------- MODULE TouchPath -------------------------------
(***************************************************************************)
(* The way of a touch from a page of the console to the devices it shows,  *)
(* one at a time: the pointer handlers of bindInput() and send() (app.js), *)
(* SessionBridge.#handleInput (bridge.js), ControlEncoder.touch            *)
(* (control.js) and ScrcpyStream.send (scrcpy.js).                         *)
(*                                                                         *)
(* A finger is a pointer id.  A session that is turned shows its picture   *)
(* with the width and height of its first meta message exchanged.          *)
(***************************************************************************)
EXTENDS Integers, FiniteSets

CONSTANTS
    Session, Finger,
    NoSession,    \* active = null
    Width, Grid,  \* for ToPixel: a screen's width, and parts it is divided in
    NotFinite     \* a coordinate that is no finite number

ASSUME TouchAssumption ==
    /\ NoSession \notin Session
    /\ {Width, Grid} \subseteq Nat \ {0}
    /\ NotFinite \notin Int

VARIABLES
    bridge,     \* SessionBridge: "none", "mute" before meta, "live" or "ended"
    turned,     \* sessions whose device has been rotated since
    active,     \* the session attached to
    socket,     \* its WebSocket: "connecting", "open" or "closed"
    visible,    \* its canvas is visible
    fingers,    \* fingers on the canvas, or that went down on it
    pointers,   \* those in the `pointers` of the present bindInput()
    pressed,    \* <<s, f>>: the device of s has finger f down
    lossy,      \* history: <<s, f>>: it missed f coming down
    cut,        \* history: <<s, f>>: it missed f going up
    stray       \* history: <<s, f>>: it saw f move or go up without being down

pageVars   == <<active, socket, visible>>
deviceVars == <<bridge, turned>>
touchVars  == <<pressed, lossy, cut, stray>>
vars == <<deviceVars, pageVars, fingers, pointers, touchVars>>

-----------------------------------------------------------------------------
(* ControlEncoder *)

Least(S) == CHOOSE x \in S : \A y \in S : x <= y

\* A coordinate c is c / Grid, or NotFinite: the null that JSON makes of the NaN
\* or Infinity of a canvas without size, a number too large for a double, no number.
Clamp(c) ==
    IF c = NotFinite THEN 0 ELSE IF c < 0 THEN 0 ELSE Least({c, Grid})

\* x * width, rounded, for x = k / Grid.
Scaled(k) == (2 * Width * k + Grid) \div (2 * Grid)

\* Fault: the last pixel is width.
ToPixelInclusive(c) == Least({Width, Scaled(Clamp(c))})

ToPixel(c) == Least({Width - 1, Scaled(Clamp(c))})

\* Fault: a lifted finger keeps its pressure.
EncodeAsIs(action) == [action |-> action, pressure |-> 1, turned |-> FALSE]

\* touch(), with the size of the meta message that made the encoder.
Encode(action) ==
    [action |-> action, pressure |-> IF action = "up" THEN 0 ELSE 1, turned |-> FALSE]

\* The scrcpy server drops touches for a screen of another size, and an 'up' with
\* pressure leaves the finger hovering.
Accepts(s, touch) == touch.turned = (s \in turned)
Lifts(touch) == touch.action = "cancel" \/ (touch.action = "up" /\ touch.pressure = 0)

-----------------------------------------------------------------------------
(* send() does nothing without an open WebSocket, #handleInput() before the  *)
(* meta message has made an encoder, ScrcpyStream.send() after the stream.   *)

Reaches == socket = "open" /\ bridge[active] = "live"

Touch(f, action) ==
    LET at    == {<<active, f>>}
        touch == Encode(action)
    IN  IF Reaches /\ Accepts(active, touch)
        THEN /\ pressed' = IF action = "down" THEN pressed \cup at
                           ELSE IF Lifts(touch) THEN pressed \ at ELSE pressed
             /\ stray' = IF action = "down" THEN stray \ at ELSE stray \cup (at \ pressed)
             /\ lossy' = IF action = "down" THEN lossy \ at ELSE lossy
             /\ cut' = IF action = "move" THEN cut ELSE cut \ at
        ELSE /\ lossy' = IF action = "down" THEN lossy \cup at ELSE lossy
             /\ cut' = IF action \in {"up", "cancel"} THEN cut \cup (at \cap pressed) ELSE cut
             /\ UNCHANGED <<pressed, stray>>

\* The canvas has the handlers of the present attachment.
FingerDown(f) ==
    /\ visible /\ f \notin fingers
    /\ fingers' = fingers \cup {f}
    /\ pointers' = pointers \cup {f}
    /\ Touch(f, "down")
    /\ UNCHANGED <<deviceVars, pageVars>>

FingerMoves(f) ==
    /\ visible /\ f \in fingers \cap pointers
    /\ Touch(f, "move")
    /\ UNCHANGED <<deviceVars, pageVars, fingers, pointers>>

\* lift(): the finger goes up, or the browser takes the gesture over.  A canvas
\* that is hidden hears of neither; one that has no such pointer does nothing.
FingerUp(f) ==
    /\ f \in fingers
    /\ fingers' = fingers \ {f}
    /\ IF visible /\ f \in pointers
       THEN /\ pointers' = pointers \ {f}
            /\ \E action \in {"up", "cancel"} : Touch(f, action)
       ELSE UNCHANGED <<pointers, touchVars>>
    /\ UNCHANGED <<deviceVars, pageVars>>

-----------------------------------------------------------------------------
(* The attachment *)

\* The canvas hears no more of the fingers that are down on it.
CutGestures == cut' = cut \cup {p \in pressed : p[1] = active}

\* Fault: the set of pointers outlives the attachment.
AttachToKeepingPointers(s) ==
    /\ bridge[s] # "none"
    /\ active' = s /\ socket' = "connecting" /\ visible' = TRUE
    /\ CutGestures
    /\ UNCHANGED <<deviceVars, fingers, pointers, pressed, lossy, stray>>

\* attachTo(): teardown(), and handlers that share nothing with the former ones.
AttachTo(s) ==
    /\ bridge[s] # "none"
    /\ active' = s /\ socket' = "connecting" /\ visible' = TRUE
    /\ pointers' = {}
    /\ CutGestures
    /\ UNCHANGED <<deviceVars, fingers, pressed, lossy, stray>>

\* Fault: the canvas is left visible.
TeardownVisible ==
    /\ active # NoSession
    /\ active' = NoSession /\ socket' = "closed"
    /\ pointers' = {}
    /\ CutGestures
    /\ UNCHANGED <<deviceVars, visible, fingers, pressed, lossy, stray>>

Teardown ==
    /\ active # NoSession
    /\ active' = NoSession /\ socket' = "closed" /\ visible' = FALSE
    /\ pointers' = {}
    /\ CutGestures
    /\ UNCHANGED <<deviceVars, fingers, pressed, lossy, stray>>

\* showFault() over an attachment that stays.
Hide ==
    /\ visible
    /\ visible' = FALSE
    /\ CutGestures
    /\ UNCHANGED <<deviceVars, active, socket, fingers, pointers, pressed, lossy, stray>>

\* attach() in the bridge; the socket's messages are handled from then on.
Opens ==
    /\ socket = "connecting"
    /\ socket' = IF bridge[active] = "none" THEN "closed" ELSE "open"
    /\ UNCHANGED <<deviceVars, active, visible, fingers, pointers, touchVars>>

\* Until Hide the page goes on as if nothing had happened.
Drops ==
    /\ socket \in {"connecting", "open"}
    /\ socket' = "closed"
    /\ CutGestures
    /\ UNCHANGED <<deviceVars, active, visible, fingers, pointers, pressed, lossy, stray>>

-----------------------------------------------------------------------------
(* Sessions and devices *)

BecomeReady(s) ==
    /\ bridge[s] = "none"
    /\ bridge' = [bridge EXCEPT ![s] = "mute"]
    /\ UNCHANGED <<turned, pageVars, fingers, pointers, touchVars>>

\* The 'meta' event makes the encoder.
Meta(s) ==
    /\ bridge[s] = "mute"
    /\ bridge' = [bridge EXCEPT ![s] = "live"]
    /\ UNCHANGED <<turned, pageVars, fingers, pointers, touchVars>>

\* The stream closes its sockets; what its server injected ends with it.
StreamEnds(s) ==
    /\ bridge[s] \in {"mute", "live"}
    /\ bridge' = [bridge EXCEPT ![s] = "ended"]
    /\ turned' = turned \ {s}
    /\ socket' = IF active = s /\ socket = "open" THEN "closed" ELSE socket
    /\ pressed' = {p \in pressed : p[1] # s} /\ cut' = {p \in cut : p[1] # s}
    /\ lossy' = {p \in lossy : p[1] # s} /\ stray' = {p \in stray : p[1] # s}
    /\ UNCHANGED <<active, visible, fingers, pointers>>

\* The message 'rotate', or an app of the device.
Rotate(s) ==
    /\ bridge[s] = "live"
    /\ turned' = (turned \ {s}) \cup ({s} \ turned)
    /\ UNCHANGED <<bridge, pageVars, fingers, pointers, touchVars>>

-----------------------------------------------------------------------------
Init ==
    /\ bridge = [s \in Session |-> "none"] /\ turned = {}
    /\ active = NoSession /\ socket = "closed" /\ visible = FALSE
    /\ fingers = {} /\ pointers = {}
    /\ pressed = {} /\ lossy = {} /\ cut = {} /\ stray = {}

Next ==
    \/ \E f \in Finger : FingerDown(f) \/ FingerMoves(f) \/ FingerUp(f)
    \/ \E s \in Session : AttachTo(s)
    \/ Teardown \/ Hide \/ Opens \/ Drops
    \/ \E s \in Session : BecomeReady(s) \/ Meta(s) \/ StreamEnds(s) \/ Rotate(s)

Spec == Init /\ [][Next]_vars

-----------------------------------------------------------------------------
(* Properties *)

TypeOK ==
    /\ bridge \in [Session -> {"none", "mute", "live", "ended"}]
    /\ turned \subseteq Session
    /\ active \in Session \cup {NoSession}
    /\ socket \in {"connecting", "open", "closed"}
    /\ visible \in BOOLEAN
    /\ fingers \subseteq Finger /\ pointers \subseteq Finger
    /\ pressed \subseteq Session \X Finger /\ lossy \subseteq Session \X Finger
    /\ cut \subseteq Session \X Finger /\ stray \subseteq Session \X Finger
    /\ active = NoSession => socket = "closed" /\ ~visible

\* A device sees a finger move or go up that it has not seen come down only if
\* that 'down' was lost, before the stream or after a rotation: never a finger of
\* another session, or of an earlier attachment.
StrayOnlyAfterLoss == [][stray' \ stray \subseteq lossy]_vars

\* No device is left with a finger down, unless the attachment ended or was
\* hidden, or the device was rotated, in the middle of the gesture.
NoFingerLeft ==
    \A p \in pressed :
        (p[1] = active /\ p[2] \in fingers \cap pointers) \/ p \in cut

\* Coordinates of the screen, and as far on both sides of it.
Around == -Grid .. 2 * Grid

OnScreen ==
    /\ \A c \in Around \cup {NotFinite} : ToPixel(c) \in 0 .. Width - 1
    /\ ToPixel(0) = 0 /\ ToPixel(Grid) = Width - 1 /\ ToPixel(NotFinite) = 0
    /\ \A j, k \in Around : j <= k => ToPixel(j) <= ToPixel(k)

\* To an encoder every coordinate, out of range, at an edge or not finite, meets a
\* pixel of the screen; the edges meet their own, and of two finite coordinates
\* the larger never the smaller pixel.  One that is not finite meets pixel 0, one
\* too large for a double like the others: order stops where numbers do.
PixelsOnScreen == \A s \in Session : bridge[s] = "live" => OnScreen

-----------------------------------------------------------------------------
(* What documents of the repository say, and the code does not *)

\* PROTOCOL.md: "The server scales them to device pixels using the size the
\* device reported, so window resizing, device rotation and high-DPI displays
\* need no client-side arithmetic": a finger that comes down on a session that
\* streams comes down on its device.
TouchesFollowRotation ==
    [][\A f \in fingers' \ fingers : Reaches => <<active, f>> \in pressed']_vars
=============================================================================
