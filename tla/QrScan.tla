------------------------------- MODULE QrScan -------------------------------
(***************************************************************************)
(* A scan from the tap to the session: wire_scan, start_qr_scan and        *)
(* connect_session of ale-gui/src/lib.rs, the camera thread of             *)
(* ale-gui/src/qr_scanner.rs and the listener the camera calls, and the    *)
(* scan's part of the window (ui/android-app.slint).                       *)
(*                                                                         *)
(* The threads: the UI thread (taps, tasks cut at their awaits, posted     *)
(* closures in their order), one camera thread per scan, and the camera's  *)
(* own threads (images, errors).  Module AppSession has the rest of the    *)
(* window and sees of all this one task that ends one way or another.      *)
(*                                                                         *)
(* The NDK is external: a call succeeds or fails, an object lives until it *)
(* is freed, and deleting the image reader waits for the listener to       *)
(* return.  The label of the camera and the status line are wording, which *)
(* camera is chosen is data, and poisoned locks are left out.              *)
(***************************************************************************)
EXTENDS Handshake, ScanGeometry

CONSTANTS
    NoScan,
    Codes,          \* the codes a camera may see: [at (a pixel), link]
    Orientation,    \* of the sensor
    Layouts,        \* the layout of the window for each rotation of the display
    PreviewEvery,   \* one image in so many is shown: 6 in the source
    MaxTurns,       \* bound: times the display is turned, each during a scan
    MaxPosted       \* bound: closures posted to the event loop and not run; with
                    \* so many the camera has no image

ASSUME ScansAssumption == Scans \subseteq Nat \ {0} /\ NoScan \notin Scans
ASSUME CodesAssumption == \A c \in Codes : c.at \in Nat \X Nat
ASSUME OrientationAssumption == Orientation \in Rotations
ASSUME LayoutsAssumption ==
    /\ 0 \in DOMAIN Layouts /\ DOMAIN Layouts \subseteq Rotations
    /\ \A d \in DOMAIN Layouts : Layouts[d] \in [width : Int, height : Int, box : Int]
ASSUME BoundsAssumption == PreviewEvery \in Nat \ {0} /\ MaxTurns \in Nat /\ MaxPosted \in Nat

VARIABLES
    slot,           \* qr_scan_cancel: the scan whose token it holds
    cancelled,      \* the scans whose token is set
    window,         \* what the window shows and holds of a scan
    display,        \* the rotation of the display
    turns,          \* how often it was turned
    stage,          \* per scan: where its task or its thread is
    gate,           \* CAMERA_GATE: the scan that holds it
    held,           \* per scan: what it holds of the camera
    region,         \* per scan: ScanRegion, what the listener decodes
    registered,     \* the scan whose region on_scan_geometry_changed fills
    image,          \* per scan: the rotation of the image in the listener's hands
    seen,           \* per scan: images seen, modulo PreviewEvery
    found,          \* per scan: the code whose info the listener sent
    result,         \* per scan: what the thread returns
    posted          \* closures in the event loop's queue

scanVars == <<slot, cancelled, stage>>
cameraVars == <<gate, held, image, seen, found, result>>
viewVars == <<display, turns, region, registered>>
vars == <<scanVars, cameraVars, viewVars, window, posted, linkVars>>

NoRotation == 360
NoRegion == [layout |-> UnsetLayout, rotation |-> 0]    \* ScanRegion::default()

Init ==
    /\ HandshakeInit
    /\ slot = NoScan
    /\ cancelled = {}
    /\ display = 0
    /\ window = [busy |-> FALSE, scanning |-> FALSE, connected |-> FALSE,
                 preview |-> NoRotation, layout |-> Layouts[display], told |-> TRUE]
    /\ turns = 0
    /\ stage = [s \in Scans |-> "none"]
    /\ gate = NoScan
    /\ held = [s \in Scans |-> {}]
    /\ region = [s \in Scans |-> NoRegion]
    /\ registered = NoScan
    /\ image = [s \in Scans |-> NoRotation]
    /\ seen = [s \in Scans |-> 0]
    /\ found = [s \in Scans |-> {}]
    /\ result = [s \in Scans |-> {}]
    /\ posted = <<>>

At(s, where) == stage[s] = where
Goes(s, where) == stage' = [stage EXCEPT ![s] = where]
Cancelled(s) == s \in cancelled

-----------------------------------------------------------------------------
(* wire_scan.                                                              *)

\* The token of the new scan takes the place of the last one, which is set even if
\* its scan ended long ago.  The application is in the foreground: it is tapped.
TapScan(s) ==
    /\ At(s, "none") /\ \A r \in Scans : r < s => ~At(r, "none")
    /\ ~window.connected /\ ~window.busy
    /\ window' = [window EXCEPT !.busy = TRUE]
    /\ slot' = s
    /\ cancelled' = cancelled \cup ({slot} \ {NoScan})
    /\ Goes(s, "permission")
    /\ UNCHANGED <<cameraVars, viewVars, posted, linkVars>>

\* The button, the back key, another page, or the background.
CancelRemoteScan ==
    /\ ~window.connected
    /\ slot' = NoScan
    /\ cancelled' = cancelled \cup ({slot} \ {NoScan})
    /\ window' = [window EXCEPT !.scanning = FALSE, !.busy = FALSE]
    /\ UNCHANGED <<stage, cameraVars, viewVars, posted, linkVars>>

\* start_qr_scan: the thread is spawned, the geometry goes to the region of this scan.
StartQrScan(s) ==
    /\ window' = [window EXCEPT !.busy = TRUE, !.connected = FALSE, !.scanning = TRUE,
                                !.preview = NoRotation]
    /\ registered' = s
    /\ Goes(s, "gate")

\* ensure_camera_permission returns, granted or not; it ends within its minute.
PermissionAnswered(s) ==
    /\ At(s, "permission")
    /\ \/ /\ Cancelled(s)
          /\ Goes(s, "gone")
          /\ UNCHANGED <<window, registered>>
       \/ /\ ~Cancelled(s)
          /\ StartQrScan(s)
       \/ /\ ~Cancelled(s)
          /\ window' = [window EXCEPT !.busy = FALSE]
          /\ Goes(s, "gone")
          /\ UNCHANGED registered
    /\ UNCHANGED <<slot, cancelled, cameraVars, display, turns, region, posted, linkVars>>

-----------------------------------------------------------------------------
(* scan_pairing_info, on the thread of the scan.                           *)

ThreadUnchanged == UNCHANGED <<slot, cancelled, viewVars, window, posted, linkVars>>

\* The lock of the gate, and the first look at the token.
EntersGate(s) ==
    /\ At(s, "gate")
    /\ gate = NoScan
    /\ IF Cancelled(s) THEN Goes(s, "publishing") /\ UNCHANGED gate
                       ELSE Goes(s, "opening") /\ gate' = s
    /\ UNCHANGED <<held, image, seen, found, result>>
    /\ ThreadUnchanged

\* The order in which the camera is opened.  The error flag is the memory its
\* callbacks write to, the window is the reader's; the capture is the request, its
\* target, the output and its container, which nobody else uses; with "images" the
\* repeating request runs and the listener is called.
OpenOrder == <<"reader", "window", "error", "manager", "device", "capture", "session", "images">>
\* Drop for CameraSession, then its fields in the order they are declared.
CloseOrder == <<"session", "capture", "device", "manager", "window", "images", "reader", "error">>
NextToOpen(s) == SelectInSeq(OpenOrder, LAMBDA r : r \notin held[s])
NextToClose(s) == SelectInSeq(CloseOrder, LAMBDA r : r \in held[s])

\* One step fails and what is open is dropped.  The profile of a back camera and the
\* listener are read and set before the window: they fail as the reader does.
OpensCamera(s) ==
    /\ At(s, "opening")
    /\ \/ /\ NextToOpen(s) # 0
          /\ held' = [held EXCEPT ![s] = @ \cup {OpenOrder[NextToOpen(s)]}]
          /\ UNCHANGED stage
       \/ /\ NextToOpen(s) # 0
          /\ Goes(s, "closing")
          /\ UNCHANGED held
       \/ /\ NextToOpen(s) = 0
          /\ Goes(s, "looking")
          /\ UNCHANGED held
    /\ UNCHANGED <<gate, image, seen, found, result>>
    /\ ThreadUnchanged

\* The loop: the token is set, the camera reported an error, or SCAN_TIMEOUT is over,
\* in this order and all the same to the caller ...
LooksInVain(s) ==
    /\ At(s, "looking")
    /\ Goes(s, "closing")
    /\ UNCHANGED <<gate, held, image, seen, found, result>>
    /\ ThreadUnchanged

\* ... or recv_timeout has the info; the token may have been set meanwhile.
Receives(s) ==
    /\ At(s, "looking")
    /\ \E c \in found[s] : result' = [result EXCEPT ![s] = FromUri(c.link)]
    /\ Goes(s, "closing")
    /\ UNCHANGED <<gate, held, image, seen, found>>
    /\ ThreadUnchanged

\* The gate is the first local of the function and so the last to go; what the
\* listener shared with it is gone by then, and nobody reads the region any more.
GateLeftAtOnce(s) == NoScan
GateLeft(s) == IF held'[s] = {} THEN NoScan ELSE gate
ClosesCamera(s) ==
    /\ At(s, "closing")
    /\ \/ /\ held[s] # {}
          /\ LET next == CloseOrder[NextToClose(s)] IN
              /\ next = "reader" => image[s] = NoRotation
              /\ held' = [held EXCEPT ![s] = @ \ {next}]
          /\ gate' = IF gate = s THEN GateLeft(s) ELSE gate
          /\ UNCHANGED <<stage, seen, found, region>>
       \/ /\ held[s] = {}
          /\ gate' = IF gate = s THEN NoScan ELSE gate
          /\ Goes(s, "publishing")
          /\ seen' = [seen EXCEPT ![s] = 0]
          /\ found' = [found EXCEPT ![s] = {}]
          /\ region' = [region EXCEPT ![s] = NoRegion]
          /\ UNCHANGED held
    /\ UNCHANGED <<image, result>>
    /\ UNCHANGED <<slot, cancelled, display, turns, registered, window, posted, linkVars>>

\* should_publish, then the closure.
Publishes(s) ==
    /\ At(s, "publishing")
    /\ \/ /\ slot = s
          /\ posted' = Append(posted, [kind |-> "result", scan |-> s, rotation |-> NoRotation])
          /\ Goes(s, "posted")
       \/ /\ slot # s
          /\ Goes(s, "gone")
          /\ UNCHANGED posted
    /\ UNCHANGED <<slot, cancelled, cameraVars, viewVars, window, linkVars>>

-----------------------------------------------------------------------------
(* The listener, on a thread of the image reader, one image at a time.     *)

Turned == (Orientation + 360 - display) % 360

\* The image is taken and its rotation read; one in PreviewEvery is posted to be shown.
ImageArrives(s) ==
    /\ "images" \in held[s]
    /\ image[s] = NoRotation
    /\ found[s] = {} /\ ~Cancelled(s)
    /\ Len(posted) < MaxPosted
    /\ image' = [image EXCEPT ![s] = Turned]
    /\ seen' = [seen EXCEPT ![s] = (@ + 1) % PreviewEvery]
    /\ posted' = IF seen[s] = 0
                 THEN Append(posted, [kind |-> "preview", scan |-> s, rotation |-> Turned])
                 ELSE posted
    /\ UNCHANGED <<scanVars, gate, held, found, result, viewVars, window, linkVars>>

\* It is cropped and decoded as the region says by now: the codes in the crop, in any
\* order, up to one that is a pairing link.  None may be there, or none be legible.
ImageDecoded(s) ==
    /\ image[s] # NoRotation
    /\ image' = [image EXCEPT ![s] = NoRotation]
    /\ \/ UNCHANGED found
       \/ \E c \in Codes :
            /\ c.at \in Crop(ImageSize, image[s], region[s])
            /\ FromUri(c.link) # {}
            /\ found' = [found EXCEPT ![s] = {c}]
    /\ UNCHANGED <<scanVars, gate, held, seen, result, viewVars, window, posted, linkVars>>

-----------------------------------------------------------------------------
(* The window and the event loop.                                          *)

\* The display turns and, when the window gets to it, so does the layout.
DisplayTurns ==
    /\ turns < MaxTurns /\ window.scanning
    /\ turns' = turns + 1
    /\ display' \in DOMAIN Layouts \ {display}
    /\ UNCHANGED <<scanVars, cameraVars, region, registered, window, posted, linkVars>>
LayoutChanges ==
    /\ window.layout # Layouts[display]
    /\ window' = [window EXCEPT !.layout = Layouts[display], !.told = FALSE]
    /\ UNCHANGED <<scanVars, cameraVars, viewVars, posted, linkVars>>

\* The changed handlers of the window call scan_geometry_changed.
RegionTold == registered
GeometryChanged ==
    /\ ~window.told
    /\ window' = [window EXCEPT !.told = TRUE]
    /\ region' = [s \in Scans |-> IF s = RegionTold THEN [region[s] EXCEPT !.layout = window.layout]
                                  ELSE region[s]]
    /\ UNCHANGED <<scanVars, cameraVars, display, turns, registered, posted, linkVars>>

Posted(kind) ==
    /\ posted # <<>>
    /\ Head(posted).kind = kind
    /\ posted' = Tail(posted)

\* A preview of a scan that goes on is shown; what is decoded is what is shown now.
PreviewShown ==
    /\ Posted("preview")
    /\ LET s == Head(posted).scan
           rotation == Head(posted).rotation
       IN IF Cancelled(s) THEN UNCHANGED <<window, region>>
          ELSE /\ window' = [window EXCEPT !.preview = rotation]
               /\ region' = [region EXCEPT ![s] = [layout |-> window.layout, rotation |-> rotation]]
    /\ UNCHANGED <<scanVars, cameraVars, display, turns, registered, linkVars>>

FailedStillBusy == [window EXCEPT !.scanning = FALSE]
Failed == [window EXCEPT !.scanning = FALSE, !.busy = FALSE]

\* The end of a scan is told, and connect_session started.
ScanPublished ==
    /\ Posted("result")
    /\ LET s == Head(posted).scan IN
        \/ /\ Cancelled(s)
           /\ Goes(s, "gone")
           /\ UNCHANGED <<window, conn>>
        \/ /\ ~Cancelled(s) /\ result[s] = {}
           /\ window' = Failed
           /\ Goes(s, "gone")
           /\ UNCHANGED conn
        \/ /\ ~Cancelled(s)
           /\ \E info \in result[s] : conn' = [conn EXCEPT ![s] = Dials(info)]
           /\ window' = [window EXCEPT !.scanning = FALSE]
           /\ Goes(s, "connecting")
    /\ result' = [result EXCEPT ![Head(posted).scan] = {}]
    /\ UNCHANGED <<slot, cancelled, gate, held, image, seen, found, viewVars, desk, toDesk, toPhone>>

\* connect has returned: shutdown of a session nobody waits for any more.
ShutsDown(s) ==
    /\ Drops(s, "none")
    /\ Goes(s, "gone")
    /\ UNCHANGED window
SessionConnected(s) ==
    /\ At(s, "connecting")
    /\ conn[s].stage \in {"up", "failed"}
    /\ \/ /\ Cancelled(s)
          /\ ShutsDown(s)
       \/ /\ ~Cancelled(s) /\ conn[s].stage = "failed"
          /\ window' = [window EXCEPT !.connected = FALSE, !.busy = FALSE]
          /\ Goes(s, "gone")
          /\ Drops(s, "none")
       \/ /\ ~Cancelled(s) /\ conn[s].stage = "up"
          /\ Goes(s, "installing")
          /\ UNCHANGED <<window, linkVars>>
    /\ UNCHANGED <<slot, cancelled, cameraVars, viewVars, posted>>

\* With the stream gate, which may have been waited for: the token is read again.
WithdrawnNever(s) == FALSE
Withdrawn(s) == Cancelled(s)
SessionInstalled(s) ==
    /\ At(s, "installing")
    /\ \/ /\ Withdrawn(s)
          /\ ShutsDown(s)
       \/ /\ ~Withdrawn(s)
          /\ window' = [window EXCEPT !.connected = TRUE, !.busy = FALSE]
          /\ Goes(s, "gone")
          /\ UNCHANGED linkVars
    /\ UNCHANGED <<slot, cancelled, cameraVars, viewVars, posted>>

\* The sockets go on by themselves.
Handshakes(s) ==
    /\ HandshakeSteps(s)
    /\ UNCHANGED <<scanVars, cameraVars, viewVars, window, posted>>

-----------------------------------------------------------------------------

ThreadSteps(s) ==
    \/ EntersGate(s) \/ OpensCamera(s) \/ LooksInVain(s) \/ Receives(s)
    \/ ClosesCamera(s) \/ Publishes(s)
TaskSteps(s) == PermissionAnswered(s) \/ SessionConnected(s) \/ SessionInstalled(s)
EventLoop == PreviewShown \/ ScanPublished

Next ==
    \/ CancelRemoteScan
    \/ DisplayTurns \/ LayoutChanges \/ GeometryChanged \/ EventLoop
    \/ \E s \in Scans :
        \/ TapScan(s) \/ ThreadSteps(s) \/ TaskSteps(s)
        \/ ImageArrives(s) \/ ImageDecoded(s) \/ Handshakes(s)

Spec == Init /\ [][Next]_vars

\* The event loop takes what is posted, the listener returns, and each scan goes on,
\* wherever it is: on its thread, in its task or in connect, every wait of which ends,
\* by its timeout if need be.
GoesOn(s) == ThreadSteps(s) \/ TaskSteps(s) \/ Handshakes(s)
Fairness ==
    /\ WF_vars(EventLoop)
    /\ \A s \in Scans : WF_vars(GoesOn(s)) /\ WF_vars(ImageDecoded(s))

FairSpec == Spec /\ Fairness

-----------------------------------------------------------------------------

\* One scan at a time has anything of the camera, the one with the gate, from the
\* first thing it opens to the last it frees, failures in between included; the
\* memory the camera's callbacks use (the error flag, the reader and its window)
\* lives as long as the camera is open or an image is in the listener's hands.
CameraUnderGate ==
    \A s \in Scans :
        /\ held[s] # {} => gate = s
        /\ gate = s => stage[s] \in {"opening", "looking", "closing"}
        /\ "device" \in held[s] => {"error", "reader", "window"} \subseteq held[s]
        /\ image[s] # NoRotation => "reader" \in held[s]

\* A scan that goes on: its token is not set, and its task or thread not over.
Live(s) == ~Cancelled(s) /\ stage[s] \notin {"none", "gone"}
OnCamera(s) == stage[s] \in {"gate", "opening", "looking", "closing", "publishing", "posted"}

\* The window is busy exactly as long as one scan goes on, shows the camera's view as
\* long as that one has it, and a session that is up is the window's or about to be:
\* threads that end late, closures on their way and sessions that come up after a
\* cancel change nothing of the next scan, and none is left behind.
WindowFollowsScan ==
    /\ \A s \in Scans : Live(s) => slot = s
    /\ window.busy <=> \E s \in Scans : Live(s)
    /\ window.scanning <=> \E s \in Scans : Live(s) /\ OnCamera(s)
    /\ \A s \in Scans : conn[s].stage = "up" =>
        stage[s] \in {"connecting", "installing"} \/ (window.connected /\ slot = s)

\* A code that a scan in progress reads is in the box of the window: its image is
\* turned as the preview on show (upright, when none is yet), and the layout is the
\* window's, once the window has told of its last change.  Of an image with an odd
\* side, which the preview shows but for its last column or row, only the first half.
ReadsOnlyWhatIsShown ==
    [][\A s \in Scans :
        found[s] = {} /\ found'[s] # {} /\ ~Cancelled(s) =>
            /\ image[s] = IF window.preview = NoRotation THEN 0 ELSE window.preview
            /\ window.told /\ Whole(ImageSize) =>
                \A c \in found'[s] : c.at \in InBox(ImageSize, image[s], window.layout)
      ]_vars

\* The next two are about all that two functions may be given, and not about a state:
\* they are told of the state before the first scan, so that they are looked at once.
NoScanYet == \A s \in Scans : At(s, "none")

\* What reaches the decoder is what the box shows, no pixel more or less: the crop
\* turns the image the other way round than the preview does, and rounds inwards,
\* whatever the shape of the image, the view and the box.  The sides of the image are
\* even: of an odd one the preview drops a column or a row and is stretched, and the
\* crop may be off by a pixel.  A box larger than the view is left out: the window's
\* box is smaller (but in a view of less than 80px).
CropIsTheBox ==
    NoScanYet =>
        \A size \in [width : 1 .. MaxLength, height : 1 .. MaxLength] :
        \A layout \in [width : 1 .. MaxLength, height : 1 .. MaxLength, box : 1 .. MaxLength] :
            Whole(size) /\ layout.box <= Least(layout.width, layout.height) =>
                \A rotation \in Rotations :
                    Crop(size, rotation, [layout |-> layout, rotation |-> rotation])
                        = InBox(size, rotation, layout)

\* from_uri reads a link as an info exactly when the link holds what uri writes of it,
\* in any order, or all but the name of a desktop that has the default one: nothing is
\* made of a field that is missing, repeated, unknown or invalid, wherever it stands.
UriReads ==
    NoScanYet =>
        /\ \A info \in Infos : FromUri(Uri(info)) = {info}
        /\ \A link \in Links : FromUri(link) = Meant(link)

\* A scan comes to its end: with a session, with a failure, or cancelled.
ScanEnds == window.busy ~> ~window.busy
=============================================================================
