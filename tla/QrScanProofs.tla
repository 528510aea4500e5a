---------------------------- MODULE QrScanProofs ----------------------------
(***************************************************************************)
(* Proofs about QrScan, for every number of scans, whatever the cameras    *)
(* see, whoever listens at the addresses and however the window is laid    *)
(* out and turned; and what is read of a pairing link, for all of them.    *)
(***************************************************************************)
EXTENDS QrScan, SequenceTheorems, FiniteSetTheorems, NaturalRecursion

Objects == {"reader", "window", "error", "manager", "device", "capture", "session", "images"}
Stages == {"none", "permission", "gate", "opening", "looking", "closing", "publishing",
           "posted", "connecting", "installing", "gone"}
\* The infos a camera may read from a code.
Readable == UNION {FromUri(c.link) : c \in Codes}

CameraTypes ==
    /\ stage \in [Scans -> Stages]
    /\ gate \in Scans \cup {NoScan}
    /\ held \in [Scans -> SUBSET Objects]
    /\ image \in [Scans -> Int]
    /\ display \in DOMAIN Layouts

WindowLayouts == {Layouts[d] : d \in DOMAIN Layouts}
Windows == [busy : BOOLEAN, scanning : BOOLEAN, connected : BOOLEAN, preview : Int,
            layout : WindowLayouts, told : BOOLEAN]
Closures == [kind : {"preview", "result"}, scan : Scans, rotation : Int]
WindowTypes ==
    /\ slot \in Scans \cup {NoScan}
    /\ cancelled \in SUBSET Scans
    /\ window \in Windows
    /\ posted \in Seq(Closures)
    /\ found \in [Scans -> SUBSET Codes]
    /\ result \in [Scans -> SUBSET Readable]

ConnStages == {"none", "connecting", "noise", "hello", "up", "failed"}
DeskStages == {"none", "accepting", "greeted", "ready", "gone"}
LinkTypes ==
    /\ conn \in [Scans -> [stage : ConnStages, pairing : SUBSET Readable]]
    /\ desk \in [Scans -> [stage : DeskStages, peer : SUBSET Peers]]
    /\ toDesk = [a \in Scans |-> toDesk[a]]
    /\ toPhone = [a \in Scans |-> toPhone[a]]

-----------------------------------------------------------------------------

\* CameraUnderGate, what the thread has before and after it opens the camera, and
\* that images come only while there is a reader.
CameraInv ==
    /\ CameraUnderGate
    /\ \A s \in Scans : stage[s] \in {"opening", "looking"} => gate = s
    /\ \A s \in Scans : "images" \in held[s] => "reader" \in held[s]

\* WindowFollowsScan, and what makes it so.  A scan that has not begun holds no token.
NotBegun == \A s \in Scans : stage[s] = "none" => s \notin cancelled /\ slot # s
\* While the window is connected no scan goes on.
NoScanConnected == window.connected => \A s \in Scans : ~Live(s)
\* A connection is that of a scan that connects, or the one that was installed.
ConnOfScan ==
    \A s \in Scans : conn[s].stage # "none" =>
        \/ stage[s] = "connecting"
        \/ conn[s].stage = "up" /\ stage[s] = "installing"
        \/ conn[s].stage = "up" /\ window.connected /\ slot = s
\* A result is posted once, by a scan that waits for it to be taken.
ResultsOnce ==
    \A n \in 1 .. Len(posted) : posted[n].kind = "result" =>
        /\ stage[posted[n].scan] = "posted"
        /\ \A m \in 1 .. Len(posted) :
            posted[m].kind = "result" /\ posted[m].scan = posted[n].scan => m = n

WindowInv == WindowFollowsScan /\ NotBegun /\ NoScanConnected /\ ConnOfScan /\ ResultsOnce

\* What the phone has written under the code info, and what a peer may have written.
Said(info, where) ==
    {NoiseMessage(info.code)} \cup (IF where = "up" THEN {ClientHello} ELSE {})
Says(peer) == {NoiseMessage(peer.code), ServerHello(peer), Junk, OtherMessage}

\* The two ends of a connection: whom each speaks to, what is on its way, and what
\* the phone knows at each stage.
Linked(a, info, peer) ==
    LET where == conn[a].stage IN
    /\ conn[a].pairing = {info}
    /\ desk[a].peer = {peer}
    /\ toDesk[a] \in Seq(Said(info, where))
    /\ toPhone[a] \in Seq(Says(peer))
    /\ where \in {"hello", "up"} => peer.code = info.code
    /\ where = "up" => peer.sid = info.sid /\ peer.version = ProtocolVersion
    /\ desk[a].stage = "ready" => where = "up"
LinkOf(a) ==
    IF conn[a].stage \in {"noise", "hello", "up"}
    THEN \E info \in Readable, peer \in Peers : Linked(a, info, peer)
    ELSE /\ desk[a] = Nobody /\ toDesk[a] = <<>> /\ toPhone[a] = <<>>
         /\ conn[a].stage = "connecting" => \E info \in Readable : conn[a].pairing = {info}
LinkInv == \A a \in Scans : LinkOf(a)

-----------------------------------------------------------------------------

\* A set of places in a list of eight has a first one.
LEMMA FirstPlace ==
    ASSUME NEW I \in SUBSET (1 .. 8), I # {}
    PROVE Min(I) \in I /\ \A i \in I : Min(I) <= i
<1>1. \E x \in I : \A y \in I : x <= y
  <2> SUFFICES ASSUME \A x \in I : \E y \in I : y < x PROVE FALSE
    OBVIOUS
  <2>1. 1 \notin I
    OBVIOUS
  <2>2. 2 \notin I
    BY <2>1
  <2>3. 3 \notin I
    BY <2>1, <2>2
  <2>4. 4 \notin I
    BY <2>1, <2>2, <2>3
  <2>5. 5 \notin I
    BY <2>1, <2>2, <2>3, <2>4
  <2>6. 6 \notin I
    BY <2>1, <2>2, <2>3, <2>4, <2>5
  <2>7. 7 \notin I
    BY <2>1, <2>2, <2>3, <2>4, <2>5, <2>6
  <2>8. 8 \notin I
    BY <2>1, <2>2, <2>3, <2>4, <2>5, <2>6, <2>7
  <2>9. \A i \in I : i \in 1 .. 8 /\ i \notin 1 .. 8
    BY <2>1, <2>2, <2>3, <2>4, <2>5, <2>6, <2>7, <2>8
  <2> QED
    BY <2>9
<1> QED
  BY <1>1 DEF Min

\* What is opened next is the first that is not open, and the last needs all others.
LEMMA OpensInOrder ==
    ASSUME NEW s \in Scans, NextToOpen(s) # 0
    PROVE LET next == OpenOrder[NextToOpen(s)] IN
          /\ next \in Objects
          /\ next = "device" => {"error", "reader", "window"} \subseteq held[s]
          /\ next = "images" => "reader" \in held[s]
<1> DEFINE I == {i \in 1 .. Len(OpenOrder) : OpenOrder[i] \notin held[s]}
           n == NextToOpen(s)
<1>1. Len(OpenOrder) = 8
  BY DEF OpenOrder
<1>2. n = IF I # {} THEN Min(I) ELSE 0
  BY DEF NextToOpen, SelectInSeq
<1>3. I \in SUBSET (1 .. 8) /\ I # {}
  BY <1>1, <1>2
<1>4. n \in 1 .. 8 /\ \A i \in I : n <= i
  BY <1>2, <1>3, FirstPlace
<1>5. \A i \in 1 .. 8 : i < n => OpenOrder[i] \in held[s]
  BY <1>1, <1>4
<1> HIDE DEF I, n
<1>6. OpenOrder[n] \in Objects
  BY <1>4 DEF OpenOrder, Objects
<1>7. OpenOrder[n] = "device" => n = 5
  BY <1>4 DEF OpenOrder
<1>8. OpenOrder[n] = "images" => n = 8
  BY <1>4 DEF OpenOrder
<1>9. n \in {5, 8} => {OpenOrder[1], OpenOrder[2], OpenOrder[3]} \subseteq held[s]
  BY <1>5
<1> QED
  BY <1>6, <1>7, <1>8, <1>9 DEF OpenOrder, n

\* What is freed next is the first of CloseOrder that is open.
LEMMA ClosesInOrder ==
    ASSUME NEW s \in Scans, CameraTypes, held[s] # {}
    PROVE LET next == CloseOrder[NextToClose(s)] IN
          /\ next \in held[s]
          /\ next \in {"error", "reader", "window"} => "device" \notin held[s]
          /\ next = "reader" => "images" \notin held[s]
<1> DEFINE I == {i \in 1 .. Len(CloseOrder) : CloseOrder[i] \in held[s]}
           n == NextToClose(s)
<1>1. Len(CloseOrder) = 8
  BY DEF CloseOrder
<1>2. n = IF I # {} THEN Min(I) ELSE 0
  BY DEF NextToClose, SelectInSeq
<1>3. \E i \in 1 .. 8 : CloseOrder[i] \in held[s]
  <2>1. PICK r \in Objects : r \in held[s]
    BY DEF CameraTypes
  <2>2. \E i \in 1 .. 8 : CloseOrder[i] = r
    BY <2>1 DEF Objects, CloseOrder
  <2> QED
    BY <2>1, <2>2
<1>4. I \in SUBSET (1 .. 8) /\ I # {}
  BY <1>1, <1>3
<1>5. n \in I /\ \A i \in I : n <= i
  BY <1>2, <1>4, FirstPlace
<1>6. n \in 1 .. 8 /\ CloseOrder[n] \in held[s]
      /\ \A i \in 1 .. 8 : i < n => CloseOrder[i] \notin held[s]
  BY <1>1, <1>5
<1> HIDE DEF I, n
<1>7. CloseOrder[n] \in {"error", "reader", "window"} => n > 3
  BY <1>6 DEF CloseOrder
<1>8. CloseOrder[n] = "reader" => n > 6
  BY <1>6 DEF CloseOrder
<1>9. CloseOrder[3] = "device" /\ CloseOrder[6] = "images"
  BY DEF CloseOrder
<1> QED
  BY <1>6, <1>7, <1>8, <1>9 DEF n

-----------------------------------------------------------------------------
(* The camera.                                                             *)

CameraStages == {"opening", "looking", "closing"}

\* Steps that leave the gate, the camera and the images alone, and move a scan at
\* most between stages in which it has none of them.
LEMMA CameraKept ==
    ASSUME CameraTypes, CameraInv, UNCHANGED <<gate, held, image>>, display' \in DOMAIN Layouts,
           \/ stage' = stage
           \/ \E s \in Scans, w \in Stages \ CameraStages :
                stage[s] \notin CameraStages /\ stage' = [stage EXCEPT ![s] = w]
    PROVE CameraTypes' /\ CameraInv'
BY DEF CameraTypes, CameraInv, CameraUnderGate, CameraStages

(* Taking the gate keeps the camera's invariant, ... *)
LEMMA EntersGateKeeps ==
    ASSUME CameraTypes, CameraInv, NEW s \in Scans, EntersGate(s)
    PROVE CameraTypes' /\ CameraInv'
<1>1. CASE Cancelled(s)
  <2>1. UNCHANGED <<gate, held, image, display>> /\ stage' = [stage EXCEPT ![s] = "publishing"]
    BY <1>1 DEF EntersGate, Goes, ThreadUnchanged, viewVars
  <2> QED
    BY <2>1, CameraKept DEF EntersGate, At, CameraStages, Stages, CameraTypes
<1>2. CASE ~Cancelled(s)
  <2>1. /\ gate = NoScan /\ gate' = s
        /\ UNCHANGED <<held, image, display>>
        /\ stage' = [stage EXCEPT ![s] = "opening"]
    BY <1>2 DEF EntersGate, Goes, ThreadUnchanged, viewVars
  <2>2. \A r \in Scans : held[r] = {}
    BY <2>1, ScansAssumption DEF CameraInv, CameraUnderGate
  <2> QED
    BY <2>1, <2>2, ScansAssumption DEF CameraTypes, CameraInv, CameraUnderGate, Stages
<1> QED
  BY <1>1, <1>2

(* ... and so do opening one object or failing to, ... *)
LEMMA OpensCameraKeeps ==
    ASSUME CameraTypes, CameraInv, NEW s \in Scans, OpensCamera(s)
    PROVE CameraTypes' /\ CameraInv'
<1>1. gate = s /\ stage[s] = "opening" /\ UNCHANGED <<gate, image, display>>
  BY DEF OpensCamera, At, ThreadUnchanged, viewVars, CameraInv
<1>2. CASE NextToOpen(s) # 0 /\ UNCHANGED stage
           /\ held' = [held EXCEPT ![s] = @ \cup {OpenOrder[NextToOpen(s)]}]
  <2> DEFINE next == OpenOrder[NextToOpen(s)]
  <2>1. /\ next \in Objects
        /\ next = "device" => {"error", "reader", "window"} \subseteq held[s]
        /\ next = "images" => "reader" \in held[s]
    BY <1>2, OpensInOrder
  <2> HIDE DEF next
  <2>2. held' = [held EXCEPT ![s] = @ \cup {next}]
    BY <1>2 DEF next
  <2> QED
    BY <1>1, <1>2, <2>1, <2>2 DEF CameraTypes, CameraInv, CameraUnderGate
<1>3. CASE UNCHANGED held /\ \E w \in {"closing", "looking"} : stage' = [stage EXCEPT ![s] = w]
  BY <1>1, <1>3 DEF CameraTypes, CameraInv, CameraUnderGate, Stages
<1> QED
  BY <1>2, <1>3 DEF OpensCamera, Goes

(* ... the loop of the thread, ... *)
LEMMA LookingKeeps ==
    ASSUME CameraTypes, CameraInv, NEW s \in Scans, LooksInVain(s) \/ Receives(s)
    PROVE CameraTypes' /\ CameraInv'
<1>1. /\ gate = s /\ stage[s] = "looking"
      /\ UNCHANGED <<gate, held, image, display>>
      /\ stage' = [stage EXCEPT ![s] = "closing"]
  BY DEF LooksInVain, Receives, At, Goes, ThreadUnchanged, viewVars, CameraInv
<1> QED
  BY <1>1 DEF CameraTypes, CameraInv, CameraUnderGate, Stages

(* ... freeing one object, ... *)
LEMMA ClosesCameraKeeps ==
    ASSUME CameraTypes, CameraInv, NEW s \in Scans, ClosesCamera(s)
    PROVE CameraTypes' /\ CameraInv'
<1>1. stage[s] = "closing" /\ UNCHANGED <<image, display>>
  BY DEF ClosesCamera, At
<1>2. CASE held[s] # {}
  <2> DEFINE next == CloseOrder[NextToClose(s)]
  <2>1. /\ next \in held[s]
        /\ next \in {"error", "reader", "window"} => "device" \notin held[s]
        /\ next = "reader" => "images" \notin held[s]
    BY <1>2, ClosesInOrder
  <2>2. /\ next = "reader" => image[s] = NoRotation
        /\ held' = [held EXCEPT ![s] = @ \ {next}]
        /\ gate' = (IF gate = s THEN GateLeft(s) ELSE gate)
        /\ UNCHANGED stage
    BY <1>2 DEF ClosesCamera
  <2> HIDE DEF next
  <2>3. gate = s /\ \A r \in Scans \ {s} : held[r] = {}
    BY <1>2 DEF CameraInv, CameraUnderGate
  <2>4. gate' = (IF held'[s] = {} THEN NoScan ELSE s)
    BY <2>2, <2>3 DEF GateLeft
  <2>5. CameraTypes'
    BY <1>1, <2>2, <2>4 DEF CameraTypes
  <2>6. CameraInv'
    BY <1>1, <2>1, <2>2, <2>3, <2>4, ScansAssumption DEF CameraTypes, CameraInv, CameraUnderGate
  <2> QED
    BY <2>5, <2>6
<1>3. CASE held[s] = {}
  <2>1. /\ gate' = (IF gate = s THEN NoScan ELSE gate)
        /\ stage' = [stage EXCEPT ![s] = "publishing"]
        /\ UNCHANGED held
    BY <1>3 DEF ClosesCamera, Goes
  <2> QED
    BY <1>1, <1>3, <2>1, ScansAssumption DEF CameraTypes, CameraInv, CameraUnderGate, Stages
<1> QED
  BY <1>2, <1>3

(* ... and the steps of the listener. *)
LEMMA ImageKeeps ==
    ASSUME CameraTypes, CameraInv, NEW s \in Scans, ImageArrives(s) \/ ImageDecoded(s)
    PROVE CameraTypes' /\ CameraInv'
<1>1. Turned \in Int
  BY OrientationAssumption, LayoutsAssumption DEF Turned, CameraTypes, Rotations
<1>2. UNCHANGED <<stage, gate, held, display>>
  BY DEF ImageArrives, ImageDecoded, scanVars, viewVars
<1>3. \/ "images" \in held[s] /\ image' = [image EXCEPT ![s] = Turned]
      \/ image' = [image EXCEPT ![s] = NoRotation]
  BY DEF ImageArrives, ImageDecoded
<1> QED
  BY <1>1, <1>2, <1>3 DEF CameraTypes, CameraInv, CameraUnderGate, NoRotation

-----------------------------------------------------------------------------
(* The window.                                                             *)

WindowFlags == <<window.busy, window.scanning, window.connected>>

(* What is posted to the event loop has its type. *)
LEMMA PostedTypes ==
    ASSUME WindowTypes
    PROVE /\ Len(posted) \in Nat
          /\ \A n \in 1 .. Len(posted) : posted[n] \in Closures /\ posted[n].scan \in Scans
<1>1. posted \in Seq(Closures)
  BY DEF WindowTypes
<1>2. Len(posted) \in Nat /\ \A n \in 1 .. Len(posted) : posted[n] \in Closures
  BY <1>1, ElementOfSeq
<1>3. \A c \in Closures : c.scan \in Scans
  BY DEF Closures
<1> QED
  BY <1>2, <1>3

\* Closures that show a preview come and go without an effect on the results.
LEMMA PreviewPosted ==
    ASSUME WindowTypes, ResultsOnce, UNCHANGED stage,
           NEW c \in Closures, c.kind = "preview", posted' = Append(posted, c)
    PROVE posted' \in Seq(Closures) /\ ResultsOnce'
BY DEF WindowTypes, ResultsOnce

(* The oldest closure leaves the others as they were. *)
LEMMA HeadTaken ==
    ASSUME WindowTypes, ResultsOnce, posted # <<>>, posted' = Tail(posted)
    PROVE /\ posted' \in Seq(Closures)
          /\ Head(posted) \in Closures /\ Head(posted) = posted[1]
          /\ Len(posted) \in Nat \ {0} /\ Len(posted') = Len(posted) - 1
          /\ \A n \in 1 .. Len(posted') : posted'[n] = posted[n + 1] /\ n + 1 \in 1 .. Len(posted)
BY HeadTailProperties, EmptySeq DEF WindowTypes

\* Steps of a thread, between stages at the camera.
ThreadStages == {"gate", "opening", "looking", "closing", "publishing"}

(* A step of a thread from one of its stages to another keeps the window's invariant. *)
LEMMA ThreadMoves ==
    ASSUME CameraTypes, WindowTypes, WindowInv,
           UNCHANGED <<slot, cancelled, window, conn, posted>>,
           NEW s \in Scans, stage[s] \in ThreadStages,
           NEW w \in ThreadStages, stage' \in {stage, [stage EXCEPT ![s] = w]}
    PROVE WindowInv'
<1>1. \A r \in Scans : (Live(r)' <=> Live(r)) /\ (OnCamera(r)' <=> OnCamera(r))
  BY DEF CameraTypes, Live, OnCamera, Cancelled, ThreadStages
<1>2. \A r \in Scans : stage'[r] # stage[r] =>
        {stage[r], stage'[r]} \cap {"none", "posted", "connecting", "installing"} = {}
  BY DEF CameraTypes, ThreadStages
<1>3. WindowFollowsScan'
  BY <1>1, <1>2 DEF WindowInv, WindowFollowsScan
<1>4. NotBegun' /\ NoScanConnected' /\ ConnOfScan'
  BY <1>1, <1>2 DEF WindowInv, NotBegun, NoScanConnected, ConnOfScan
<1>5. \A n \in 1 .. Len(posted) : posted[n] \in Closures
  BY ElementOfSeq DEF WindowTypes
<1>6. ResultsOnce'
  BY <1>2, <1>5 DEF WindowInv, ResultsOnce, Closures
<1> QED
  BY <1>3, <1>4, <1>6 DEF WindowInv

\* Steps that leave the scans and the window's flags alone: images, closures that
\* show one, the layout, and messages on the sockets.
LEMMA ScansKept ==
    ASSUME WindowTypes, WindowInv, UNCHANGED <<slot, cancelled, stage, WindowFlags>>,
           \A s \in Scans : \/ conn'[s].stage = conn[s].stage
                            \/ conn[s].stage \notin {"none", "up"},
           ResultsOnce'
    PROVE WindowInv'
<1>1. \A r \in Scans : (Live(r)' <=> Live(r)) /\ (OnCamera(r)' <=> OnCamera(r))
  BY DEF Live, OnCamera, Cancelled
<1>2. NotBegun' /\ NoScanConnected' /\ ConnOfScan'
  BY <1>1 DEF WindowInv, NotBegun, NoScanConnected, ConnOfScan, WindowFlags
<1>3. WindowFollowsScan'
  BY <1>1, <1>2 DEF WindowInv, WindowFollowsScan, ConnOfScan, WindowFlags
<1> QED
  BY <1>2, <1>3 DEF WindowInv

(* A tap on scan keeps the window's invariant. *)
LEMMA TapScanKeeps ==
    ASSUME CameraTypes, WindowTypes, WindowInv, NEW s \in Scans, TapScan(s)
    PROVE WindowTypes' /\ WindowInv'
<1>1. /\ stage[s] = "none" /\ stage' = [stage EXCEPT ![s] = "permission"]
      /\ ~window.connected /\ ~window.busy
      /\ window' = [window EXCEPT !.busy = TRUE]
      /\ slot' = s /\ cancelled' = cancelled \cup ({slot} \ {NoScan})
      /\ UNCHANGED <<posted, found, result, conn, display>>
  BY DEF TapScan, At, Goes, cameraVars, viewVars, linkVars
<1>2. WindowTypes'
  BY <1>1 DEF WindowTypes, Windows
<1>3. s \notin cancelled /\ slot # s /\ \A r \in Scans : ~Live(r)
  BY <1>1 DEF WindowInv, NotBegun, WindowFollowsScan
<1>4. /\ Live(s)' /\ ~OnCamera(s)'
      /\ \A r \in Scans \ {s} : ~Live(r)'
  BY <1>1, <1>3 DEF CameraTypes, Live, OnCamera, Cancelled
<1>5. NotBegun' /\ NoScanConnected'
  BY <1>1, <1>3 DEF CameraTypes, WindowTypes, Windows, WindowInv, NotBegun, NoScanConnected
<1>6. ConnOfScan'
  BY <1>1 DEF CameraTypes, WindowInv, ConnOfScan
<1>7. WindowFollowsScan'
  BY <1>1, <1>3, <1>4, <1>6 DEF WindowTypes, Windows, WindowInv, WindowFollowsScan, ConnOfScan
<1>8. ResultsOnce'
  BY <1>1 DEF CameraTypes, WindowInv, ResultsOnce
<1> QED
  BY <1>2, <1>5, <1>6, <1>7, <1>8 DEF WindowInv

(* And so does a cancel. *)
LEMMA CancelKeeps ==
    ASSUME CameraTypes, WindowTypes, WindowInv, CancelRemoteScan
    PROVE WindowTypes' /\ WindowInv'
<1>1. /\ ~window.connected
      /\ window' = [window EXCEPT !.scanning = FALSE, !.busy = FALSE]
      /\ slot' = NoScan /\ cancelled' = cancelled \cup ({slot} \ {NoScan})
      /\ UNCHANGED <<stage, posted, found, result, conn, display>>
  BY DEF CancelRemoteScan, cameraVars, viewVars, linkVars
<1>2. WindowTypes'
  BY <1>1 DEF WindowTypes, Windows
<1>3. \A r \in Scans : ~Live(r)'
  BY <1>1, ScansAssumption DEF WindowInv, WindowFollowsScan, Live, Cancelled
<1>4. NotBegun' /\ NoScanConnected'
  BY <1>1, <1>3, ScansAssumption DEF WindowInv, NotBegun, NoScanConnected
<1>5. ConnOfScan'
  BY <1>1 DEF WindowInv, ConnOfScan
<1>6. WindowFollowsScan'
  BY <1>1, <1>3, <1>5 DEF WindowTypes, Windows, WindowInv, WindowFollowsScan, ConnOfScan
<1>7. ResultsOnce'
  BY <1>1 DEF WindowInv, ResultsOnce
<1> QED
  BY <1>2, <1>4, <1>5, <1>6, <1>7 DEF WindowInv

\* A scan that goes on moves or ends, and the window's flags with it; nothing else
\* does.  The scan is the only one that goes on.
LEMMA LiveScanMoves ==
    ASSUME CameraTypes, WindowTypes, WindowTypes', WindowInv,
           NEW s \in Scans, Live(s), NEW w \in Stages \ {"none"},
           stage' = [stage EXCEPT ![s] = w], UNCHANGED <<slot, cancelled>>,
           window'.busy <=> w # "gone",
           window'.scanning <=> w # "gone" /\ OnCamera(s)',
           window'.connected => w = "gone",
           ConnOfScan', ResultsOnce'
    PROVE WindowInv'
<1>1. \A r \in Scans \ {s} : ~Live(r) /\ ~Live(r)'
  BY DEF CameraTypes, WindowInv, WindowFollowsScan, Live, Cancelled
<1>2. slot = s /\ (Live(s)' <=> w # "gone")
  BY DEF CameraTypes, WindowInv, WindowFollowsScan, Live, Cancelled
<1>3. NotBegun'
  BY DEF CameraTypes, WindowInv, NotBegun
<1>4. NoScanConnected'
  BY <1>1, <1>2 DEF NoScanConnected
<1>5. WindowFollowsScan'
  BY <1>1, <1>2 DEF WindowFollowsScan, ConnOfScan
<1> QED
  BY <1>3, <1>4, <1>5 DEF WindowInv

\* A scan that does not go on ends: nothing is seen of it.
LEMMA DeadScanMoves ==
    ASSUME CameraTypes, WindowTypes, WindowInv,
           NEW s \in Scans, ~Live(s), NEW w \in Stages \ {"none"},
           stage' = [stage EXCEPT ![s] = w], w = "gone" \/ Cancelled(s),
           UNCHANGED <<slot, cancelled, WindowFlags>>,
           ConnOfScan', ResultsOnce'
    PROVE WindowInv'
<1>1. \A r \in Scans : /\ Live(r)' <=> Live(r)
                       /\ Live(r)' => (OnCamera(r)' <=> OnCamera(r))
  BY DEF CameraTypes, Live, OnCamera, Cancelled
<1>2. /\ window'.busy <=> window.busy
      /\ window'.scanning <=> window.scanning
      /\ window'.connected <=> window.connected
  BY DEF WindowFlags
<1>3. NotBegun'
  BY DEF CameraTypes, WindowInv, NotBegun
<1>4. NoScanConnected'
  BY <1>1, <1>2 DEF WindowInv, NoScanConnected
<1>5. \A r \in Scans : Live(r)' => slot' = r
  BY <1>1 DEF WindowInv, WindowFollowsScan
<1>6. window'.busy <=> \E r \in Scans : Live(r)'
  BY <1>1, <1>2 DEF WindowInv, WindowFollowsScan
<1>7. window'.scanning <=> \E r \in Scans : Live(r)' /\ OnCamera(r)'
  BY <1>1, <1>2 DEF WindowInv, WindowFollowsScan
<1>8. WindowFollowsScan'
  BY <1>5, <1>6, <1>7 DEF WindowFollowsScan, ConnOfScan
<1> QED
  BY <1>3, <1>4, <1>8 DEF WindowInv

(* A window that shows the camera is a window. *)
LEMMA CameraView ==
    ASSUME NEW w \in Windows, NEW rotation \in Int
    PROVE [w EXCEPT !.busy = TRUE, !.connected = FALSE, !.scanning = TRUE,
                    !.preview = rotation] \in Windows
BY DEF Windows

(* The window's invariant is kept by the answer about the permission, ... *)
LEMMA PermissionKeeps ==
    ASSUME CameraTypes, WindowTypes, WindowInv, NEW s \in Scans, PermissionAnswered(s)
    PROVE WindowTypes' /\ WindowInv'
<1>1. /\ stage[s] = "permission"
      /\ UNCHANGED <<slot, cancelled, posted, found, result, conn>>
  BY DEF PermissionAnswered, At, cameraVars, linkVars
<1>2. ResultsOnce'
  <2>1. \E w \in {"gone", "gate"} : stage' = [stage EXCEPT ![s] = w]
    BY DEF PermissionAnswered, StartQrScan, Goes
  <2>2. \A r \in Scans : stage[r] = "posted" => stage'[r] = "posted"
    BY <1>1, <2>1 DEF CameraTypes
  <2> QED
    BY <1>1, <2>2, PostedTypes DEF WindowInv, ResultsOnce
<1>3. CASE Cancelled(s) /\ UNCHANGED window /\ stage' = [stage EXCEPT ![s] = "gone"]
  <2>1. WindowTypes'
    BY <1>1, <1>3 DEF WindowTypes, Windows
  <2>2. ConnOfScan'
    BY <1>1, <1>3 DEF CameraTypes, WindowInv, ConnOfScan
  <2> QED
    BY <1>1, <1>2, <1>3, <2>1, <2>2, DeadScanMoves DEF Live, Stages, WindowFlags
<1>4. CASE ~Cancelled(s) /\ StartQrScan(s)
  <2>1. /\ window' = [window EXCEPT !.busy = TRUE, !.connected = FALSE, !.scanning = TRUE,
                                    !.preview = NoRotation]
        /\ stage' = [stage EXCEPT ![s] = "gate"]
    BY <1>4 DEF StartQrScan, Goes
  <2>2. WindowTypes'
    <3>1. window \in Windows
      BY DEF WindowTypes
    <3>2. NoRotation \in Int
      BY DEF NoRotation
    <3>3. [window EXCEPT !.busy = TRUE, !.connected = FALSE, !.scanning = TRUE,
                         !.preview = NoRotation] \in Windows
      BY <3>1, <3>2, CameraView
    <3>4. window' \in Windows
      BY <2>1, <3>3
    <3> QED
      BY <1>1, <3>4 DEF WindowTypes
  <2>3. Live(s) /\ ~window.connected
    BY <1>1, <1>4 DEF Live, WindowInv, NoScanConnected
  <2>4. ConnOfScan'
    BY <1>1, <2>1, <2>3 DEF CameraTypes, WindowInv, ConnOfScan
  <2>5. OnCamera(s)'
    BY <2>1 DEF CameraTypes, OnCamera
  <2>6. window'.busy /\ window'.scanning /\ ~window'.connected
    BY <2>1 DEF WindowTypes, Windows
  <2> QED
    BY <1>1, <1>2, <2>1, <2>2, <2>3, <2>4, <2>5, <2>6, LiveScanMoves DEF Stages
<1>5. CASE /\ ~Cancelled(s)
           /\ window' = [window EXCEPT !.busy = FALSE]
           /\ stage' = [stage EXCEPT ![s] = "gone"]
  <2>1. WindowTypes'
    BY <1>1, <1>5 DEF WindowTypes, Windows
  <2>2. Live(s) /\ ~window.connected /\ ~OnCamera(s)
    BY <1>1, <1>5 DEF Live, OnCamera, WindowInv, NoScanConnected
  <2>3. ~window.scanning
    BY <1>1, <2>2 DEF WindowInv, WindowFollowsScan
  <2>4. ConnOfScan'
    BY <1>1, <1>5, <2>2 DEF CameraTypes, WindowInv, ConnOfScan
  <2>5. ~window'.busy /\ ~window'.scanning /\ ~window'.connected
    BY <1>5, <2>2, <2>3 DEF WindowTypes, Windows
  <2> QED
    BY <1>1, <1>2, <1>5, <2>1, <2>2, <2>4, <2>5, LiveScanMoves DEF Stages
<1> QED
  BY <1>3, <1>4, <1>5 DEF PermissionAnswered, Goes

(* ... the thread up to its end, ... *)
LEMMA ThreadKeeps ==
    ASSUME CameraTypes, WindowTypes, WindowInv, NEW s \in Scans,
           EntersGate(s) \/ OpensCamera(s) \/ LooksInVain(s) \/ Receives(s) \/ ClosesCamera(s)
    PROVE WindowTypes' /\ WindowInv'
<1>1. UNCHANGED <<slot, cancelled, window, conn, posted>>
  BY DEF EntersGate, OpensCamera, LooksInVain, Receives, ClosesCamera, ThreadUnchanged, linkVars
<1>2. stage[s] \in ThreadStages
      /\ \E w \in ThreadStages : stage' \in {stage, [stage EXCEPT ![s] = w]}
  BY DEF EntersGate, OpensCamera, LooksInVain, Receives, ClosesCamera, At, Goes, ThreadStages
<1>3. found' \in [Scans -> SUBSET Codes]
  BY DEF EntersGate, OpensCamera, LooksInVain, Receives, ClosesCamera, WindowTypes
<1>4. result' \in [Scans -> SUBSET Readable]
  <2>1. CASE Receives(s)
    <3>1. PICK c \in found[s] : result' = [result EXCEPT ![s] = FromUri(c.link)]
      BY <2>1 DEF Receives
    <3>2. FromUri(c.link) \in SUBSET Readable
      BY <3>1 DEF WindowTypes, Readable
    <3> QED
      BY <3>1, <3>2 DEF WindowTypes
  <2>2. CASE ~Receives(s)
    BY <2>2 DEF EntersGate, OpensCamera, LooksInVain, ClosesCamera, WindowTypes
  <2> QED
    BY <2>1, <2>2
<1>5. WindowTypes'
  BY <1>1, <1>3, <1>4 DEF WindowTypes
<1> QED
  BY <1>1, <1>2, <1>5, ThreadMoves

(* ... posting what a scan ended with, ... *)
LEMMA PublishesKeeps ==
    ASSUME CameraTypes, WindowTypes, WindowInv, NEW s \in Scans, Publishes(s)
    PROVE WindowTypes' /\ WindowInv'
<1>1. stage[s] = "publishing" /\ UNCHANGED <<slot, cancelled, window, found, result, conn>>
  BY DEF Publishes, At, cameraVars, linkVars
<1>2. \A n \in 1 .. Len(posted) :
        posted[n] \in Closures /\ (posted[n].kind = "result" => posted[n].scan # s)
  BY <1>1, ElementOfSeq DEF WindowTypes, WindowInv, ResultsOnce
<1>3. CASE /\ slot = s
           /\ posted' = Append(posted, [kind |-> "result", scan |-> s, rotation |-> NoRotation])
           /\ stage' = [stage EXCEPT ![s] = "posted"]
  <2> DEFINE c == [kind |-> "result", scan |-> s, rotation |-> NoRotation]
  <2>1. c \in Closures /\ c.kind = "result" /\ c.scan = s
    BY DEF Closures, NoRotation
  <2> HIDE DEF c
  <2>2. posted' = Append(posted, c)
    BY <1>3 DEF c
  <2>3. WindowTypes'
    <3>1. posted' \in Seq(Closures)
      BY <2>1, <2>2, AppendProperties DEF WindowTypes
    <3> QED
      BY <1>1, <3>1 DEF WindowTypes
  <2>4. /\ Len(posted) \in Nat /\ Len(posted') = Len(posted) + 1
        /\ \A n \in 1 .. Len(posted) : posted'[n] = posted[n]
        /\ posted'[Len(posted) + 1] = c
    BY <2>1, <2>2 DEF WindowTypes
  <2>5. ResultsOnce'
    <3> SUFFICES ASSUME NEW n \in 1 .. Len(posted'), posted'[n].kind = "result"
                 PROVE /\ stage'[posted'[n].scan] = "posted"
                       /\ \A m \in 1 .. Len(posted') :
                            posted'[m].kind = "result" /\ posted'[m].scan = posted'[n].scan => m = n
      BY DEF ResultsOnce
    <3>1. CASE n = Len(posted) + 1
      BY <1>2, <1>3, <2>1, <2>4, <3>1 DEF CameraTypes
    <3>2. CASE n \in 1 .. Len(posted)
      <4>1. /\ posted[n].kind = "result" /\ posted[n].scan # s /\ posted[n].scan \in Scans
            /\ stage[posted[n].scan] = "posted"
        BY <1>2, <2>4, <3>2 DEF WindowInv, ResultsOnce, Closures
      <4> QED
        BY <1>2, <1>3, <2>1, <2>4, <3>2, <4>1 DEF CameraTypes, WindowInv, ResultsOnce
    <3> QED
      BY <2>4, <3>1, <3>2
  <2>6. ConnOfScan'
    BY <1>1, <1>3 DEF CameraTypes, WindowInv, ConnOfScan
  <2>7. CASE Live(s)
    <3>1. OnCamera(s) /\ OnCamera(s)'
      BY <1>1, <1>3 DEF CameraTypes, OnCamera
    <3>2. window.busy /\ window.scanning /\ ~window.connected
      BY <2>7, <3>1 DEF WindowInv, WindowFollowsScan, NoScanConnected
    <3> QED
      BY <1>1, <1>3, <2>3, <2>5, <2>6, <2>7, <3>1, <3>2, LiveScanMoves DEF Stages
  <2>8. CASE ~Live(s)
    BY <1>1, <1>3, <2>3, <2>5, <2>6, <2>8, DeadScanMoves DEF Live, Stages, WindowFlags
  <2> QED
    BY <2>7, <2>8, <2>3
<1>4. CASE slot # s /\ UNCHANGED posted /\ stage' = [stage EXCEPT ![s] = "gone"]
  <2>1. WindowTypes'
    BY <1>1, <1>4 DEF WindowTypes
  <2>2. ~Live(s)
    BY <1>4 DEF WindowInv, WindowFollowsScan
  <2>3. ConnOfScan' /\ ResultsOnce'
    BY <1>1, <1>2, <1>4 DEF CameraTypes, WindowInv, ConnOfScan, ResultsOnce, Closures
  <2> QED
    BY <1>1, <1>4, <2>1, <2>2, <2>3, DeadScanMoves DEF Stages, WindowFlags
<1> QED
  BY <1>3, <1>4 DEF Publishes, Goes

\* The closures stay, and so does where the scans are.
LEMMA ResultsStay ==
    ASSUME ResultsOnce, UNCHANGED <<posted, stage>>
    PROVE ResultsOnce'
BY DEF ResultsOnce

(* ... the images, ... *)
LEMMA ImagesKeep ==
    ASSUME CameraTypes, WindowTypes, WindowInv, NEW s \in Scans,
           ImageArrives(s) \/ ImageDecoded(s)
    PROVE WindowTypes' /\ WindowInv'
<1>1. UNCHANGED <<slot, cancelled, stage, window, result, conn>>
  BY DEF ImageArrives, ImageDecoded, scanVars, linkVars
<1>2. found' \in [Scans -> SUBSET Codes]
  BY DEF ImageArrives, ImageDecoded, WindowTypes
<1>3. posted' \in Seq(Closures) /\ ResultsOnce'
  <2>1. CASE posted' = posted
    BY <1>1, <2>1, ResultsStay DEF WindowTypes, WindowInv
  <2>2. CASE posted' = Append(posted, [kind |-> "preview", scan |-> s, rotation |-> Turned])
    <3> DEFINE c == [kind |-> "preview", scan |-> s, rotation |-> Turned]
    <3>1. Turned \in Int
      BY OrientationAssumption, LayoutsAssumption DEF Turned, CameraTypes, Rotations
    <3>2. c \in Closures /\ c.kind = "preview"
      BY <3>1 DEF Closures
    <3> HIDE DEF c
    <3>3. posted' = Append(posted, c)
      BY <2>2 DEF c
    <3> QED
      BY <1>1, <3>2, <3>3, PreviewPosted DEF WindowInv
  <2> QED
    BY <2>1, <2>2 DEF ImageArrives, ImageDecoded
<1>4. WindowTypes'
  BY <1>1, <1>2, <1>3 DEF WindowTypes
<1>5. WindowInv'
  BY <1>1, <1>3, ScansKept DEF WindowFlags
<1> QED
  BY <1>4, <1>5

(* ... a turn of the display or a new layout, ... *)
LEMMA LayoutKeeps ==
    ASSUME CameraTypes, WindowTypes, WindowInv,
           DisplayTurns \/ LayoutChanges \/ GeometryChanged
    PROVE WindowTypes' /\ WindowInv'
<1>1. UNCHANGED <<slot, cancelled, stage, posted, found, result, conn>>
  BY DEF DisplayTurns, LayoutChanges, GeometryChanged, scanVars, cameraVars, linkVars
<1>2. window' \in Windows /\ UNCHANGED WindowFlags
  <2>1. window \in Windows
    BY DEF WindowTypes
  <2>2. CASE DisplayTurns
    BY <2>1, <2>2 DEF DisplayTurns, WindowFlags
  <2>3. CASE LayoutChanges
    <3>1. Layouts[display] \in WindowLayouts
      BY DEF CameraTypes, WindowLayouts
    <3>2. window' = [window EXCEPT !.layout = Layouts[display], !.told = FALSE]
      BY <2>3 DEF LayoutChanges
    <3> QED
      BY <2>1, <3>1, <3>2 DEF Windows, WindowFlags
  <2>4. CASE GeometryChanged
    BY <2>1, <2>4 DEF GeometryChanged, Windows, WindowFlags
  <2> QED
    BY <2>2, <2>3, <2>4
<1>3. WindowTypes'
  BY <1>1, <1>2 DEF WindowTypes
<1>4. ResultsOnce'
  BY <1>1, ResultsStay DEF WindowInv
<1>5. \A s \in Scans : conn'[s].stage = conn[s].stage
  BY <1>1
<1> QED
  BY <1>1, <1>2, <1>3, <1>4, <1>5, ScansKept

\* A closure is taken from the queue: of the results those of other scans are left.
LEMMA ClosureTaken ==
    ASSUME WindowTypes, WindowInv, posted # <<>>, posted' = Tail(posted)
    PROVE /\ posted' \in Seq(Closures)
          /\ Head(posted) \in Closures /\ Head(posted).scan \in Scans
          /\ Head(posted).kind = "result" => stage[Head(posted).scan] = "posted"
          /\ UNCHANGED stage => ResultsOnce'
          /\ Head(posted).kind = "result" =>
               \A w \in Stages :
                 stage' = [stage EXCEPT ![Head(posted).scan] = w] /\ CameraTypes => ResultsOnce'
<1>1. /\ posted' \in Seq(Closures)
      /\ Head(posted) \in Closures /\ Head(posted) = posted[1]
      /\ Len(posted) \in Nat \ {0} /\ Len(posted') = Len(posted) - 1
      /\ \A n \in 1 .. Len(posted') : posted'[n] = posted[n + 1] /\ n + 1 \in 1 .. Len(posted)
  BY HeadTaken DEF WindowInv
<1>2. Head(posted).scan \in Scans /\ 1 \in 1 .. Len(posted)
  BY <1>1 DEF Closures
<1>3. Head(posted).kind = "result" => stage[Head(posted).scan] = "posted"
  BY <1>1, <1>2 DEF WindowInv, ResultsOnce
<1>4. ASSUME UNCHANGED stage
      PROVE ResultsOnce'
  BY <1>1, <1>4 DEF WindowInv, ResultsOnce
<1>5. ASSUME Head(posted).kind = "result", NEW w \in Stages, CameraTypes,
             stage' = [stage EXCEPT ![Head(posted).scan] = w]
      PROVE ResultsOnce'
  <2> DEFINE s == Head(posted).scan
  <2>1. \A n \in 1 .. Len(posted') :
          posted'[n].kind = "result" =>
            /\ posted'[n].scan \in Scans /\ posted'[n].scan # s
            /\ stage[posted'[n].scan] = "posted"
    BY <1>1, <1>2, <1>5, PostedTypes DEF WindowInv, ResultsOnce
  <2>2. \A r \in Scans : r # s => stage'[r] = stage[r]
    BY <1>5 DEF CameraTypes
  <2> HIDE DEF s
  <2>3. \A n, m \in 1 .. Len(posted') :
          posted'[n].kind = "result" /\ posted'[m].kind = "result"
                /\ posted'[m].scan = posted'[n].scan => m = n
    <3> SUFFICES ASSUME NEW n \in 1 .. Len(posted'), NEW m \in 1 .. Len(posted'),
                        posted'[n].kind = "result", posted'[m].kind = "result",
                        posted'[m].scan = posted'[n].scan
                 PROVE m = n
      OBVIOUS
    <3>1. /\ posted'[n] = posted[n + 1] /\ n + 1 \in 1 .. Len(posted)
          /\ posted'[m] = posted[m + 1] /\ m + 1 \in 1 .. Len(posted)
      BY <1>1
    <3>2. m + 1 = n + 1
      BY <3>1 DEF WindowInv, ResultsOnce
    <3> QED
      BY <3>2
  <2> QED
    BY <2>1, <2>2, <2>3 DEF ResultsOnce
<1> QED
  BY <1>1, <1>2, <1>3, <1>4, <1>5

(* ... showing a preview, ... *)
LEMMA PreviewShownKeeps ==
    ASSUME CameraTypes, WindowTypes, WindowInv, PreviewShown
    PROVE WindowTypes' /\ WindowInv'
<1>1. /\ posted # <<>> /\ posted' = Tail(posted)
      /\ UNCHANGED <<slot, cancelled, stage, found, result, conn>>
  BY DEF PreviewShown, Posted, scanVars, cameraVars, linkVars
<1>2. posted' \in Seq(Closures) /\ Head(posted) \in Closures /\ ResultsOnce'
  BY <1>1, ClosureTaken
<1>3. window' \in Windows /\ UNCHANGED WindowFlags
  <2>1. window \in Windows
    BY DEF WindowTypes
  <2>2. Head(posted).rotation \in Int
    BY <1>2 DEF Closures
  <2>3. window' \in {window, [window EXCEPT !.preview = Head(posted).rotation]}
    BY DEF PreviewShown
  <2> DEFINE rotation == Head(posted).rotation
             w == [window EXCEPT !.preview = rotation]
  <2>4. rotation \in Int
    BY <2>2
  <2> HIDE DEF rotation
  <2>5. /\ w \in Windows
        /\ w.busy = window.busy /\ w.scanning = window.scanning
        /\ w.connected = window.connected
    BY <2>1, <2>4 DEF Windows
  <2>6. window' \in {window, w}
    BY <2>3 DEF rotation
  <2> QED
    BY <2>1, <2>5, <2>6 DEF WindowFlags
<1>4. WindowTypes'
  BY <1>1, <1>2, <1>3 DEF WindowTypes
<1>5. \A s \in Scans : conn'[s].stage = conn[s].stage
  BY <1>1
<1> QED
  BY <1>1, <1>2, <1>3, <1>4, <1>5, ScansKept

(* ... taking the result of a scan, ... *)
LEMMA ScanPublishedKeeps ==
    ASSUME CameraTypes, WindowTypes, LinkTypes, WindowInv, ScanPublished
    PROVE WindowTypes' /\ WindowInv'
<1>1. posted # <<>> /\ posted' = Tail(posted) /\ Head(posted).kind = "result"
  BY DEF ScanPublished, Posted
<1>2. PICK s \in Scans : s = Head(posted).scan
  BY <1>1, ClosureTaken
<1>3. /\ posted' \in Seq(Closures) /\ stage[s] = "posted"
      /\ \A w \in Stages : stage' = [stage EXCEPT ![s] = w] => ResultsOnce'
  BY <1>1, <1>2, ClosureTaken
<1>4. result' = [result EXCEPT ![s] = {}] /\ UNCHANGED <<slot, cancelled, found>>
  BY <1>2 DEF ScanPublished
<1>5. window \in Windows /\ window' \in Windows => WindowTypes'
  BY <1>3, <1>4 DEF WindowTypes
<1>6. window \in Windows
  BY DEF WindowTypes
<1>7. \/ /\ Cancelled(s)
         /\ stage' = [stage EXCEPT ![s] = "gone"]
         /\ UNCHANGED <<window, conn>>
      \/ /\ ~Cancelled(s)
         /\ window' = Failed
         /\ stage' = [stage EXCEPT ![s] = "gone"]
         /\ UNCHANGED conn
      \/ /\ ~Cancelled(s)
         /\ \E info \in result[s] : conn' = [conn EXCEPT ![s] = Dials(info)]
         /\ window' = [window EXCEPT !.scanning = FALSE]
         /\ stage' = [stage EXCEPT ![s] = "connecting"]
  BY <1>2 DEF ScanPublished, Goes
<1>8. CASE Cancelled(s) /\ stage' = [stage EXCEPT ![s] = "gone"] /\ UNCHANGED <<window, conn>>
  <2>1. ConnOfScan'
    BY <1>3, <1>4, <1>8 DEF CameraTypes, WindowInv, ConnOfScan
  <2>2. ~Live(s)
    BY <1>8 DEF Live
  <2>3. ResultsOnce'
    BY <1>3, <1>8 DEF Stages
  <2> QED
    BY <1>3, <1>4, <1>5, <1>6, <1>8, <2>1, <2>2, <2>3, DeadScanMoves DEF Stages, WindowFlags
<1>9. ASSUME ~Cancelled(s)
      PROVE Live(s) /\ ~window.connected
  BY <1>3, <1>9 DEF Live, WindowInv, NoScanConnected
<1>10. CASE ~Cancelled(s) /\ window' = Failed /\ stage' = [stage EXCEPT ![s] = "gone"]
            /\ UNCHANGED conn
  <2>1. window' \in Windows /\ ~window'.busy /\ ~window'.scanning
        /\ (window'.connected <=> window.connected)
    BY <1>6, <1>10 DEF Failed, Windows
  <2>2. ConnOfScan'
    BY <1>3, <1>4, <1>9, <1>10 DEF CameraTypes, WindowInv, ConnOfScan
  <2>3. ResultsOnce'
    BY <1>3, <1>10 DEF Stages
  <2>4. WindowTypes'
    BY <1>5, <1>6, <2>1
  <2> QED
    BY <1>3, <1>4, <1>9, <1>10, <2>1, <2>2, <2>3, <2>4, LiveScanMoves DEF Stages
<1>11. CASE /\ ~Cancelled(s)
            /\ \E info \in result[s] : conn' = [conn EXCEPT ![s] = Dials(info)]
            /\ window' = [window EXCEPT !.scanning = FALSE]
            /\ stage' = [stage EXCEPT ![s] = "connecting"]
  <2>1. window' \in Windows /\ (window'.busy <=> window.busy) /\ ~window'.scanning
        /\ (window'.connected <=> window.connected)
    BY <1>6, <1>11 DEF Windows
  <2>2. window.busy
    BY <1>3, <1>9, <1>11 DEF WindowInv, WindowFollowsScan
  <2>3. \A r \in Scans : r # s => conn'[r] = conn[r] /\ stage'[r] = stage[r]
    BY <1>11 DEF CameraTypes, LinkTypes
  <2>4. ConnOfScan'
    BY <1>3, <1>4, <1>9, <1>11, <2>3 DEF CameraTypes, WindowInv, ConnOfScan
  <2>5. ~OnCamera(s)'
    BY <1>11 DEF CameraTypes, OnCamera
  <2>6. ResultsOnce'
    BY <1>3, <1>11 DEF Stages
  <2>7. WindowTypes'
    BY <1>5, <1>6, <2>1
  <2> QED
    BY <1>3, <1>4, <1>9, <1>11, <2>1, <2>2, <2>4, <2>5, <2>6, <2>7, LiveScanMoves DEF Stages
<1> QED
  BY <1>7, <1>8, <1>10, <1>11

\* connect_session after its awaits: the scan it is about has left the camera.
LEMMA ConnectsKeeps ==
    ASSUME CameraTypes, WindowTypes, LinkTypes, WindowInv, NEW s \in Scans,
           SessionConnected(s) \/ SessionInstalled(s)
    PROVE WindowTypes' /\ WindowInv'
<1>1. /\ stage[s] \in {"connecting", "installing"} /\ ~OnCamera(s)
      /\ UNCHANGED <<slot, cancelled, posted, found, result>>
  BY DEF SessionConnected, SessionInstalled, At, OnCamera, cameraVars
<1>2. window \in Windows
  BY DEF WindowTypes
<1>3. window' \in Windows => WindowTypes'
  BY <1>1 DEF WindowTypes
<1>4. \/ Cancelled(s) /\ Drops(s, "none") /\ Goes(s, "gone") /\ UNCHANGED window
      \/ /\ ~Cancelled(s) /\ Drops(s, "none") /\ Goes(s, "gone")
         /\ window' = [window EXCEPT !.connected = FALSE, !.busy = FALSE]
      \/ /\ ~Cancelled(s) /\ conn[s].stage = "up" /\ Goes(s, "installing")
         /\ UNCHANGED <<window, conn>>
      \/ /\ ~Cancelled(s) /\ stage[s] = "installing" /\ Goes(s, "gone") /\ UNCHANGED conn
         /\ window' = [window EXCEPT !.connected = TRUE, !.busy = FALSE]
  BY DEF SessionConnected, SessionInstalled, ShutsDown, Withdrawn, At, linkVars
<1>5. ASSUME ~Cancelled(s)
      PROVE Live(s) /\ slot = s /\ ~window.connected /\ ~window.scanning /\ window.busy
  <2>1. Live(s)
    BY <1>1, <1>5 DEF Live
  <2>2. slot = s /\ window.busy /\ \A r \in Scans : Live(r) => r = s
    BY <2>1 DEF WindowInv, WindowFollowsScan
  <2>3. ~window.scanning
    BY <1>1, <2>2 DEF WindowInv, WindowFollowsScan
  <2> QED
    BY <2>1, <2>2, <2>3 DEF WindowInv, NoScanConnected
<1>6. ASSUME NEW w \in Stages, stage' = [stage EXCEPT ![s] = w]
      PROVE ResultsOnce'
  <2>1. \A r \in Scans : stage[r] = "posted" => stage'[r] = "posted"
    BY <1>1, <1>6 DEF CameraTypes
  <2> QED
    BY <1>1, <2>1, PostedTypes DEF WindowInv, ResultsOnce
<1>7. ASSUME Drops(s, "none")
      PROVE conn'[s].stage = "none" /\ \A r \in Scans : r # s => conn'[r] = conn[r]
  BY <1>7 DEF Drops, Unused, LinkTypes
<1>8. CASE Cancelled(s) /\ Drops(s, "none") /\ Goes(s, "gone") /\ UNCHANGED window
  <2>1. stage' = [stage EXCEPT ![s] = "gone"]
    BY <1>8 DEF Goes
  <2>2. ConnOfScan'
    BY <1>1, <1>7, <1>8, <2>1 DEF CameraTypes, WindowInv, ConnOfScan
  <2>3. ~Live(s)
    BY <1>8 DEF Live
  <2>4. ResultsOnce'
    BY <1>6, <2>1 DEF Stages
  <2> QED
    BY <1>1, <1>2, <1>3, <1>8, <2>1, <2>2, <2>3, <2>4, DeadScanMoves DEF Stages, WindowFlags
<1>9. CASE /\ ~Cancelled(s) /\ Drops(s, "none") /\ Goes(s, "gone")
           /\ window' = [window EXCEPT !.connected = FALSE, !.busy = FALSE]
  <2>1. stage' = [stage EXCEPT ![s] = "gone"]
    BY <1>9 DEF Goes
  <2>2. window' \in Windows /\ ~window'.busy /\ ~window'.connected
        /\ (window'.scanning <=> window.scanning)
    BY <1>2, <1>9 DEF Windows
  <2>3. ConnOfScan'
    BY <1>1, <1>5, <1>7, <1>9, <2>1 DEF CameraTypes, WindowInv, ConnOfScan
  <2>4. ResultsOnce'
    BY <1>6, <2>1 DEF Stages
  <2>5. WindowTypes'
    BY <1>3, <2>2
  <2> QED
    BY <1>1, <1>5, <1>9, <2>1, <2>2, <2>3, <2>4, <2>5, LiveScanMoves DEF Stages
<1>10. CASE /\ ~Cancelled(s) /\ conn[s].stage = "up" /\ Goes(s, "installing")
            /\ UNCHANGED <<window, conn>>
  <2>1. stage' = [stage EXCEPT ![s] = "installing"]
    BY <1>10 DEF Goes
  <2>2. ConnOfScan'
    BY <1>1, <1>10, <2>1 DEF CameraTypes, WindowInv, ConnOfScan
  <2>3. ResultsOnce'
    BY <1>6, <2>1 DEF Stages
  <2>4. WindowTypes' /\ ~OnCamera(s)'
    BY <1>2, <1>3, <1>10, <2>1 DEF CameraTypes, OnCamera
  <2> QED
    BY <1>1, <1>5, <1>10, <2>1, <2>2, <2>3, <2>4, LiveScanMoves DEF Stages
<1>11. CASE /\ ~Cancelled(s) /\ stage[s] = "installing" /\ Goes(s, "gone") /\ UNCHANGED conn
            /\ window' = [window EXCEPT !.connected = TRUE, !.busy = FALSE]
  <2>1. stage' = [stage EXCEPT ![s] = "gone"]
    BY <1>11 DEF Goes
  <2>2. window' \in Windows /\ ~window'.busy /\ window'.connected
        /\ (window'.scanning <=> window.scanning)
    BY <1>2, <1>11 DEF Windows
  <2>3. ConnOfScan'
    BY <1>1, <1>5, <1>11, <2>1, <2>2 DEF CameraTypes, WindowInv, ConnOfScan
  <2>4. ResultsOnce'
    BY <1>6, <2>1 DEF Stages
  <2>5. WindowTypes'
    BY <1>3, <2>2
  <2> QED
    BY <1>1, <1>5, <1>11, <2>1, <2>2, <2>3, <2>4, <2>5, LiveScanMoves DEF Stages
<1> QED
  BY <1>4, <1>8, <1>9, <1>10, <1>11

(* ... and both ends of the socket. *)
LEMMA SocketsKeep ==
    ASSUME CameraTypes, WindowTypes, LinkTypes, WindowInv, NEW s \in Scans, Handshakes(s)
    PROVE WindowTypes' /\ WindowInv'
<1>1. UNCHANGED <<slot, cancelled, stage, window, posted, found, result>>
  BY DEF Handshakes, scanVars, cameraVars
<1>2. \A r \in Scans : \/ conn'[r].stage = conn[r].stage
                      \/ conn[r].stage \notin {"none", "up"}
  BY DEF Handshakes, HandshakeSteps, Connected, ReadsReply, ReadsHello, ConnectFails, DeskActs,
         DeskReplies, StrangerReplies, DeskTakesHello, DeskTakes, Arrives, Connecting, Drops,
         Advances, LinkTypes
<1>3. WindowTypes' /\ ResultsOnce'
  BY <1>1, ResultsStay DEF WindowTypes, WindowInv
<1> QED
  BY <1>1, <1>2, <1>3, ScansKept DEF WindowFlags

-----------------------------------------------------------------------------
(* The connections.                                                        *)

(* The kinds of messages of the handshake differ. *)
LEMMA MessageKinds ==
    /\ \A code : NoiseMessage(code).type = "noise" /\ NoiseMessage(code).code = code
    /\ \A peer : /\ ServerHello(peer).type = "ServerHello"
                 /\ ServerHello(peer).version = peer.version /\ ServerHello(peer).sid = peer.sid
    /\ ClientHello.type = "ClientHello" /\ Junk.type = "junk" /\ OtherMessage.type = "other"
BY DEF NoiseMessage, ServerHello, ClientHello, Junk, OtherMessage

\* What was on its way, and one more or one less.
LEMMA OnTheWay ==
    ASSUME NEW S, NEW T, S \subseteq T, NEW q \in Seq(S)
    PROVE /\ q \in Seq(T)
          /\ \A m \in T : Append(q, m) \in Seq(T)
          /\ q # <<>> => Head(q) \in S /\ Tail(q) \in Seq(S)
<1>1. q \in Seq(T)
  BY ElementOfSeq, LenProperties, SeqDef
<1>2. \A m \in T : Append(q, m) \in Seq(T)
  BY <1>1, AppendProperties
<1>3. q # <<>> => Head(q) \in S /\ Tail(q) \in Seq(S)
  BY HeadTailProperties, EmptySeq
<1> QED
  BY <1>1, <1>2, <1>3

\* A step changes one connection.
LEMMA OneLink ==
    ASSUME LinkInv, NEW s \in Scans, LinkOf(s)',
           \A r \in Scans : r # s =>
             /\ conn'[r] = conn[r] /\ desk'[r] = desk[r]
             /\ toDesk'[r] = toDesk[r] /\ toPhone'[r] = toPhone[r]
    PROVE LinkInv'
<1> SUFFICES ASSUME NEW r \in Scans, r # s
             PROVE LinkOf(r)'
  BY DEF LinkInv
<1>1. conn'[r] = conn[r] /\ desk'[r] = desk[r]
      /\ toDesk'[r] = toDesk[r] /\ toPhone'[r] = toPhone[r]
  OBVIOUS
<1> QED
  BY <1>1 DEF LinkInv, LinkOf, Linked

\* The two ends of a connection that is up or nearly so are the only ones it names.
LEMMA EndsOf ==
    ASSUME NEW a \in Scans, NEW info, NEW peer, Linked(a, info, peer)
    PROVE Pairing(a) = info /\ Peer(a) = peer
BY DEF Linked, Pairing, Peer

(* A step that leaves the sockets alone keeps their invariant. *)
LEMMA LinkStays ==
    ASSUME LinkTypes, LinkInv, UNCHANGED linkVars
    PROVE LinkTypes' /\ LinkInv'
BY DEF LinkTypes, LinkInv, LinkOf, Linked, linkVars

(* So does one that only drops a socket, ... *)
LEMMA DropsKeeps ==
    ASSUME LinkTypes, LinkInv, NEW s \in Scans, NEW end \in {"none", "failed"}, Drops(s, end)
    PROVE LinkTypes' /\ LinkInv'
<1>1. LinkTypes'
  BY DEF LinkTypes, Drops, Unused, Nobody, ConnStages, DeskStages
<1>2. /\ conn'[s].stage = end /\ desk'[s] = Nobody
      /\ toDesk'[s] = <<>> /\ toPhone'[s] = <<>>
      /\ \A r \in Scans : r # s =>
           /\ conn'[r] = conn[r] /\ desk'[r] = desk[r]
           /\ toDesk'[r] = toDesk[r] /\ toPhone'[r] = toPhone[r]
  BY DEF LinkTypes, Drops, Unused
<1>3. LinkOf(s)'
  BY <1>2 DEF LinkOf
<1> QED
  BY <1>1, <1>2, <1>3, OneLink

(* ... connecting, ... *)
LEMMA ConnectedKeeps ==
    ASSUME LinkTypes, LinkInv, NEW s \in Scans, Connected(s)
    PROVE LinkTypes' /\ LinkInv'
<1>1. PICK info \in Readable : conn[s].pairing = {info}
  BY DEF Connected, LinkInv, LinkOf
<1>2. PICK peer \in Peers : desk' = [desk EXCEPT ![s] = [stage |-> "accepting", peer |-> {peer}]]
  BY DEF Connected
<1>3. /\ Pairing(s) = info /\ toDesk[s] = <<>> /\ toPhone[s] = <<>> /\ UNCHANGED toPhone
      /\ toDesk' = [toDesk EXCEPT ![s] = Append(@, NoiseMessage(info.code))]
      /\ conn' = [conn EXCEPT ![s].stage = "noise"]
  BY <1>1 DEF Connected, LinkInv, LinkOf, Pairing, Writes, Advances
<1>4. LinkTypes'
  BY <1>2, <1>3 DEF LinkTypes, ConnStages, DeskStages
<1>5. /\ conn'[s].stage = "noise" /\ conn'[s].pairing = {info}
      /\ desk'[s].stage = "accepting" /\ desk'[s].peer = {peer}
      /\ toDesk'[s] = Append(<<>>, NoiseMessage(info.code)) /\ toPhone'[s] = <<>>
      /\ \A r \in Scans : r # s =>
           /\ conn'[r] = conn[r] /\ desk'[r] = desk[r]
           /\ toDesk'[r] = toDesk[r] /\ toPhone'[r] = toPhone[r]
  BY <1>1, <1>2, <1>3 DEF LinkTypes
<1>6. toDesk'[s] \in Seq(Said(info, "noise")) /\ toPhone'[s] \in Seq(Says(peer))
  <2>1. NoiseMessage(info.code) \in Said(info, "noise")
    BY DEF Said
  <2>2. <<>> \in Seq(Said(info, "noise")) /\ <<>> \in Seq(Says(peer))
    BY EmptySeq
  <2> QED
    BY <1>5, <2>1, <2>2, OnTheWay
<1>7. LinkOf(s)'
  BY <1>5, <1>6 DEF LinkOf, Linked
<1> QED
  BY <1>4, <1>5, <1>7, OneLink

\* Who a connection is between, at the steps after it was made.
LEMMA LinkEnds ==
    ASSUME LinkInv, NEW s \in Scans, conn[s].stage \in {"noise", "hello", "up"}
    PROVE \E info \in Readable, peer \in Peers :
            Linked(s, info, peer) /\ Pairing(s) = info /\ Peer(s) = peer
<1>1. PICK info \in Readable, peer \in Peers : Linked(s, info, peer)
  BY DEF LinkInv, LinkOf
<1> QED
  BY <1>1, EndsOf

(* ... reading the first reply, ... *)
LEMMA ReadsReplyKeeps ==
    ASSUME LinkTypes, LinkInv, NEW s \in Scans, ReadsReply(s)
    PROVE LinkTypes' /\ LinkInv'
<1>1. conn[s].stage = "noise" /\ toPhone[s] # <<>>
  BY DEF ReadsReply, Arrives
<1>2. PICK info \in Readable, peer \in Peers :
        Linked(s, info, peer) /\ Pairing(s) = info /\ Peer(s) = peer
  BY <1>1, LinkEnds
<1>3. CASE /\ ReplyAccepted(s, Head(toPhone[s])) /\ Reads(s) /\ Advances(s, "hello")
           /\ UNCHANGED <<desk, toDesk>>
  <2>1. /\ Head(toPhone[s]) = NoiseMessage(info.code)
        /\ Head(toPhone[s]) \in Says(peer) /\ Tail(toPhone[s]) \in Seq(Says(peer))
    BY <1>1, <1>2, <1>3, OnTheWay DEF ReplyAccepted, Linked
  <2>2. peer.code = info.code
    BY <2>1, MessageKinds DEF Says
  <2>3. LinkTypes'
    BY <1>3 DEF LinkTypes, Reads, Advances, ConnStages
  <2>4. /\ conn'[s].stage = "hello" /\ conn'[s].pairing = conn[s].pairing
        /\ desk'[s] = desk[s] /\ toDesk'[s] = toDesk[s] /\ toPhone'[s] = Tail(toPhone[s])
        /\ \A r \in Scans : r # s =>
             /\ conn'[r] = conn[r] /\ desk'[r] = desk[r]
             /\ toDesk'[r] = toDesk[r] /\ toPhone'[r] = toPhone[r]
    BY <1>3 DEF LinkTypes, Reads, Advances
  <2>5. Said(info, "hello") = Said(info, "noise")
    BY DEF Said
  <2>6. LinkOf(s)'
    BY <1>1, <1>2, <2>1, <2>2, <2>4, <2>5 DEF LinkOf, Linked
  <2> QED
    BY <2>3, <2>4, <2>6, OneLink
<1> QED
  BY <1>3, DropsKeeps DEF ReadsReply

(* ... reading the hello, ... *)
LEMMA ReadsHelloKeeps ==
    ASSUME LinkTypes, LinkInv, NEW s \in Scans, ReadsHello(s)
    PROVE LinkTypes' /\ LinkInv'
<1>1. conn[s].stage = "hello" /\ toPhone[s] # <<>>
  BY DEF ReadsHello, Arrives
<1>2. PICK info \in Readable, peer \in Peers :
        Linked(s, info, peer) /\ Pairing(s) = info /\ Peer(s) = peer
  BY <1>1, LinkEnds
<1>3. CASE /\ HelloAccepted(s, Head(toPhone[s])) /\ Reads(s) /\ Writes(s, ClientHello)
           /\ Advances(s, "up") /\ UNCHANGED desk
  <2>1. Head(toPhone[s]) \in Says(peer) /\ Tail(toPhone[s]) \in Seq(Says(peer))
    BY <1>1, <1>2, OnTheWay DEF Linked
  <2>2. peer.sid = info.sid /\ peer.version = ProtocolVersion
    BY <1>2, <1>3, <2>1, MessageKinds DEF Says, HelloAccepted
  <2>3. LinkTypes'
    BY <1>3 DEF LinkTypes, Reads, Writes, Advances, ConnStages
  <2>4. /\ conn'[s].stage = "up" /\ conn'[s].pairing = conn[s].pairing
        /\ desk'[s] = desk[s] /\ toPhone'[s] = Tail(toPhone[s])
        /\ toDesk'[s] = Append(toDesk[s], ClientHello)
        /\ \A r \in Scans : r # s =>
             /\ conn'[r] = conn[r] /\ desk'[r] = desk[r]
             /\ toDesk'[r] = toDesk[r] /\ toPhone'[r] = toPhone[r]
    BY <1>3 DEF LinkTypes, Reads, Writes, Advances
  <2>5. toDesk'[s] \in Seq(Said(info, "up"))
    <3>1. Said(info, "hello") \subseteq Said(info, "up") /\ ClientHello \in Said(info, "up")
      BY DEF Said
    <3>2. toDesk[s] \in Seq(Said(info, "hello"))
      BY <1>1, <1>2 DEF Linked
    <3> QED
      BY <2>4, <3>1, <3>2, OnTheWay
  <2>6. LinkOf(s)'
    BY <1>1, <1>2, <2>1, <2>2, <2>4, <2>5 DEF LinkOf, Linked
  <2> QED
    BY <2>3, <2>4, <2>6, OneLink
<1> QED
  BY <1>3, DropsKeeps DEF ReadsHello

\* The other end takes what the phone has written and answers what it may say.
LEMMA DeskKeeps ==
    ASSUME LinkTypes, LinkInv, NEW s \in Scans, DeskActs(s)
    PROVE LinkTypes' /\ LinkInv'
<1>1. /\ desk[s].peer # {} /\ toDesk[s] # <<>> /\ UNCHANGED conn
      /\ toDesk' = [toDesk EXCEPT ![s] = Tail(@)]
  BY DEF DeskActs, DeskReplies, StrangerReplies, DeskTakesHello, DeskTakes
<1>2. conn[s].stage \in {"noise", "hello", "up"}
  BY <1>1 DEF LinkInv, LinkOf, Nobody
<1>3. PICK info \in Readable, peer \in Peers :
        Linked(s, info, peer) /\ Pairing(s) = info /\ Peer(s) = peer
  BY <1>2, LinkEnds
<1>4. /\ Head(toDesk[s]) \in Said(info, conn[s].stage)
      /\ Tail(toDesk[s]) \in Seq(Said(info, conn[s].stage))
  BY <1>1, <1>3, OnTheWay DEF Linked
<1>5. \E stage1 \in {"gone", "greeted", "ready"} :
        /\ desk' = [desk EXCEPT ![s].stage = stage1]
        /\ stage1 = "ready" => Head(toDesk[s]) = ClientHello
  BY DEF DeskActs, DeskReplies, StrangerReplies, DeskTakesHello, DeskAdvances
<1>6. \E ms \in Seq(Says(peer)) : toPhone' = [toPhone EXCEPT ![s] = @ \o ms]
  <2>1. NoiseMessage(peer.code) \in Says(peer) /\ ServerHello(peer) \in Says(peer)
        /\ Junk \in Says(peer) /\ OtherMessage \in Says(peer)
    BY DEF Says
  <2>2. CASE Delivers(s, <<NoiseMessage(peer.code), ServerHello(peer)>>)
    <3>1. <<NoiseMessage(peer.code), ServerHello(peer)>> \in Seq(Says(peer))
      BY <2>1
    <3> QED
      BY <2>2, <3>1 DEF Delivers
  <2>3. CASE UNCHANGED toPhone
    <3>1. <<>> \in Seq(Says(peer)) /\ toPhone[s] \in Seq(Says(peer))
      BY <1>3, EmptySeq DEF Linked
    <3>2. toPhone[s] \o <<>> = toPhone[s]
      BY <3>1
    <3>3. toPhone' = [toPhone EXCEPT ![s] = @ \o <<>>]
      BY <2>3, <3>2 DEF LinkTypes
    <3> QED
      BY <3>1, <3>3
  <2>4. CASE StrangerReplies(s)
    <3>1. PICK hello \in {Junk, OtherMessage, ServerHello(peer)} :
            Delivers(s, IF SameCode(Head(toDesk[s]), peer)
                        THEN <<NoiseMessage(peer.code), hello>> ELSE <<Junk>>)
      BY <1>3, <2>4 DEF StrangerReplies
    <3>2. hello \in Says(peer)
      BY <2>1
    <3>3. <<NoiseMessage(peer.code), hello>> \in Seq(Says(peer)) /\ <<Junk>> \in Seq(Says(peer))
      BY <2>1, <3>2
    <3> QED
      BY <3>1, <3>3 DEF Delivers
  <2> QED
    <3>1. DeskReplies(s) =>
            Delivers(s, <<NoiseMessage(peer.code), ServerHello(peer)>>) \/ UNCHANGED toPhone
      BY <1>3 DEF DeskReplies
    <3>2. DeskTakesHello(s) => UNCHANGED toPhone
      BY DEF DeskTakesHello
    <3> QED
      BY <2>2, <2>3, <2>4, <3>1, <3>2 DEF DeskActs
<1>7. LinkTypes'
  <2>1. (conn \in [Scans -> [stage : ConnStages, pairing : SUBSET Readable]])'
    BY <1>1 DEF LinkTypes
  <2>2. (desk \in [Scans -> [stage : DeskStages, peer : SUBSET Peers]])'
    BY <1>5 DEF LinkTypes, DeskStages
  <2>3. (toDesk = [a \in Scans |-> toDesk[a]])'
    BY <1>1 DEF LinkTypes
  <2>4. (toPhone = [a \in Scans |-> toPhone[a]])'
    BY <1>6 DEF LinkTypes
  <2> QED
    BY <2>1, <2>2, <2>3, <2>4 DEF LinkTypes
<1>8. /\ conn'[s] = conn[s] /\ desk'[s].peer = desk[s].peer
      /\ toDesk'[s] = Tail(toDesk[s])
      /\ desk'[s].stage = "ready" => Head(toDesk[s]) = ClientHello
      /\ \A r \in Scans : r # s =>
           /\ conn'[r] = conn[r] /\ desk'[r] = desk[r]
           /\ toDesk'[r] = toDesk[r] /\ toPhone'[r] = toPhone[r]
  BY <1>1, <1>5, <1>6 DEF LinkTypes
<1>9. toPhone'[s] \in Seq(Says(peer))
  <2>1. PICK ms \in Seq(Says(peer)) : toPhone' = [toPhone EXCEPT ![s] = @ \o ms]
    BY <1>6
  <2>2. toPhone'[s] = toPhone[s] \o ms /\ toPhone[s] \in Seq(Says(peer))
    BY <1>3, <2>1 DEF LinkTypes, Linked
  <2> QED
    BY <2>1, <2>2, ConcatProperties
<1>10. Head(toDesk[s]) = ClientHello => conn[s].stage = "up"
  BY <1>4, MessageKinds DEF Said
<1>11. LinkOf(s)'
  BY <1>2, <1>3, <1>4, <1>8, <1>9, <1>10 DEF LinkOf, Linked
<1> QED
  BY <1>7, <1>8, <1>11, OneLink

(* ... every step of the two ends, ... *)
LEMMA SocketsLink ==
    ASSUME LinkTypes, LinkInv, NEW s \in Scans, Handshakes(s)
    PROVE LinkTypes' /\ LinkInv'
<1>1. ASSUME ConnectFails(s)
      PROVE LinkTypes' /\ LinkInv'
  BY <1>1, DropsKeeps DEF ConnectFails
<1> QED
  BY <1>1, ConnectedKeeps, ReadsReplyKeeps, ReadsHelloKeeps, DeskKeeps
  DEF Handshakes, HandshakeSteps

\* connect_session dials, and lets a session go.
LEMMA DialsKeeps ==
    ASSUME CameraTypes, WindowTypes, LinkTypes, WindowInv, LinkInv, ScanPublished
    PROVE LinkTypes' /\ LinkInv'
<1>1. posted # <<>> /\ posted' = Tail(posted) /\ Head(posted).kind = "result"
  BY DEF ScanPublished, Posted
<1>2. PICK s \in Scans : s = Head(posted).scan
  BY <1>1, ClosureTaken
<1>3. stage[s] = "posted" /\ UNCHANGED <<desk, toDesk, toPhone>>
  BY <1>1, <1>2, ClosureTaken DEF ScanPublished
<1>4. CASE UNCHANGED conn
  BY <1>3, <1>4, LinkStays DEF linkVars
<1>5. CASE ~Cancelled(s) /\ \E info \in result[s] : conn' = [conn EXCEPT ![s] = Dials(info)]
  <2>1. PICK info \in result[s] : conn' = [conn EXCEPT ![s] = Dials(info)]
    BY <1>5
  <2>2. info \in Readable
    BY DEF WindowTypes
  <2>3. conn[s].stage = "none"
    <3>1. ~window.connected
      BY <1>3, <1>5 DEF Live, WindowInv, NoScanConnected
    <3> QED
      BY <1>3, <3>1 DEF WindowInv, ConnOfScan
  <2>4. desk[s] = Nobody /\ toDesk[s] = <<>> /\ toPhone[s] = <<>>
    BY <2>3 DEF LinkInv, LinkOf
  <2>5. LinkTypes'
    BY <1>3, <2>1, <2>2 DEF LinkTypes, Dials, ConnStages
  <2>6. /\ conn'[s].stage = "connecting" /\ conn'[s].pairing = {info}
        /\ \A r \in Scans : r # s => conn'[r] = conn[r]
    BY <2>1 DEF LinkTypes, Dials
  <2>7. LinkOf(s)'
    BY <1>3, <2>2, <2>4, <2>6 DEF LinkOf
  <2> QED
    BY <1>3, <2>5, <2>6, <2>7, OneLink
<1> QED
  BY <1>2, <1>4, <1>5 DEF ScanPublished

(* ... and of the scan that connects. *)
LEMMA ConnectsLink ==
    ASSUME LinkTypes, LinkInv, NEW s \in Scans, SessionConnected(s) \/ SessionInstalled(s)
    PROVE LinkTypes' /\ LinkInv'
<1>1. Drops(s, "none") \/ UNCHANGED linkVars
  BY DEF SessionConnected, SessionInstalled, ShutsDown
<1> QED
  BY <1>1, DropsKeeps, LinkStays

-----------------------------------------------------------------------------

IInv ==
    /\ CameraTypes /\ WindowTypes /\ LinkTypes
    /\ CameraInv /\ WindowInv /\ LinkInv

(* The invariant holds before the first scan. *)
LEMMA InitIInv == Init => IInv
<1> SUFFICES ASSUME Init
             PROVE IInv
  OBVIOUS
<1>1. CameraTypes /\ CameraInv
  BY LayoutsAssumption, ScansAssumption
  DEF Init, CameraTypes, CameraInv, CameraUnderGate, Stages, NoRotation
<1>2. WindowTypes
  <2>1. Layouts[display] \in WindowLayouts
    BY <1>1 DEF CameraTypes, WindowLayouts
  <2>2. NoRotation \in Int
    BY DEF NoRotation
  <2>3. window \in Windows
    BY <2>1, <2>2 DEF Init, Windows
  <2> QED
    BY <2>3, EmptySeq DEF Init, WindowTypes
<1>3. LinkTypes /\ LinkInv
  BY DEF Init, HandshakeInit, LinkTypes, LinkInv, LinkOf, Unused, Nobody, ConnStages, DeskStages
<1>4. \A s \in Scans : stage[s] = "none" /\ conn[s].stage = "none" /\ ~Live(s)
  BY DEF Init, HandshakeInit, Unused, Live
<1>5. ~window.busy /\ ~window.scanning /\ ~window.connected
  BY DEF Init
<1>6. WindowInv
  BY <1>4, <1>5, ScansAssumption
  DEF Init, WindowInv, WindowFollowsScan, NotBegun, NoScanConnected, ConnOfScan, ResultsOnce
<1> QED
  BY <1>1, <1>2, <1>3, <1>6 DEF IInv

(* Every step keeps it. *)
LEMMA StepIInv == IInv /\ [Next]_vars => IInv'
<1> SUFFICES ASSUME IInv, [Next]_vars
             PROVE IInv'
  OBVIOUS
<1>1. CameraTypes /\ WindowTypes /\ LinkTypes /\ CameraInv /\ WindowInv /\ LinkInv
  BY DEF IInv
<1> SUFFICES CameraTypes' /\ CameraInv' /\ WindowTypes' /\ WindowInv' /\ LinkTypes' /\ LinkInv'
  BY DEF IInv
<1>2. CASE CancelRemoteScan
  BY <1>1, <1>2, CameraKept, CancelKeeps, LinkStays
  DEF CancelRemoteScan, cameraVars, viewVars, CameraTypes
<1>3. CASE DisplayTurns \/ LayoutChanges \/ GeometryChanged
  <2>1. UNCHANGED <<gate, held, image, stage, linkVars>> /\ display' \in DOMAIN Layouts
    BY <1>1, <1>3
    DEF DisplayTurns, LayoutChanges, GeometryChanged, scanVars, cameraVars, viewVars, CameraTypes
  <2> QED
    BY <1>1, <1>3, <2>1, CameraKept, LayoutKeeps, LinkStays
<1>4. CASE PreviewShown
  <2>1. UNCHANGED <<gate, held, image, stage, display, linkVars>>
    BY <1>4 DEF PreviewShown, scanVars, cameraVars
  <2> QED
    BY <1>1, <1>4, <2>1, CameraKept, PreviewShownKeeps, LinkStays DEF CameraTypes
<1>5. CASE ScanPublished
  <2>1. posted # <<>> /\ posted' = Tail(posted) /\ Head(posted).kind = "result"
    BY <1>5 DEF ScanPublished, Posted
  <2>2. PICK s \in Scans : s = Head(posted).scan /\ stage[s] = "posted"
    BY <1>1, <2>1, ClosureTaken
  <2>3. UNCHANGED <<gate, held, image, display>>
        /\ \E w \in {"gone", "connecting"} : stage' = [stage EXCEPT ![s] = w]
    BY <1>5, <2>2 DEF ScanPublished, Goes, viewVars
  <2>4. CameraTypes' /\ CameraInv'
    BY <1>1, <2>2, <2>3, CameraKept DEF CameraTypes, CameraStages, Stages
  <2> QED
    BY <1>1, <1>5, <2>4, ScanPublishedKeeps, DialsKeeps
<1>6. ASSUME NEW s \in Scans, TapScan(s)
      PROVE CameraTypes' /\ CameraInv' /\ WindowTypes' /\ WindowInv' /\ LinkTypes' /\ LinkInv'
  <2>1. /\ UNCHANGED <<gate, held, image, display, linkVars>>
        /\ stage[s] = "none" /\ stage' = [stage EXCEPT ![s] = "permission"]
    BY <1>6 DEF TapScan, At, Goes, cameraVars, viewVars
  <2>2. CameraTypes' /\ CameraInv'
    BY <1>1, <2>1, CameraKept DEF CameraTypes, CameraStages, Stages
  <2> QED
    BY <1>1, <1>6, <2>1, <2>2, TapScanKeeps, LinkStays
<1>7. ASSUME NEW s \in Scans, PermissionAnswered(s)
      PROVE CameraTypes' /\ CameraInv' /\ WindowTypes' /\ WindowInv' /\ LinkTypes' /\ LinkInv'
  <2>1. /\ UNCHANGED <<gate, held, image, display, linkVars>> /\ stage[s] = "permission"
        /\ \E w \in {"gone", "gate"} : stage' = [stage EXCEPT ![s] = w]
    BY <1>7 DEF PermissionAnswered, StartQrScan, At, Goes, cameraVars
  <2>2. CameraTypes' /\ CameraInv'
    BY <1>1, <2>1, CameraKept DEF CameraTypes, CameraStages, Stages
  <2> QED
    BY <1>1, <1>7, <2>1, <2>2, PermissionKeeps, LinkStays
<1>8. ASSUME NEW s \in Scans, ThreadSteps(s)
      PROVE CameraTypes' /\ CameraInv' /\ WindowTypes' /\ WindowInv' /\ LinkTypes' /\ LinkInv'
  <2>1. CASE Publishes(s)
    <3>1. /\ UNCHANGED <<gate, held, image, display, linkVars>> /\ stage[s] = "publishing"
          /\ \E w \in {"gone", "posted"} : stage' = [stage EXCEPT ![s] = w]
      BY <2>1 DEF Publishes, At, Goes, cameraVars, viewVars
    <3>2. CameraTypes' /\ CameraInv'
      BY <1>1, <3>1, CameraKept DEF CameraTypes, CameraStages, Stages
    <3> QED
      BY <1>1, <2>1, <3>1, <3>2, PublishesKeeps, LinkStays
  <2>2. CASE EntersGate(s) \/ OpensCamera(s) \/ LooksInVain(s) \/ Receives(s) \/ ClosesCamera(s)
    <3>1. UNCHANGED linkVars
      BY <2>2 DEF EntersGate, OpensCamera, LooksInVain, Receives, ClosesCamera, ThreadUnchanged
    <3>2. CameraTypes' /\ CameraInv'
      BY <1>1, <2>2, EntersGateKeeps, OpensCameraKeeps, LookingKeeps, ClosesCameraKeeps
    <3> QED
      BY <1>1, <2>2, <3>1, <3>2, ThreadKeeps, LinkStays
  <2> QED
    BY <1>8, <2>1, <2>2 DEF ThreadSteps
<1>9. ASSUME NEW s \in Scans, SessionConnected(s) \/ SessionInstalled(s)
      PROVE CameraTypes' /\ CameraInv' /\ WindowTypes' /\ WindowInv' /\ LinkTypes' /\ LinkInv'
  <2>1. /\ UNCHANGED <<gate, held, image, display>> /\ stage[s] \in {"connecting", "installing"}
        /\ \E w \in {"gone", "installing"} : stage' = [stage EXCEPT ![s] = w]
    BY <1>9 DEF SessionConnected, SessionInstalled, ShutsDown, At, Goes, cameraVars, viewVars
  <2>2. CameraTypes' /\ CameraInv'
    BY <1>1, <2>1, CameraKept DEF CameraTypes, CameraStages, Stages
  <2> QED
    BY <1>1, <1>9, <2>2, ConnectsKeeps, ConnectsLink
<1>10. ASSUME NEW s \in Scans, ImageArrives(s) \/ ImageDecoded(s)
       PROVE CameraTypes' /\ CameraInv' /\ WindowTypes' /\ WindowInv' /\ LinkTypes' /\ LinkInv'
  <2>1. UNCHANGED linkVars
    BY <1>10 DEF ImageArrives, ImageDecoded
  <2> QED
    BY <1>1, <1>10, <2>1, ImageKeeps, ImagesKeep, LinkStays
<1>11. ASSUME NEW s \in Scans, Handshakes(s)
       PROVE CameraTypes' /\ CameraInv' /\ WindowTypes' /\ WindowInv' /\ LinkTypes' /\ LinkInv'
  <2>1. UNCHANGED <<gate, held, image, stage, display>>
    BY <1>11 DEF Handshakes, scanVars, cameraVars, viewVars
  <2> QED
    BY <1>1, <1>11, <2>1, CameraKept, SocketsKeep, SocketsLink DEF CameraTypes
<1>12. CASE UNCHANGED vars
  <2>1. UNCHANGED <<gate, held, image, stage, display, linkVars>>
        /\ UNCHANGED <<slot, cancelled, window, posted, found, result, conn>>
    BY <1>12 DEF vars, scanVars, cameraVars, viewVars, linkVars
  <2>2. WindowTypes' /\ ResultsOnce'
    BY <1>1, <2>1, ResultsStay DEF WindowTypes, WindowInv
  <2>3. WindowInv'
    BY <1>1, <2>1, <2>2, ScansKept DEF WindowFlags
  <2> QED
    BY <1>1, <2>1, <2>2, <2>3, CameraKept, LinkStays DEF CameraTypes
<1> QED
  BY <1>2, <1>3, <1>4, <1>5, <1>6, <1>7, <1>8, <1>9, <1>10, <1>11, <1>12
  DEF Next, EventLoop, TaskSteps

(* So it always holds. *)
LEMMA InvariantHolds == Spec => []IInv
BY InitIInv, StepIInv, PTL DEF Spec

-----------------------------------------------------------------------------
(* The crop and the box, for images and views of any size.                 *)

Sizes == [width : Nat \ {0}, height : Nat \ {0}]

\* Rounding down, against a whole number.
LEMMA AtLeastQuotient ==
    ASSUME NEW a \in Int, NEW b \in Nat \ {0}, NEW m \in Int
    PROVE m <= a \div b <=> m * b <= a
<1>1. PICK q \in Int : q = a \div b
  OBVIOUS
<1>2. q * b <= a /\ a < (q + 1) * b
  BY <1>1
<1>3. ASSUME m <= q PROVE m * b <= a
  BY <1>2, <1>3
<1>4. ASSUME q < m PROVE a < m * b
  BY <1>2, <1>4
<1> QED
  BY <1>1, <1>3, <1>4

\* The bounds of the crop, rounded inwards, in the units of the view.
LEMMA InSideExactly ==
    ASSUME NEW n \in Int, NEW length \in Int, NEW side \in Int, NEW unit \in Nat \ {0}
    PROVE InSide(n, length, side, unit)
            <=> -side <= (2 * n - length) * unit /\ (2 * (n + 1) - length) * unit <= side
<1>1. PICK u \in Nat \ {0} : u = 2 * unit
  OBVIOUS
<1>2. PICK whole \in Int : whole = length * unit
  OBVIOUS
<1>3. From(length, side, unit) <= n <=> -n * u <= -(whole - side)
  <2>1. -n <= (-(whole - side)) \div u <=> -n * u <= -(whole - side)
    BY AtLeastQuotient
  <2>2. From(length, side, unit) = -((-(whole - side)) \div u)
    BY <1>1, <1>2 DEF From, CeilDiv
  <2>3. (-(whole - side)) \div u \in Int
    OBVIOUS
  <2> QED
    BY <2>1, <2>2, <2>3
<1>4. n < Until(length, side, unit) <=> (n + 1) * u <= whole + side
  <2>1. n + 1 <= (whole + side) \div u <=> (n + 1) * u <= whole + side
    BY AtLeastQuotient
  <2>2. Until(length, side, unit) = (whole + side) \div u /\ (whole + side) \div u \in Int
    BY <1>1, <1>2 DEF Until
  <2> QED
    BY <2>1, <2>2
<1>5. (2 * n - length) * unit = n * u - whole /\ (2 * (n + 1) - length) * unit = (n + 1) * u - whole
  BY <1>1, <1>2
<1>6. n * u \in Int /\ -n * u = -(n * u) /\ (n + 1) * u \in Int
  OBVIOUS
<1> QED
  BY <1>3, <1>4, <1>5, <1>6 DEF InSide

\* The crop is never larger than the box, and no smaller when the box is in the view.
LEMMA SideOfBox ==
    ASSUME NEW size \in Sizes, NEW layout \in [width : Int, height : Int, box : Int],
           IsSet(layout)
    PROVE /\ Cover(size, layout) \in Nat \ {0}
          /\ Side(size, layout) \in Int
          /\ Side(size, layout) <= layout.box * size.width * size.height
          /\ layout.box <= Least(layout.width, layout.height) =>
                Side(size, layout) = layout.box * size.width * size.height
<1>1. PICK w \in Nat \ {0}, h \in Nat \ {0} : w = size.width /\ h = size.height
  BY DEF Sizes
<1>2. PICK lw \in Nat \ {0}, lh \in Nat \ {0}, box \in Nat \ {0} :
        lw = layout.width /\ lh = layout.height /\ box = layout.box
  BY DEF IsSet
<1>3. PICK cover \in Nat \ {0} :
        cover = Cover(size, layout) /\ lw * h <= cover /\ lh * w <= cover
  BY <1>1, <1>2 DEF Cover, Largest
<1>4. PICK least \in Nat \ {0} : least = Least(w, h) /\ least \in {w, h}
  BY DEF Least
<1>5. PICK area \in Nat, most \in Nat : area = box * w * h /\ most = least * cover
  OBVIOUS
<1>6. Side(size, layout) = Least(area, most)
  BY <1>1, <1>2, <1>3, <1>4, <1>5 DEF Side
<1>7. ASSUME box <= lw, box <= lh PROVE area <= most
  <2>1. CASE least = w
    <3>1. box * h <= lw * h
      BY <1>7
    <3>2. box * h <= cover
      BY <1>3, <3>1
    <3>3. w * (box * h) <= w * cover
      BY <3>2
    <3> QED
      BY <1>5, <2>1, <3>3
  <2>2. CASE least = h
    <3>1. box * w <= lh * w
      BY <1>7
    <3>2. box * w <= cover
      BY <1>3, <3>1
    <3>3. h * (box * w) <= h * cover
      BY <3>2
    <3> QED
      BY <1>5, <2>2, <3>3
  <2> QED
    BY <1>4, <2>1, <2>2
<1> QED
  BY <1>1, <1>2, <1>3, <1>5, <1>6, <1>7 DEF Least

\* The crop takes from an image what the preview shows at the same place.
LEMMA SourceIsShown ==
    ASSUME NEW size \in Sizes, NEW rotation \in Int,
           NEW x \in 0 .. Upright(size, rotation).width - 1,
           NEW y \in 0 .. Upright(size, rotation).height - 1
    PROVE /\ Source(x, y, size, rotation) \in (0 .. size.width - 1) \X (0 .. size.height - 1)
          /\ LET from == Source(x, y, size, rotation)
             IN Shown(from[1], from[2], size, rotation) = <<x, y>>
BY DEF Sizes, Upright, Source, Shown

(* And the other way round. *)
LEMMA ShownIsSource ==
    ASSUME NEW size \in Sizes, NEW rotation \in Int,
           NEW x \in 0 .. size.width - 1, NEW y \in 0 .. size.height - 1
    PROVE LET at == Shown(x, y, size, rotation)
          IN /\ at[1] \in 0 .. Upright(size, rotation).width - 1
             /\ at[2] \in 0 .. Upright(size, rotation).height - 1
             /\ Source(at[1], at[2], size, rotation) = <<x, y>>
BY DEF Sizes, Upright, Source, Shown

(* Turned upright it is an image still. *)
LEMMA UprightSize ==
    ASSUME NEW size \in Sizes, NEW rotation
    PROVE Upright(size, rotation) \in Sizes
BY DEF Sizes, Upright

\* Every pixel that reaches the decoder, of an image with even sides, is in the box of
\* the window, ...
LEMMA CropInBox ==
    ASSUME NEW size \in Sizes, Whole(size), NEW rotation \in Int, NEW scan,
           scan.layout \in [width : Int, height : Int, box : Int]
    PROVE Crop(size, rotation, scan) \subseteq InBox(size, rotation, scan.layout)
<1> SUFFICES ASSUME NEW pixel \in Crop(size, rotation, scan)
             PROVE pixel \in InBox(size, rotation, scan.layout)
  OBVIOUS
<1> DEFINE layout == scan.layout
           up == Upright(size, rotation)
           side == Side(up, layout)
           unit == Cover(up, layout)
           area == layout.box * up.width * up.height
<1>1. IsSet(layout)
  BY DEF Crop
<1>2. PICK x \in 0 .. up.width - 1, y \in 0 .. up.height - 1 :
        /\ InSide(x, up.width, side, unit) /\ InSide(y, up.height, side, unit)
        /\ pixel = Source(x, y, size, rotation)
  BY DEF Crop
<1>3. up \in Sizes
  BY UprightSize
<1>4. unit \in Nat \ {0} /\ side \in Int /\ side <= area
  BY <1>1, <1>3, SideOfBox
<1>5. up.width \in Int /\ up.height \in Int /\ layout.box \in Int
  BY <1>3 DEF Sizes
<1>6. area \in Int
  BY <1>5
<1>7. /\ pixel \in (0 .. size.width - 1) \X (0 .. size.height - 1)
      /\ Shown(pixel[1], pixel[2], size, rotation) = <<x, y>>
  BY <1>2, SourceIsShown
<1> HIDE DEF up, side, unit, layout
<1>8. ASSUME NEW n \in Int, NEW length \in Int, InSide(n, length, side, unit)
      PROVE BetweenEdges(n, length, up, layout)
  <2>1. -side <= (2 * n - length) * unit /\ (2 * (n + 1) - length) * unit <= side
    BY <1>4, <1>8, InSideExactly
  <2>2. -area <= (2 * n - length) * unit /\ (2 * (n + 1) - length) * unit <= area
    BY <1>4, <1>6, <2>1
  <2> QED
    BY <2>2 DEF BetweenEdges, unit
<1>9. BetweenEdges(x, up.width, up, layout) /\ BetweenEdges(y, up.height, up, layout)
  BY <1>2, <1>5, <1>8
<1> QED
  BY <1>7, <1>9 DEF InBox, Whole, up, layout

\* ... and every pixel of a box that is no larger than the view reaches it.
LEMMA BoxInCrop ==
    ASSUME NEW size \in Sizes, Whole(size), NEW rotation \in Int,
           NEW layout \in [width : Int, height : Int, box : Int],
           IsSet(layout), layout.box <= Least(layout.width, layout.height)
    PROVE InBox(size, rotation, layout)
            \subseteq Crop(size, rotation, [layout |-> layout, rotation |-> rotation])
<1> SUFFICES ASSUME NEW pixel \in InBox(size, rotation, layout)
             PROVE pixel \in Crop(size, rotation, [layout |-> layout, rotation |-> rotation])
  OBVIOUS
<1> DEFINE up == Upright(size, rotation)
           side == Side(up, layout)
           unit == Cover(up, layout)
<1>1. up \in Sizes
  BY UprightSize
<1>2. unit \in Nat \ {0} /\ side \in Int /\ side = layout.box * up.width * up.height
  BY <1>1, SideOfBox
<1>3. PICK x \in 0 .. size.width - 1, y \in 0 .. size.height - 1 : pixel = <<x, y>>
  BY DEF InBox, Whole
<1>4. PICK at \in (0 .. up.width - 1) \X (0 .. up.height - 1) :
        at = Shown(x, y, size, rotation) /\ pixel = Source(at[1], at[2], size, rotation)
  <2>1. /\ Shown(x, y, size, rotation)[1] \in 0 .. up.width - 1
        /\ Shown(x, y, size, rotation)[2] \in 0 .. up.height - 1
        /\ pixel = Source(Shown(x, y, size, rotation)[1], Shown(x, y, size, rotation)[2], size, rotation)
    BY <1>3, ShownIsSource
  <2>2. Shown(x, y, size, rotation) = <<Shown(x, y, size, rotation)[1], Shown(x, y, size, rotation)[2]>>
    BY DEF Shown
  <2> QED
    BY <2>1, <2>2
<1>5. BetweenEdges(at[1], up.width, up, layout) /\ BetweenEdges(at[2], up.height, up, layout)
  BY <1>3, <1>4 DEF InBox, Whole
<1>6. up.width \in Int /\ up.height \in Int
  BY <1>1 DEF Sizes
<1>7. ASSUME NEW n \in Int, NEW length \in Int, BetweenEdges(n, length, up, layout)
      PROVE InSide(n, length, side, unit)
  <2>1. -side <= (2 * n - length) * unit /\ (2 * (n + 1) - length) * unit <= side
    BY <1>2, <1>7 DEF BetweenEdges
  <2> HIDE DEF side, unit
  <2> QED
    BY <1>2, <2>1, InSideExactly
<1>8. InSide(at[1], up.width, side, unit) /\ InSide(at[2], up.height, side, unit)
  BY <1>4, <1>5, <1>6, <1>7
<1> HIDE DEF up, side, unit
<1>9. pixel \in {Source(a, b, size, rotation) :
                   a \in {n \in 0 .. up.width - 1 : InSide(n, up.width, side, unit)},
                   b \in {n \in 0 .. up.height - 1 : InSide(n, up.height, side, unit)}}
  BY <1>4, <1>8
<1> QED
  BY <1>9 DEF Crop, SameRotation, up, side, unit

-----------------------------------------------------------------------------
(* The regions.                                                            *)

CameraLayouts == [width : Int, height : Int, box : Int]
BeforeCamera == {"none", "permission"}
AtCamera == {"gate"} \cup CameraStages

RegionTypes == region \in [Scans -> [layout : CameraLayouts, rotation : Int]]
\* The token of any scan but the last that was tapped is set.
OthersCancelled == \A s \in Scans : stage[s] # "none" /\ ~Cancelled(s) => slot = s
\* No region is filled before its scan has the camera to itself, ...
RegionAwaited ==
    /\ \A s \in Scans : stage[s] \in BeforeCamera => s # registered /\ region[s] = NoRegion
    /\ \A n \in 1 .. Len(posted) : posted[n].kind = "preview" =>
        posted[n].rotation # NoRotation /\ stage[posted[n].scan] \notin BeforeCamera
\* ... and from then on, until it is given up or over, it says what the window shows.
Shows(s) ==
    /\ registered = s
    /\ region[s].rotation = IF window.preview = NoRotation THEN 0 ELSE window.preview
    /\ window.told => region[s].layout \in {UnsetLayout, window.layout}
RegionIsShown == \A s \in Scans : stage[s] \in AtCamera /\ ~Cancelled(s) => Shows(s)

ViewInv == RegionTypes /\ OthersCancelled /\ RegionAwaited /\ RegionIsShown

WindowView == <<window.preview, window.layout, window.told>>

\* Steps that leave the view, the regions and the tokens alone, and bring no scan
\* back to where it was; what they post shows an image of a scan with the camera.
LEMMA ViewKept ==
    ASSUME ViewInv, OthersCancelled', cancelled \subseteq cancelled',
           UNCHANGED <<region, registered, WindowView>>,
           \A s \in Scans : /\ stage'[s] \in BeforeCamera => stage[s] \in BeforeCamera
                            /\ stage'[s] \in AtCamera => stage[s] \in AtCamera,
           \A n \in 1 .. Len(posted') : posted'[n].kind = "preview" =>
                posted'[n].rotation # NoRotation /\ stage'[posted'[n].scan] \notin BeforeCamera
    PROVE ViewInv'
<1>1. RegionTypes'
  BY DEF ViewInv, RegionTypes
<1>2. RegionAwaited'
  BY DEF ViewInv, RegionAwaited
<1>3. RegionIsShown'
  BY DEF ViewInv, RegionIsShown, Shows, WindowView, Cancelled
<1> QED
  BY <1>1, <1>2, <1>3 DEF ViewInv

\* No token is reset, and the slot changes only with the token in it set.
LEMMA OthersStay ==
    ASSUME OthersCancelled, cancelled \subseteq cancelled', UNCHANGED slot,
           \A s \in Scans : stage'[s] # "none" => stage[s] # "none"
    PROVE OthersCancelled'
BY DEF OthersCancelled, Cancelled

\* What is posted stays what it was while scans go on.
LEMMA PreviewsStay ==
    ASSUME WindowTypes, RegionAwaited, UNCHANGED posted,
           \A s \in Scans : stage'[s] \in BeforeCamera => stage[s] \in BeforeCamera
    PROVE \A n \in 1 .. Len(posted') : posted'[n].kind = "preview" =>
            posted'[n].rotation # NoRotation /\ stage'[posted'[n].scan] \notin BeforeCamera
BY PostedTypes DEF RegionAwaited

\* The steps of a task or a thread that say nothing of the camera's view.
LEMMA ScanMovesOn ==
    ASSUME CameraTypes, WindowTypes, ViewInv, NEW s \in Scans,
           UNCHANGED <<slot, cancelled, region, registered, posted, WindowView>>,
           NEW w \in Stages \ (BeforeCamera \cup {"gate"}), stage[s] # "none",
           w \in AtCamera => stage[s] \in AtCamera,
           stage' \in {stage, [stage EXCEPT ![s] = w]}
    PROVE ViewInv'
<1>1. \A r \in Scans : /\ stage'[r] # "none" => stage[r] # "none"
                       /\ stage'[r] \in BeforeCamera => stage[r] \in BeforeCamera
                       /\ stage'[r] \in AtCamera => stage[r] \in AtCamera
  BY DEF CameraTypes, BeforeCamera
<1>2. OthersCancelled'
  BY <1>1, OthersStay DEF ViewInv
<1> QED
  BY <1>1, <1>2, PreviewsStay, ViewKept DEF ViewInv

(* A tap takes the place of the last scan, whose token is set, ... *)
LEMMA TapScanView ==
    ASSUME CameraTypes, WindowTypes, ViewInv, NEW s \in Scans, TapScan(s)
    PROVE ViewInv'
<1>1. /\ stage[s] = "none" /\ stage' = [stage EXCEPT ![s] = "permission"]
      /\ slot' = s /\ cancelled' = cancelled \cup ({slot} \ {NoScan})
      /\ window' = [window EXCEPT !.busy = TRUE]
      /\ UNCHANGED <<region, registered, posted>>
  BY DEF TapScan, At, Goes, cameraVars, viewVars
<1>2. UNCHANGED WindowView
  BY <1>1 DEF WindowView, WindowTypes, Windows
<1>3. \A r \in Scans : /\ stage'[r] \in BeforeCamera => stage[r] \in BeforeCamera
                       /\ stage'[r] \in AtCamera => stage[r] \in AtCamera
  BY <1>1 DEF CameraTypes, BeforeCamera, AtCamera, CameraStages
<1>4. OthersCancelled'
  BY <1>1, ScansAssumption DEF CameraTypes, ViewInv, OthersCancelled, Cancelled
<1> QED
  BY <1>1, <1>2, <1>3, <1>4, PreviewsStay, ViewKept DEF ViewInv

(* ... and a cancel empties it; the view stays, ... *)
LEMMA CancelView ==
    ASSUME CameraTypes, WindowTypes, ViewInv, CancelRemoteScan
    PROVE ViewInv'
<1>1. /\ slot' = NoScan /\ cancelled' = cancelled \cup ({slot} \ {NoScan})
      /\ window' = [window EXCEPT !.scanning = FALSE, !.busy = FALSE]
      /\ UNCHANGED <<stage, region, registered, posted>>
  BY DEF CancelRemoteScan, cameraVars, viewVars
<1>2. UNCHANGED WindowView
  BY <1>1 DEF WindowView, WindowTypes, Windows
<1>3. OthersCancelled'
  BY <1>1, ScansAssumption DEF ViewInv, OthersCancelled, Cancelled
<1> QED
  BY <1>1, <1>2, <1>3, PreviewsStay, ViewKept DEF ViewInv

\* start_qr_scan: nothing is shown yet, the region is empty and the scan's own.
LEMMA PermissionView ==
    ASSUME CameraTypes, WindowTypes, ViewInv, NEW s \in Scans, PermissionAnswered(s)
    PROVE ViewInv'
<1>1. stage[s] = "permission" /\ UNCHANGED <<slot, cancelled, region, posted>>
  BY DEF PermissionAnswered, At
<1>2. CASE UNCHANGED registered /\ stage' = [stage EXCEPT ![s] = "gone"]
           /\ window' \in {window, [window EXCEPT !.busy = FALSE]}
  <2>1. UNCHANGED WindowView
    BY <1>2 DEF WindowView, WindowTypes, Windows
  <2> QED
    BY <1>1, <1>2, <2>1, ScanMovesOn DEF Stages, BeforeCamera, AtCamera, CameraStages
<1>3. CASE ~Cancelled(s) /\ StartQrScan(s)
  <2>1. /\ window' = [window EXCEPT !.busy = TRUE, !.connected = FALSE, !.scanning = TRUE,
                                    !.preview = NoRotation]
        /\ registered' = s /\ stage' = [stage EXCEPT ![s] = "gate"]
    BY <1>3 DEF StartQrScan, Goes
  <2>2. window'.preview = NoRotation
    BY <2>1 DEF WindowTypes, Windows
  <2>3. region'[s] = NoRegion
    BY <1>1 DEF ViewInv, RegionAwaited, BeforeCamera
  <2>4. \A r \in Scans : stage'[r] = IF r = s THEN "gate" ELSE stage[r]
    BY <2>1 DEF CameraTypes
  <2>5. RegionTypes' /\ OthersCancelled'
    BY <1>1, <2>4 DEF ViewInv, RegionTypes, OthersCancelled, Cancelled
  <2>6. RegionAwaited'
    <3>1. \A r \in Scans : stage'[r] \in BeforeCamera => stage[r] \in BeforeCamera /\ r # s
      BY <2>4 DEF BeforeCamera
    <3>2. \A r \in Scans : stage'[r] \in BeforeCamera => r # registered' /\ region'[r] = NoRegion
      BY <1>1, <2>1, <3>1 DEF ViewInv, RegionAwaited
    <3> QED
      BY <1>1, <3>1, <3>2, PreviewsStay DEF ViewInv, RegionAwaited
  <2>7. ASSUME NEW r \in Scans, stage'[r] \in AtCamera, ~Cancelled(r)'
        PROVE Shows(r)'
    <3>1. slot = s /\ slot = r
      BY <1>1, <1>3, <2>4, <2>7 DEF ViewInv, OthersCancelled, Cancelled, AtCamera, CameraStages
    <3>2. NoRegion.rotation = 0 /\ NoRegion.layout = UnsetLayout
      BY DEF NoRegion
    <3> QED
      BY <2>1, <2>2, <2>3, <3>1, <3>2 DEF Shows
  <2> QED
    BY <2>5, <2>6, <2>7 DEF ViewInv, RegionIsShown
<1> QED
  BY <1>2, <1>3 DEF PermissionAnswered, Goes

\* A thread that opens, looks or ends says nothing of the view; closing the camera
\* the region is dropped, of a scan that reads no more.
LEMMA ThreadView ==
    ASSUME CameraTypes, WindowTypes, ViewInv, NEW s \in Scans, ThreadSteps(s)
    PROVE ViewInv'
<1>1. CASE EntersGate(s) \/ OpensCamera(s) \/ LooksInVain(s) \/ Receives(s)
  <2>1. UNCHANGED <<slot, cancelled, region, registered, posted, window>>
    BY <1>1 DEF EntersGate, OpensCamera, LooksInVain, Receives, ThreadUnchanged, viewVars
  <2>2. stage[s] \in AtCamera
    BY <1>1 DEF EntersGate, OpensCamera, LooksInVain, Receives, At, AtCamera, CameraStages
  <2>3. PICK w \in {"opening", "looking", "closing", "publishing"} :
          stage' \in {stage, [stage EXCEPT ![s] = w]}
    BY <1>1 DEF EntersGate, OpensCamera, LooksInVain, Receives, Goes
  <2> QED
    BY <2>1, <2>2, <2>3, ScanMovesOn
    DEF Stages, BeforeCamera, AtCamera, CameraStages, WindowView
<1>2. CASE Publishes(s)
  <2>1. /\ stage[s] = "publishing" /\ UNCHANGED <<slot, cancelled, region, registered, window>>
        /\ \E w \in {"posted", "gone"} : stage' = [stage EXCEPT ![s] = w]
        /\ \/ posted' = posted
           \/ posted' = Append(posted, [kind |-> "result", scan |-> s, rotation |-> NoRotation])
    BY <1>2 DEF Publishes, At, Goes, viewVars
  <2>2. \A r \in Scans : /\ stage'[r] # "none" => stage[r] # "none"
                         /\ stage'[r] \in BeforeCamera => stage[r] \in BeforeCamera
                         /\ stage'[r] \in AtCamera => stage[r] \in AtCamera
    BY <2>1 DEF CameraTypes, BeforeCamera, AtCamera, CameraStages
  <2>3. ASSUME NEW n \in 1 .. Len(posted'), posted'[n].kind = "preview"
        PROVE n \in 1 .. Len(posted) /\ posted'[n] = posted[n]
    BY <2>1, <2>3 DEF WindowTypes
  <2>4. \A n \in 1 .. Len(posted') : posted'[n].kind = "preview" =>
          posted'[n].rotation # NoRotation /\ stage'[posted'[n].scan] \notin BeforeCamera
    BY <2>2, <2>3, PostedTypes DEF ViewInv, RegionAwaited
  <2> QED
    BY <2>1, <2>2, <2>4, OthersStay, ViewKept DEF ViewInv, WindowView
<1>3. CASE ClosesCamera(s)
  <2>1. stage[s] = "closing" /\ UNCHANGED <<slot, cancelled, registered, posted, window>>
    BY <1>3 DEF ClosesCamera, At
  <2>2. CASE UNCHANGED <<stage, region>>
    BY <2>1, <2>2, ScanMovesOn DEF Stages, BeforeCamera, AtCamera, CameraStages, WindowView
  <2>3. CASE /\ stage' = [stage EXCEPT ![s] = "publishing"]
             /\ region' = [region EXCEPT ![s] = NoRegion]
    <3>1. \A r \in Scans : /\ stage'[r] # "none" => stage[r] # "none"
                           /\ stage'[r] \in BeforeCamera => stage[r] \in BeforeCamera /\ r # s
                           /\ stage'[r] \in AtCamera => stage[r] \in AtCamera /\ r # s
      BY <2>1, <2>3 DEF CameraTypes, BeforeCamera, AtCamera, CameraStages
    <3>2. \A r \in Scans : r # s => region'[r] = region[r]
      BY <2>3 DEF ViewInv, RegionTypes
    <3>3. RegionTypes'
      BY <2>3 DEF ViewInv, RegionTypes, NoRegion, UnsetLayout, CameraLayouts
    <3>4. RegionAwaited'
      BY <2>1, <3>1, <3>2, PreviewsStay DEF ViewInv, RegionAwaited
    <3>5. RegionIsShown'
      BY <2>1, <3>1, <3>2 DEF ViewInv, RegionIsShown, Shows, Cancelled
    <3> QED
      BY <2>1, <3>1, <3>3, <3>4, <3>5, OthersStay DEF ViewInv
  <2> QED
    BY <1>3, <2>2, <2>3 DEF ClosesCamera, Goes
<1> QED
  BY <1>1, <1>2, <1>3 DEF ThreadSteps

\* A result, told or not, and what becomes of a session: nothing of the view.
LEMMA TaskView ==
    ASSUME CameraTypes, WindowTypes, WindowInv, ViewInv,
           \/ ScanPublished
           \/ \E s \in Scans : SessionConnected(s) \/ SessionInstalled(s)
    PROVE ViewInv'
<1>1. UNCHANGED <<slot, cancelled, region, registered>>
  BY DEF ScanPublished, SessionConnected, SessionInstalled, viewVars
<1>2. UNCHANGED WindowView
  <2>1. window' = window \/ \E f \in {Failed, [window EXCEPT !.scanning = FALSE],
                                      [window EXCEPT !.connected = FALSE, !.busy = FALSE],
                                      [window EXCEPT !.connected = TRUE, !.busy = FALSE]} : window' = f
    BY DEF ScanPublished, SessionConnected, SessionInstalled, ShutsDown
  <2> QED
    BY <2>1 DEF WindowView, WindowTypes, Windows, Failed
<1>3. CASE ScanPublished
  <2>1. posted # <<>> /\ posted' = Tail(posted) /\ Head(posted).kind = "result"
    BY <1>3 DEF ScanPublished, Posted
  <2>2. PICK s \in Scans : s = Head(posted).scan /\ stage[s] = "posted"
    BY <2>1, ClosureTaken
  <2>3. \E w \in {"gone", "connecting"} : stage' = [stage EXCEPT ![s] = w]
    BY <1>3, <2>2 DEF ScanPublished, Goes
  <2>4. \A r \in Scans : /\ stage'[r] # "none" => stage[r] # "none"
                         /\ stage'[r] \in BeforeCamera => stage[r] \in BeforeCamera
                         /\ stage'[r] \in AtCamera => stage[r] \in AtCamera
    BY <2>2, <2>3 DEF CameraTypes, BeforeCamera, AtCamera, CameraStages
  <2>5. \A n \in 1 .. Len(posted') : posted'[n] = posted[n + 1] /\ n + 1 \in 1 .. Len(posted)
    BY <2>1, HeadTaken DEF WindowInv
  <2>6. \A n \in 1 .. Len(posted') : posted'[n].kind = "preview" =>
          posted'[n].rotation # NoRotation /\ stage'[posted'[n].scan] \notin BeforeCamera
    BY <2>4, <2>5, PostedTypes DEF ViewInv, RegionAwaited
  <2> QED
    BY <1>1, <1>2, <2>4, <2>6, OthersStay, ViewKept DEF ViewInv
<1>4. ASSUME NEW s \in Scans, SessionConnected(s) \/ SessionInstalled(s)
      PROVE ViewInv'
  <2>1. stage[s] \in {"connecting", "installing"} /\ UNCHANGED posted
    BY <1>4 DEF SessionConnected, SessionInstalled, At
  <2>2. PICK w \in {"installing", "gone"} : stage' = [stage EXCEPT ![s] = w]
    BY <1>4 DEF SessionConnected, SessionInstalled, ShutsDown, Goes
  <2> QED
    BY <1>1, <1>2, <2>1, <2>2, ScanMovesOn DEF Stages, BeforeCamera, AtCamera, CameraStages
<1> QED
  BY <1>3, <1>4

\* The image that is posted to be shown is one of a scan that has the camera.
LEMMA ImageView ==
    ASSUME CameraTypes, CameraInv, WindowTypes, ViewInv, NEW s \in Scans,
           ImageArrives(s) \/ ImageDecoded(s)
    PROVE ViewInv'
<1>1. UNCHANGED <<slot, cancelled, stage, region, registered, window>>
  BY DEF ImageArrives, ImageDecoded, scanVars, viewVars
<1>2. OthersCancelled'
  BY <1>1 DEF ViewInv, OthersCancelled, Cancelled
<1>3. CASE UNCHANGED posted
  BY <1>1, <1>2, <1>3, PreviewsStay, ViewKept DEF ViewInv, WindowView
<1>4. CASE ImageArrives(s)
           /\ posted' = Append(posted, [kind |-> "preview", scan |-> s, rotation |-> Turned])
  <2>1. stage[s] \notin BeforeCamera
    BY <1>4 DEF ImageArrives, CameraInv, CameraUnderGate, BeforeCamera
  <2>2. Turned # NoRotation
    BY OrientationAssumption, LayoutsAssumption DEF Turned, CameraTypes, Rotations, NoRotation
  <2>3. posted \in Seq(Closures)
    BY DEF WindowTypes
  <2> DEFINE shown == [kind |-> "preview", scan |-> s, rotation |-> Turned]
  <2>4. shown.rotation # NoRotation /\ shown.scan = s
    BY <2>2
  <2> HIDE DEF shown
  <2>5. \A n \in 1 .. Len(posted') :
          posted'[n] = shown \/ (n \in 1 .. Len(posted) /\ posted'[n] = posted[n])
    <3>1. posted' = Append(posted, shown)
      BY <1>4 DEF shown
    <3> QED
      BY <2>3, <3>1
  <2>6. \A n \in 1 .. Len(posted') : posted'[n].kind = "preview" =>
          posted'[n].rotation # NoRotation /\ stage'[posted'[n].scan] \notin BeforeCamera
    BY <1>1, <2>1, <2>4, <2>5 DEF ViewInv, RegionAwaited
  <2> QED
    BY <1>1, <1>2, <2>6, ViewKept DEF WindowView
<1> QED
  BY <1>3, <1>4 DEF ImageArrives, ImageDecoded

\* A new layout is not told yet; telling it changes the region of the scan registered.
LEMMA LayoutView ==
    ASSUME CameraTypes, WindowTypes, ViewInv,
           DisplayTurns \/ LayoutChanges \/ GeometryChanged
    PROVE ViewInv'
<1>1. UNCHANGED <<slot, cancelled, stage, registered, posted>>
  BY DEF DisplayTurns, LayoutChanges, GeometryChanged, scanVars, viewVars
<1>2. OthersCancelled'
  BY <1>1 DEF ViewInv, OthersCancelled, Cancelled
<1>3. CASE UNCHANGED <<window, region>>
  BY <1>1, <1>2, <1>3, PreviewsStay, ViewKept DEF ViewInv, WindowView
<1>4. CASE LayoutChanges
  <2>1. UNCHANGED region /\ window'.preview = window.preview /\ ~window'.told
    BY <1>4 DEF LayoutChanges, viewVars, WindowTypes, Windows
  <2> QED
    BY <1>1, <1>2, <2>1 DEF ViewInv, RegionTypes, RegionAwaited, RegionIsShown, Shows, Cancelled
<1>5. CASE GeometryChanged
  <2>1. window'.preview = window.preview /\ window'.layout = window.layout
    BY <1>5 DEF GeometryChanged, WindowTypes, Windows
  <2>2. window.layout \in CameraLayouts
    BY LayoutsAssumption DEF WindowTypes, Windows, WindowLayouts, CameraLayouts
  <2>3. region' = [s \in Scans |-> IF s = registered
                                   THEN [region[s] EXCEPT !.layout = window.layout] ELSE region[s]]
    BY <1>5 DEF GeometryChanged, RegionTold
  <2>4. RegionTypes'
    BY <2>2, <2>3 DEF ViewInv, RegionTypes
  <2>5. \A s \in Scans : s # registered => region'[s] = region[s]
    BY <2>3
  <2>6. RegionAwaited'
    BY <1>1, <2>5 DEF ViewInv, RegionAwaited
  <2>7. registered \in Scans => /\ region'[registered].layout = window.layout
                                /\ region'[registered].rotation = region[registered].rotation
    BY <2>3 DEF ViewInv, RegionTypes
  <2>8. RegionIsShown'
    BY <1>1, <2>1, <2>7 DEF ViewInv, RegionIsShown, Shows, Cancelled
  <2> QED
    BY <1>2, <2>4, <2>6, <2>8 DEF ViewInv
<1> QED
  BY <1>3, <1>4, <1>5 DEF DisplayTurns, viewVars

\* A preview: the region follows the window, with whatever is shown.
LEMMA PreviewView ==
    ASSUME CameraTypes, WindowTypes, WindowInv, ViewInv, PreviewShown
    PROVE ViewInv'
<1>1. /\ posted # <<>> /\ posted' = Tail(posted) /\ Head(posted).kind = "preview"
      /\ UNCHANGED <<slot, cancelled, stage, registered>>
  BY DEF PreviewShown, Posted, scanVars
<1>2. OthersCancelled'
  BY <1>1 DEF ViewInv, OthersCancelled, Cancelled
<1>3. PICK s \in Scans, rotation \in Int :
        s = Head(posted).scan /\ rotation = Head(posted).rotation
  BY <1>1, ClosureTaken DEF Closures
<1>4. Len(posted) \in Nat \ {0} /\ Head(posted) = posted[1]
      /\ \A n \in 1 .. Len(posted') : posted'[n] = posted[n + 1] /\ n + 1 \in 1 .. Len(posted)
  BY <1>1, HeadTaken DEF WindowInv
<1>5. rotation # NoRotation /\ stage[s] \notin BeforeCamera
  BY <1>1, <1>3, <1>4 DEF ViewInv, RegionAwaited
<1>6. \A n \in 1 .. Len(posted') : posted'[n].kind = "preview" =>
        posted'[n].rotation # NoRotation /\ stage'[posted'[n].scan] \notin BeforeCamera
  BY <1>1, <1>4 DEF ViewInv, RegionAwaited
<1>7. CASE Cancelled(s)
  <2>1. UNCHANGED <<window, region>>
    BY <1>3, <1>7 DEF PreviewShown
  <2> QED
    BY <1>1, <1>2, <1>6, <2>1, ViewKept DEF WindowView
<1>8. CASE ~Cancelled(s)
  <2>1. /\ window' = [window EXCEPT !.preview = rotation]
        /\ region' = [region EXCEPT ![s] = [layout |-> window.layout, rotation |-> rotation]]
    BY <1>3, <1>8 DEF PreviewShown
  <2>2. window'.preview = rotation /\ window'.layout = window.layout
    BY <2>1 DEF WindowTypes, Windows
  <2>3. window.layout \in CameraLayouts
    BY LayoutsAssumption DEF WindowTypes, Windows, WindowLayouts, CameraLayouts
  <2>4. /\ region'[s] = [layout |-> window.layout, rotation |-> rotation]
        /\ \A r \in Scans : r # s => region'[r] = region[r]
    BY <2>1 DEF ViewInv, RegionTypes
  <2>5. region'[s].layout = window.layout /\ region'[s].rotation = rotation
    BY <2>4
  <2>6. RegionTypes'
    BY <2>1, <2>3 DEF ViewInv, RegionTypes
  <2>7. RegionAwaited'
    BY <1>1, <1>5, <1>6, <2>4 DEF ViewInv, RegionAwaited
  <2>8. ASSUME NEW r \in Scans, stage[r] \in AtCamera, ~Cancelled(r)
        PROVE Shows(r)'
    <3>1. r = s /\ registered = s
      BY <1>5, <1>8, <2>8
      DEF ViewInv, OthersCancelled, RegionIsShown, Shows, AtCamera, CameraStages, BeforeCamera
    <3> QED
      BY <1>1, <1>5, <2>2, <2>5, <3>1 DEF Shows
  <2>9. RegionIsShown'
    BY <1>1, <2>8 DEF RegionIsShown, Cancelled
  <2> QED
    BY <1>2, <2>6, <2>7, <2>9 DEF ViewInv
<1> QED
  BY <1>7, <1>8

(* Before the first scan every region is empty. *)
LEMMA InitView == Init => ViewInv
BY ScansAssumption
DEF Init, ViewInv, RegionTypes, OthersCancelled, RegionAwaited, RegionIsShown, NoRegion,
    UnsetLayout, CameraLayouts, AtCamera, CameraStages

(* Every step keeps what the regions say. *)
LEMMA StepView == IInv /\ ViewInv /\ [Next]_vars => ViewInv'
<1> SUFFICES ASSUME IInv, ViewInv, [Next]_vars
             PROVE ViewInv'
  OBVIOUS
<1>1. CameraTypes /\ WindowTypes /\ CameraInv /\ WindowInv
  BY DEF IInv
<1>2. CASE CancelRemoteScan
  BY <1>1, <1>2, CancelView
<1>3. CASE DisplayTurns \/ LayoutChanges \/ GeometryChanged
  BY <1>1, <1>3, LayoutView
<1>4. CASE EventLoop
  BY <1>1, <1>4, PreviewView, TaskView DEF EventLoop
<1>5. ASSUME NEW s \in Scans, TapScan(s) \/ ThreadSteps(s)
      PROVE ViewInv'
  BY <1>1, <1>5, TapScanView, ThreadView
<1>6. ASSUME NEW s \in Scans, TaskSteps(s)
      PROVE ViewInv'
  BY <1>1, <1>6, PermissionView, TaskView DEF TaskSteps
<1>7. ASSUME NEW s \in Scans, ImageArrives(s) \/ ImageDecoded(s)
      PROVE ViewInv'
  BY <1>1, <1>7, ImageView
<1>8. ASSUME UNCHANGED <<scanVars, viewVars, window, posted>>
      PROVE ViewInv'
  <2>1. UNCHANGED <<slot, cancelled, stage, region, registered, window, posted>>
    BY <1>8 DEF scanVars, viewVars
  <2>2. OthersCancelled'
    BY <2>1 DEF ViewInv, OthersCancelled, Cancelled
  <2> QED
    BY <1>1, <2>1, <2>2, PreviewsStay, ViewKept DEF ViewInv, WindowView
<1>9. CASE (\E s \in Scans : Handshakes(s)) \/ UNCHANGED vars
  BY <1>8, <1>9 DEF Handshakes, vars
<1> QED
  BY <1>2, <1>3, <1>4, <1>5, <1>6, <1>7, <1>9 DEF Next

-----------------------------------------------------------------------------
(* The pairing links.                                                      *)

\* What the loop over the pairs of a query knows at any time, and its turns.
Reading(Pairs) == [ok : BOOLEAN, given : SUBSET Pairs]
ReadTurn(query, Pairs) ==
    [nr \in Nat \X Reading(Pairs) |->
        IF nr[1] < Len(query) THEN ReadsPair(nr[2], query[nr[1] + 1]) ELSE nr[2]]

(* A turn of the loop keeps what was given so far or adds a pair of the query. *)
LEMMA TurnReads ==
    ASSUME NEW Pairs, NEW pair \in Pairs, NEW r \in Reading(Pairs)
    PROVE  ReadsPair(r, pair) \in Reading(Pairs)
BY DEF ReadsPair, Reading

(* The steps of that recursion are the turns. *)
LEMMA TurnType ==
    ASSUME NEW Pairs, NEW q \in Seq(Pairs)
    PROVE  \A k \in Nat, r \in Reading(Pairs) :
             /\ ReadTurn(q, Pairs)[<<k, r>>] \in Reading(Pairs)
             /\ k < Len(q) => ReadTurn(q, Pairs)[<<k, r>>] = ReadsPair(r, q[k + 1])
<1> TAKE k \in Nat, r \in Reading(Pairs)
<1>1. ReadTurn(q, Pairs)[<<k, r>>] = IF k < Len(q) THEN ReadsPair(r, q[k + 1]) ELSE r
  BY DEF ReadTurn
<1>2. ASSUME k < Len(q) PROVE ReadsPair(r, q[k + 1]) \in Reading(Pairs)
  <2>1. q[k + 1] \in Pairs
    BY <1>2
  <2> QED
    BY <2>1, TurnReads
<1> QED
  BY <1>1, <1>2

(* ReadPairs is what is known after the last turn. *)
LEMMA ReadPairsRuns ==
    ASSUME NEW Pairs, NEW q \in Seq(Pairs), NEW n \in Nat, n = Len(q)
    PROVE  \E g \in [0 .. n -> Reading(Pairs)] :
              /\ g[0] = NothingRead
              /\ \A k \in 0 .. n - 1 : g[k + 1] = ReadsPair(g[k], q[k + 1])
              /\ ReadPairs(q) = g[n]
<1>1. PICK g \in [0 .. n -> Reading(Pairs)] : Runs(g, n, NothingRead, ReadTurn(q, Pairs))
  <2>1. PICK V, step, base : V = Reading(Pairs) /\ step = ReadTurn(q, Pairs) /\ base = NothingRead
    OBVIOUS
  <2>2. base \in V
    BY <2>1 DEF NothingRead, Reading
  <2>3. \A k \in Nat, v \in V : step[<<k, v>>] \in V
    BY <2>1, TurnType
  <2>4. \A k \in Nat : \E g \in [0 .. k -> V] : Runs(g, k, base, step)
    BY <2>2, <2>3, RunExists
  <2> QED
    BY <2>1, <2>4
<1>2. g[0] = NothingRead
  BY <1>1 DEF Runs
<1>3. ASSUME NEW k \in 0 .. n - 1
      PROVE  g[k + 1] = ReadsPair(g[k], q[k + 1])
  <2>1. g[k + 1] = ReadTurn(q, Pairs)[<<k, g[k]>>] /\ g[k] \in Reading(Pairs) /\ k \in Nat /\ k < n
    BY <1>1 DEF Runs
  <2> QED
    BY <2>1, TurnType
<1> DEFINE read[k \in 0 .. n] == IF k = 0 THEN NothingRead ELSE ReadsPair(read[k - 1], q[k])
<1>4. read = [k \in 0 .. n |-> IF k = 0 THEN NothingRead ELSE ReadsPair(read[k - 1], q[k])]
  <2> SUFFICES \E u : u = [k \in 0 .. n |->
                             IF k = 0 THEN NothingRead ELSE ReadsPair(u[k - 1], q[k])]
    OBVIOUS
  <2>1. ASSUME NEW k \in 0 .. n
        PROVE  g[k] = IF k = 0 THEN NothingRead ELSE ReadsPair(g[k - 1], q[k])
    <3>1. CASE k = 0
      BY <1>2, <3>1
    <3>2. CASE k # 0
      <4>1. k - 1 \in 0 .. n - 1 /\ (k - 1) + 1 = k
        BY <3>2
      <4>2. g[(k - 1) + 1] = ReadsPair(g[k - 1], q[(k - 1) + 1])
        BY <1>3, <4>1
      <4> QED
        BY <3>2, <4>1, <4>2
    <3> QED
      BY <3>1, <3>2
  <2>2. g = [k \in 0 .. n |-> g[k]]
    OBVIOUS
  <2>3. g = [k \in 0 .. n |-> IF k = 0 THEN NothingRead ELSE ReadsPair(g[k - 1], q[k])]
    BY <2>1, <2>2
  <2> QED
    BY <2>3, Zenon
<1>5. ReadPairs(q) = read[n]
  BY DEF ReadPairs
<1> HIDE DEF read
<1>6. \A k \in 0 .. n : read[k] = IF k = 0 THEN NothingRead ELSE ReadsPair(read[k - 1], q[k])
  BY <1>4
<1> DEFINE S == {k \in Nat : k <= n => read[k] = g[k]}
<1>7. 0 \in S
  BY <1>2, <1>6
<1>8. ASSUME NEW k \in Nat, k \in S PROVE k + 1 \in S
  <2> SUFFICES ASSUME k + 1 <= n PROVE read[k + 1] = g[k + 1]
    OBVIOUS
  <2>1. k \in 0 .. n - 1 /\ k + 1 \in 0 .. n /\ k + 1 # 0 /\ (k + 1) - 1 = k
    OBVIOUS
  <2>2. read[k] = g[k]
    BY <1>8
  <2>3. read[k + 1] = ReadsPair(read[(k + 1) - 1], q[k + 1])
    BY <1>6, <2>1
  <2> QED
    BY <1>3, <2>1, <2>2, <2>3
<1> HIDE DEF S
<1>9. \A k \in Nat : k \in S
  BY <1>7, <1>8, Induction
<1>10. read[n] = g[n]
  BY <1>9 DEF S
<1> QED
  BY <1>2, <1>3, <1>5, <1>10

\* The first pairs of a query.
FirstPairs(q, k) == {q[m] : m \in 1 .. k}

\* The nth pair of a query is one the loop takes.
PairFits(q, n) ==
    /\ q[n][1] \in Fields
    /\ q[n][1] = "port" => q[n][2] \in 1 .. MaxPort
    /\ \A m \in 1 .. n - 1 : q[m][1] # q[n][1]

\* What the loop knows after the first k pairs: they fit, and have been given.
KnowsFirst(q, k, r) ==
    /\ r.ok <=> \A m \in 1 .. k : PairFits(q, m)
    /\ r.ok => r.given = FirstPairs(q, k)

(* A turn takes a pair that fits what was given before. *)
LEMMA TurnTakes ==
    ASSUME NEW Pairs, NEW q \in Seq(Pairs), NEW k \in Nat, k + 1 <= Len(q),
           NEW r \in Reading(Pairs), KnowsFirst(q, k, r)
    PROVE  KnowsFirst(q, k + 1, ReadsPair(r, q[k + 1]))
<1> DEFINE next == ReadsPair(r, q[k + 1])
<1>1. ASSUME r.ok PROVE Repeats(r, q[k + 1][1]) <=> \E m \in 1 .. k : q[m][1] = q[k + 1][1]
  BY <1>1 DEF KnowsFirst, Repeats, FirstPairs
<1>2. PairFits(q, k + 1) <=> /\ q[k + 1][1] \in Fields
                             /\ q[k + 1][1] = "port" => q[k + 1][2] \in 1 .. MaxPort
                             /\ \A m \in 1 .. k : q[m][1] # q[k + 1][1]
  BY DEF PairFits
<1>3. next.ok <=> (r.ok /\ PairFits(q, k + 1))
  BY <1>1, <1>2 DEF ReadsPair, Reading
<1>4. 1 .. k + 1 = (1 .. k) \cup {k + 1}
  OBVIOUS
<1>5. ASSUME next.ok PROVE next.given = FirstPairs(q, k + 1)
  <2>1. r.ok /\ next.given = r.given \cup {q[k + 1]}
    BY <1>1, <1>2, <1>3, <1>5 DEF ReadsPair, Reading
  <2> QED
    BY <1>4, <2>1 DEF KnowsFirst, FirstPairs
<1> HIDE DEF next
<1>6. next.ok <=> \A m \in 1 .. k + 1 : PairFits(q, m)
  BY <1>3, <1>4 DEF KnowsFirst
<1>7. KnowsFirst(q, k + 1, next)
  BY <1>5, <1>6 DEF KnowsFirst
<1> QED
  BY <1>7 DEF next

(* The loop ends well when every pair fits, and then has all of them. *)
LEMMA ReadsAll ==
    ASSUME NEW Pairs, NEW q \in Seq(Pairs)
    PROVE  /\ ReadPairs(q).ok <=> \A m \in 1 .. Len(q) : PairFits(q, m)
           /\ ReadPairs(q).ok => ReadPairs(q).given = FirstPairs(q, Len(q))
<1>1. PICK n \in Nat : n = Len(q)
  BY LenProperties
<1>2. PICK g \in [0 .. n -> Reading(Pairs)] :
              /\ g[0] = NothingRead
              /\ \A k \in 0 .. n - 1 : g[k + 1] = ReadsPair(g[k], q[k + 1])
              /\ ReadPairs(q) = g[n]
  BY <1>1, ReadPairsRuns
<1> DEFINE S == {k \in Nat : k <= n => KnowsFirst(q, k, g[k])}
<1>3. 0 \in S
  <2>1. KnowsFirst(q, 0, g[0])
    BY <1>2 DEF KnowsFirst, NothingRead, FirstPairs
  <2> QED
    BY <2>1
<1>4. ASSUME NEW k \in Nat, k \in S PROVE k + 1 \in S
  <2> SUFFICES ASSUME k + 1 <= n PROVE KnowsFirst(q, k + 1, g[k + 1])
    OBVIOUS
  <2>1. g[k] \in Reading(Pairs) /\ g[k + 1] = ReadsPair(g[k], q[k + 1])
    BY <1>2
  <2>2. KnowsFirst(q, k, g[k]) /\ k + 1 <= Len(q)
    BY <1>1, <1>4
  <2>3. KnowsFirst(q, k + 1, ReadsPair(g[k], q[k + 1]))
    BY <2>1, <2>2, TurnTakes
  <2> QED
    BY <2>1, <2>3
<1> HIDE DEF S
<1>5. \A k \in Nat : k \in S
  BY <1>3, <1>4, Induction
<1>6. KnowsFirst(q, n, g[n])
  BY <1>5 DEF S
<1> QED
  BY <1>1, <1>2, <1>6 DEF KnowsFirst

\* An info whose fields are valid, and what uri writes of it.
ValidInfos ==
    [host : Hosts, port : 1 .. MaxPort, sid : SessionIds, code : PairingCodes, name : Names]
Written(info) == {<<key, info[key]>> : key \in Fields}
WrittenUnnamed(info) == {<<key, info[key]>> : key \in Fields \ {"name"}}

\* The order in which uri writes the fields.
UriOrder == <<"host", "port", "sid", "code", "name">>

(* Each field has its place in the order. *)
LEMMA OrderOfFields ==
    /\ Len(UriOrder) = 5
    /\ \A n \in 1 .. 5 : UriOrder[n] \in Fields
    /\ \A key \in Fields : \E n \in 1 .. 5 : UriOrder[n] = key
    /\ \A n, m \in 1 .. 5 : UriOrder[n] = UriOrder[m] => n = m
    /\ UriOrder[5] = "name"
<1>1. /\ UriOrder[1] = "host" /\ UriOrder[2] = "port" /\ UriOrder[3] = "sid"
      /\ UriOrder[4] = "code" /\ UriOrder[5] = "name" /\ Len(UriOrder) = 5
  BY DEF UriOrder
<1>2. \A n \in 1 .. 5 : n = 1 \/ n = 2 \/ n = 3 \/ n = 4 \/ n = 5
  OBVIOUS
<1>3. 1 \in 1 .. 5 /\ 2 \in 1 .. 5 /\ 3 \in 1 .. 5 /\ 4 \in 1 .. 5 /\ 5 \in 1 .. 5
  OBVIOUS
<1> QED
  BY <1>1, <1>2, <1>3 DEF Fields

(* What uri writes is a sequence of the five pairs, that of the name the last. *)
LEMMA WrittenQuery ==
    ASSUME NEW info
    PROVE  /\ Uri(info).query = [n \in 1 .. 5 |-> <<UriOrder[n], info[UriOrder[n]]>>]
           /\ Len(Uri(info).query) = 5
           /\ ToSet(Uri(info).query) = Written(info)
           /\ Len(Front(Uri(info).query)) = 4
           /\ ToSet(Front(Uri(info).query)) = WrittenUnnamed(info)
<1>1. Uri(info).query = [n \in 1 .. 5 |-> <<UriOrder[n], info[UriOrder[n]]>>]
  BY OrderOfFields DEF Uri, PairingLink, UriOrder
<1>2. PICK whole : whole = Uri(info).query
  OBVIOUS
<1>3. whole = [n \in 1 .. 5 |-> <<UriOrder[n], info[UriOrder[n]]>>]
  BY <1>1, <1>2
<1>4. whole \in Seq({<<key, info[key]>> : key \in Fields}) /\ Len(whole) = 5
  BY <1>3, OrderOfFields
<1>5. ToSet(whole) = Written(info)
  <2>1. ToSet(whole) = {whole[n] : n \in 1 .. 5}
    BY <1>3 DEF ToSet
  <2> QED
    BY <1>3, <2>1, OrderOfFields DEF Written
<1>6. Front(whole) = [n \in 1 .. 4 |-> whole[n]]
  BY <1>4 DEF Front
<1>7. Len(Front(whole)) = 4
  BY <1>6
<1>8. ToSet(Front(whole)) = WrittenUnnamed(info)
  <2>1. ToSet(Front(whole)) = {whole[n] : n \in 1 .. 4}
    BY <1>6 DEF ToSet
  <2>2. \A n \in 1 .. 4 : whole[n] \in WrittenUnnamed(info)
    <3> TAKE n \in 1 .. 4
    <3>1. n \in 1 .. 5 /\ UriOrder[n] \in Fields /\ UriOrder[n] # "name"
      BY OrderOfFields
    <3> QED
      BY <1>3, <3>1 DEF WrittenUnnamed
  <2>3. \A pair \in WrittenUnnamed(info) : \E n \in 1 .. 4 : pair = whole[n]
    <3> TAKE pair \in WrittenUnnamed(info)
    <3>1. PICK key \in Fields \ {"name"} : pair = <<key, info[key]>>
      BY DEF WrittenUnnamed
    <3>2. PICK n \in 1 .. 5 : UriOrder[n] = key
      BY <3>1, OrderOfFields
    <3>3. n \in 1 .. 4
      BY <3>1, <3>2, OrderOfFields
    <3> QED
      BY <1>3, <3>1, <3>2, <3>3
  <2> QED
    BY <2>1, <2>2, <2>3
<1> QED
  BY <1>1, <1>2, <1>4, <1>5, <1>7, <1>8

(* How many pairs uri writes. *)
LEMMA WrittenCount ==
    ASSUME NEW info
    PROVE  /\ IsFiniteSet(Written(info)) /\ Cardinality(Written(info)) = 5
           /\ IsFiniteSet(WrittenUnnamed(info)) /\ Cardinality(WrittenUnnamed(info)) = 4
<1>1. PICK whole : whole = [n \in 1 .. 5 |-> <<UriOrder[n], info[UriOrder[n]]>>]
  OBVIOUS
<1>2. PICK short : short = [n \in 1 .. 4 |-> whole[n]]
  OBVIOUS
<1>3. /\ Written(info) = {whole[n] : n \in 1 .. 5}
      /\ WrittenUnnamed(info) = {short[n] : n \in 1 .. 4}
  <2>1. Uri(info).query = whole
    BY <1>1, WrittenQuery
  <2>2. whole \in Seq({<<key, info[key]>> : key \in Fields}) /\ Len(whole) = 5
    BY <1>1, OrderOfFields
  <2>3. Front(whole) = short
    BY <1>2, <2>2 DEF Front
  <2> QED
    BY <1>1, <1>2, <2>1, <2>3, WrittenQuery DEF ToSet
<1>4. \A n, m \in 1 .. 5 : whole[n] = whole[m] => n = m
  BY <1>1, OrderOfFields
<1>5. whole \in Bijection(1 .. 5, Written(info))
  BY <1>1, <1>3, <1>4 DEF Bijection, Injection, Surjection, IsInjective
<1>6. short \in Bijection(1 .. 4, WrittenUnnamed(info))
  BY <1>2, <1>3, <1>4 DEF Bijection, Injection, Surjection, IsInjective
<1>7. /\ IsFiniteSet(1 .. 5) /\ Cardinality(1 .. 5) = 5
      /\ IsFiniteSet(1 .. 4) /\ Cardinality(1 .. 4) = 4
  <2>1. 1 \in Int /\ 4 \in Int /\ 5 \in Int
    OBVIOUS
  <2>2. /\ Cardinality(1 .. 5) = IF 1 > 5 THEN 0 ELSE 5 - 1 + 1
        /\ Cardinality(1 .. 4) = IF 1 > 4 THEN 0 ELSE 4 - 1 + 1
        /\ IsFiniteSet(1 .. 5) /\ IsFiniteSet(1 .. 4)
    BY <2>1, FS_Interval, Zenon
  <2> QED
    BY <2>2
<1> QED
  BY <1>5, <1>6, <1>7, FS_Bijection DEF ExistsBijection

(* What is known after the loop are pairs of keys and values. *)
LEMMA KnownPairs ==
    ASSUME NEW Keys, NEW Values, NEW q \in Seq(Keys \X Values), ReadPairs(q).ok
    PROVE  /\ FirstPairs(q, Len(q)) \subseteq Keys \X Values
           /\ \A pair \in Named(ReadPairs(q)) : pair = <<pair[1], pair[2]>>
           /\ \A pair \in Named(ReadPairs(q)) : pair[1] = "port" => pair[2] \in 1 .. MaxPort
<1>1. /\ ReadPairs(q).given = FirstPairs(q, Len(q))
      /\ \A m \in 1 .. Len(q) : PairFits(q, m)
  BY ReadsAll
<1>2. FirstPairs(q, Len(q)) \subseteq Keys \X Values
  BY DEF FirstPairs
<1>3. \A pair \in FirstPairs(q, Len(q)) :
        /\ pair = <<pair[1], pair[2]>>
        /\ pair[1] = "port" => pair[2] \in 1 .. MaxPort
  BY <1>1, <1>2 DEF FirstPairs, PairFits
<1>4. \A pair \in Named(ReadPairs(q)) :
        pair \in FirstPairs(q, Len(q)) \/ pair = <<"name", DesktopName>>
  BY <1>1 DEF Named
<1>5. /\ <<"name", DesktopName>>[1] # "port"
      /\ <<"name", DesktopName>> = <<<<"name", DesktopName>>[1], <<"name", DesktopName>>[2]>>
  OBVIOUS
<1> QED
  BY <1>2, <1>3, <1>4, <1>5

(* An info is read when the loop ends well and knows all of its fields. *)
LEMMA InfoRead ==
    ASSUME NEW Keys, NEW Values, NEW link, link.query \in Seq(Keys \X Values),
           IsPairingLink(link), ReadPairs(link.query).ok
    PROVE  \A info : info \in FromUri(link) <=>
             /\ info \in ValidInfos
             /\ \A key \in Fields : <<key, info[key]>> \in Named(ReadPairs(link.query))
<1>1. PICK known, ok : known = Named(ReadPairs(link.query)) /\ ok = ReadPairs(link.query).ok
  OBVIOUS
<1> DEFINE Given(key, valid) == {value \in valid : <<key, value>> \in known}
           port == {pair[2] : pair \in {p \in known : p[1] = "port"}}
           Read == [host : Given("host", Hosts), port : port, sid : Given("sid", SessionIds),
                    code : Given("code", PairingCodes), name : Given("name", Names)]
           All == {info \in ValidInfos : \A key \in Fields : <<key, info[key]>> \in known}
<1>2. FromUri(link) = Read
  BY <1>1, Zenon DEF FromUri
<1>3. \A p : p \in port <=> (p \in 1 .. MaxPort /\ <<"port", p>> \in known)
  <2>1. \A pair \in known : /\ pair = <<pair[1], pair[2]>>
                            /\ pair[1] = "port" => pair[2] \in 1 .. MaxPort
    BY <1>1, KnownPairs
  <2>2. \A p : <<"port", p>>[1] = "port" /\ <<"port", p>>[2] = p
    OBVIOUS
  <2>3. ASSUME NEW p \in port PROVE p \in 1 .. MaxPort /\ <<"port", p>> \in known
    <3>1. PICK pair \in known : pair[1] = "port" /\ p = pair[2]
      OBVIOUS
    <3> QED
      BY <2>1, <3>1
  <2>4. ASSUME NEW p, <<"port", p>> \in known PROVE p \in port
    BY <2>2, <2>4
  <2> HIDE DEF port
  <2> QED
    BY <2>3, <2>4
<1> HIDE DEF port
<1>4. ASSUME NEW info \in Read PROVE info \in All
  <2>1. /\ info.host \in Given("host", Hosts) /\ info.port \in port
        /\ info.sid \in Given("sid", SessionIds) /\ info.code \in Given("code", PairingCodes)
        /\ info.name \in Given("name", Names)
    OBVIOUS
  <2>2. info \in ValidInfos
    BY <1>3, <2>1 DEF ValidInfos
  <2>3. \A key \in Fields : <<key, info[key]>> \in known
    BY <1>3, <2>1 DEF Fields
  <2> QED
    BY <2>2, <2>3
<1>5. ASSUME NEW info \in All PROVE info \in Read
  BY <1>3 DEF ValidInfos, Fields
<1> HIDE DEF Read
<1> QED
  BY <1>1, <1>2, <1>4, <1>5

\* The pairs of some fields of an info, and a query of these pairs, each once.
PairsOf(info, keys) == {<<key, info[key]>> : key \in keys}
Holds(q, info, keys) == ToSet(q) = PairsOf(info, keys) /\ Len(q) = Cardinality(PairsOf(info, keys))

(* An interval from 1 has as many numbers as its end says. *)
LEMMA IntervalCount ==
    ASSUME NEW n \in Nat
    PROVE  IsFiniteSet(1 .. n) /\ Cardinality(1 .. n) = n
<1>1. 1 \in Int /\ n \in Int
  OBVIOUS
<1>2. IsFiniteSet(1 .. n) /\ Cardinality(1 .. n) = IF 1 > n THEN 0 ELSE n - 1 + 1
  BY <1>1, FS_Interval, Zenon
<1> QED
  BY <1>2

(* The loop takes every pair of such a query. *)
LEMMA TakesWritten ==
    ASSUME NEW Pairs, NEW q \in Seq(Pairs), NEW info \in ValidInfos,
           NEW keys \in SUBSET Fields, IsFiniteSet(PairsOf(info, keys)), Holds(q, info, keys)
    PROVE  ReadPairs(q).ok /\ ReadPairs(q).given = PairsOf(info, keys)
<1>1. PICK W : W = PairsOf(info, keys)
  OBVIOUS
<1>2. /\ Len(q) \in Nat /\ W = {q[m] : m \in 1 .. Len(q)} /\ Len(q) = Cardinality(W)
      /\ q \in [1 .. Len(q) -> W]
  BY <1>1 DEF Holds, ToSet
<1>3. IsFiniteSet(1 .. Len(q)) /\ Cardinality(1 .. Len(q)) = Len(q)
  BY LenProperties, IntervalCount
<1>4. q \in Surjection(1 .. Len(q), W)
  BY <1>2 DEF Surjection
<1>5. \A m, n \in 1 .. Len(q) : q[m] = q[n] => m = n
  <2>1. q \in Injection(1 .. Len(q), W)
    BY <1>2, <1>3, <1>4, FS_SurjSameCardinalityImpliesInj
  <2> QED
    BY <1>2, <2>1 DEF Injection, IsInjective
<1>6. \A m \in 1 .. Len(q) : q[m][1] \in keys /\ q[m] = <<q[m][1], info[q[m][1]]>>
  <2> TAKE m \in 1 .. Len(q)
  <2>1. PICK key \in keys : q[m] = <<key, info[key]>>
    BY <1>1, <1>2 DEF PairsOf
  <2> QED
    BY <2>1
<1>7. ASSUME NEW m \in 1 .. Len(q) PROVE PairFits(q, m)
  <2>1. q[m][1] \in Fields /\ q[m][2] = info[q[m][1]]
    BY <1>6
  <2>2. info["port"] \in 1 .. MaxPort
    BY DEF ValidInfos
  <2>3. ASSUME NEW n \in 1 .. m - 1 PROVE q[n][1] # q[m][1]
    <3>1. n \in 1 .. Len(q) /\ n # m
      BY LenProperties
    <3> QED
      BY <1>5, <1>6, <3>1
  <2> QED
    BY <2>1, <2>2, <2>3 DEF PairFits
<1> QED
  BY <1>1, <1>2, <1>7, ReadsAll DEF FirstPairs

(* A query of pairs that are all taken holds each once. *)
LEMMA TakenOnce ==
    ASSUME NEW Pairs, NEW q \in Seq(Pairs), ReadPairs(q).ok
    PROVE  /\ ToSet(q) = FirstPairs(q, Len(q)) /\ Len(q) = Cardinality(FirstPairs(q, Len(q)))
           /\ \A a, b \in FirstPairs(q, Len(q)) : a[1] = b[1] => a = b
           /\ \A a \in FirstPairs(q, Len(q)) : a[1] \in Fields
<1>1. PICK W : W = FirstPairs(q, Len(q))
  OBVIOUS
<1>2. \A m \in 1 .. Len(q) : PairFits(q, m)
  BY ReadsAll
<1>3. \A m, n \in 1 .. Len(q) : q[m][1] = q[n][1] => m = n
  <2> SUFFICES ASSUME NEW m \in 1 .. Len(q), NEW n \in 1 .. Len(q), m < n
               PROVE  q[m][1] # q[n][1]
    OBVIOUS
  <2>1. m \in 1 .. n - 1
    OBVIOUS
  <2> QED
    BY <1>2, <2>1 DEF PairFits
<1>4. Len(q) \in Nat /\ q \in [1 .. Len(q) -> W] /\ W = {q[m] : m \in 1 .. Len(q)}
  BY <1>1 DEF FirstPairs
<1>5. q \in Bijection(1 .. Len(q), W)
  <2>1. \A m, n \in 1 .. Len(q) : q[m] = q[n] => m = n
    BY <1>3
  <2> QED
    BY <1>4, <2>1 DEF Bijection, Injection, Surjection, IsInjective
<1>6. Cardinality(W) = Len(q)
  <2>1. IsFiniteSet(1 .. Len(q)) /\ Cardinality(1 .. Len(q)) = Len(q)
    BY LenProperties, IntervalCount
  <2> QED
    BY <1>5, <2>1, FS_Bijection DEF ExistsBijection
<1>7. ASSUME NEW a \in W, NEW b \in W, a[1] = b[1]
      PROVE  a = b
  <2>1. PICK m \in 1 .. Len(q), n \in 1 .. Len(q) : a = q[m] /\ b = q[n]
    BY <1>4
  <2>2. m = n
    BY <1>3, <1>7, <2>1
  <2> QED
    BY <2>1, <2>2
<1>8. \A a \in W : a[1] \in Fields
  BY <1>2, <1>4 DEF PairFits
<1>9. ToSet(q) = W
  BY <1>4 DEF ToSet
<1> QED
  BY <1>1, <1>6, <1>7, <1>8, <1>9

(* The loop ends with the fields of an info exactly when the link stands for it. *)
LEMMA ReadsWritten ==
    ASSUME NEW Keys, NEW Values, NEW link, link.query \in Seq(Keys \X Values),
           IsPairingLink(link), NEW info \in ValidInfos
    PROVE  StandsFor(link, info) <=>
             /\ ReadPairs(link.query).ok
             /\ \A key \in Fields : <<key, info[key]>> \in Named(ReadPairs(link.query))
<1>1. PICK q, read : q = link.query /\ read = ReadPairs(q)
  OBVIOUS
<1>2. q \in Seq(Keys \X Values)
  BY <1>1
<1> DEFINE unnamed == Fields \ {"name"}
           Known == \A key \in Fields : <<key, info[key]>> \in Named(read)
<1>3. /\ Written(info) = PairsOf(info, Fields)
      /\ WrittenUnnamed(info) = PairsOf(info, unnamed)
  BY DEF Written, WrittenUnnamed, PairsOf
<1>4. /\ IsFiniteSet(PairsOf(info, Fields)) /\ Cardinality(PairsOf(info, Fields)) = 5
      /\ IsFiniteSet(PairsOf(info, unnamed)) /\ Cardinality(PairsOf(info, unnamed)) = 4
  BY <1>3, WrittenCount
<1>5. StandsFor(link, info) <=>
        \/ Holds(q, info, Fields)
        \/ info.name = DesktopName /\ Holds(q, info, unnamed)
  BY <1>1, <1>3, <1>4, WrittenQuery DEF StandsFor, Rearranges, Holds
<1>6. info.name = info["name"]
  OBVIOUS
<1>7. ASSUME Holds(q, info, Fields) PROVE read.ok /\ Known
  <2>1. read.ok /\ read.given = PairsOf(info, Fields)
    BY <1>1, <1>2, <1>4, <1>7, TakesWritten
  <2> QED
    BY <2>1 DEF Named, PairsOf
<1>8. ASSUME info.name = DesktopName, Holds(q, info, unnamed) PROVE read.ok /\ Known
  <2>1. read.ok /\ read.given = PairsOf(info, unnamed)
    BY <1>1, <1>2, <1>4, <1>8, TakesWritten
  <2>2. ~Repeats(read, "name")
    BY <2>1 DEF Repeats, PairsOf
  <2> QED
    BY <1>6, <1>8, <2>1, <2>2 DEF Named, PairsOf
<1>9. ASSUME read.ok, Known
      PROVE  Holds(q, info, Fields) \/ (info.name = DesktopName /\ Holds(q, info, unnamed))
  <2>1. PICK given : given = read.given
    OBVIOUS
  <2>2. /\ ToSet(q) = given /\ Len(q) = Cardinality(given)
        /\ \A a, b \in given : a[1] = b[1] => a = b
        /\ \A a \in given : a[1] \in Fields /\ a = <<a[1], a[2]>>
    <3>1. given = FirstPairs(q, Len(q))
      BY <1>1, <1>2, <1>9, <2>1, ReadsAll
    <3>2. given \subseteq Keys \X Values
      BY <1>1, <1>2, <1>9, <3>1, KnownPairs
    <3> QED
      BY <1>1, <1>2, <1>9, <3>1, <3>2, TakenOnce
  <2>3. \A key \in unnamed : <<key, info[key]>> \in given
    BY <1>9, <2>1 DEF Named
  <2>4. \A a \in given : a[1] \in unnamed => a \in PairsOf(info, unnamed)
    <3> TAKE a \in given
    <3> HAVE a[1] \in unnamed
    <3>1. <<a[1], info[a[1]]>> \in given
      BY <2>3
    <3>2. <<a[1], info[a[1]]>>[1] = a[1]
      OBVIOUS
    <3>3. a = <<a[1], info[a[1]]>>
      BY <2>2, <3>1, <3>2
    <3> QED
      BY <3>3 DEF PairsOf
  <2>5. PairsOf(info, unnamed) \subseteq given
    BY <2>3 DEF PairsOf
  <2>6. CASE Repeats(read, "name")
    <3>1. <<"name", info["name"]>> \in given
      BY <1>9, <2>1, <2>6 DEF Named, Fields
    <3>2. \A a \in given : a[1] = "name" => a = <<"name", info["name"]>>
      BY <2>2, <3>1
    <3>3. given = PairsOf(info, Fields)
      <4>1. \A a \in given : a \in PairsOf(info, Fields)
        BY <2>2, <2>4, <3>2 DEF PairsOf, Fields
      <4>2. PairsOf(info, Fields) \subseteq given
        BY <2>3, <3>1 DEF PairsOf
      <4> QED
        BY <4>1, <4>2
    <3> QED
      BY <2>2, <3>3 DEF Holds
  <2>7. CASE ~Repeats(read, "name")
    <3>1. \A a \in given : a[1] # "name"
      BY <2>1, <2>7 DEF Repeats
    <3>2. given = PairsOf(info, unnamed)
      BY <2>2, <2>4, <2>5, <3>1
    <3>3. <<"name", info["name"]>> = <<"name", DesktopName>>
      <4>1. <<"name", info["name"]>> \in Named(read)
        BY <1>9 DEF Fields
      <4>2. <<"name", info["name"]>>[1] = "name"
        OBVIOUS
      <4> QED
        BY <2>1, <3>1, <4>1, <4>2 DEF Named
    <3> QED
      BY <1>6, <2>2, <3>2, <3>3 DEF Holds
  <2> QED
    BY <2>6, <2>7
<1> QED
  BY <1>1, <1>5, <1>7, <1>8, <1>9

(* FromUri reads of any link of pairs exactly the valid info it stands for. *)
LEMMA FromUriReads ==
    ASSUME NEW Keys, NEW Values, NEW link, link.query \in Seq(Keys \X Values)
    PROVE  \A info : info \in FromUri(link) <=> info \in ValidInfos /\ StandsFor(link, info)
<1>1. CASE IsPairingLink(link) /\ ReadPairs(link.query).ok
  <2>1. \A info : info \in FromUri(link) <=>
          /\ info \in ValidInfos
          /\ \A key \in Fields : <<key, info[key]>> \in Named(ReadPairs(link.query))
    BY <1>1, InfoRead
  <2>2. \A info \in ValidInfos : StandsFor(link, info) <=>
          \A key \in Fields : <<key, info[key]>> \in Named(ReadPairs(link.query))
    BY <1>1, ReadsWritten
  <2> QED
    BY <2>1, <2>2
<1>2. CASE IsPairingLink(link) /\ ~ReadPairs(link.query).ok
  <2>1. FromUri(link) = {}
    BY <1>2 DEF FromUri
  <2> QED
    BY <1>2, <2>1, ReadsWritten
<1>3. CASE ~IsPairingLink(link)
  BY <1>3 DEF FromUri, StandsFor
<1> QED
  BY <1>1, <1>2, <1>3

(* What uri writes of an info stands for no other. *)
LEMMA UriStandsFor ==
    ASSUME NEW info \in ValidInfos, NEW other \in ValidInfos
    PROVE  StandsFor(Uri(info), other) <=> other = info
<1>1. IsPairingLink(Uri(info))
  BY DEF IsPairingLink, Uri, PairingLink
<1>2. /\ ToSet(Uri(info).query) = Written(info) /\ Len(Uri(info).query) = 5
      /\ ToSet(Uri(other).query) = Written(other) /\ Len(Uri(other).query) = 5
      /\ Len(Front(Uri(other).query)) = 4
  BY WrittenQuery
<1>3. StandsFor(Uri(info), other) <=> Written(info) = Written(other)
  BY <1>1, <1>2 DEF StandsFor, Rearranges
<1>4. ASSUME Written(info) = Written(other) PROVE other = info
  <2>1. \A key \in Fields : info[key] = other[key]
    <3> TAKE key \in Fields
    <3>1. PICK same \in Fields : <<key, info[key]>> = <<same, other[same]>>
      BY <1>4 DEF Written
    <3> QED
      BY <3>1
  <2>2. /\ info.host = other.host /\ info.port = other.port /\ info.sid = other.sid
        /\ info.code = other.code /\ info.name = other.name
    BY <2>1 DEF Fields
  <2> QED
    BY <2>2 DEF ValidInfos
<1> QED
  BY <1>3, <1>4

-----------------------------------------------------------------------------

\* CAMERA_GATE: one scan at a time has anything of the camera, and frees it as a whole
\* before the next one may enter, whichever call fails and whenever it is cancelled.
THEOREM OneCamera == Spec => []CameraUnderGate
<1>1. IInv => CameraUnderGate
  BY DEF IInv, CameraInv
<1> QED
  BY <1>1, InvariantHolds, PTL

\* should_publish, the token and the flags of the window: nothing a scan does after it
\* was cancelled is seen by the next one, for any number of scans.
THEOREM WindowTellsScan == Spec => []WindowFollowsScan
<1>1. IInv => WindowFollowsScan
  BY DEF IInv, WindowInv
<1> QED
  BY <1>1, InvariantHolds, PTL

\* RemoteSession::connect: who is at the other end of a session that is up.
THEOREM PairedOnly == Spec => []SessionIsPaired
<1>1. ASSUME IInv, NEW a \in Scans, conn[a].stage \in {"noise", "hello", "up"}
      PROVE /\ conn[a].stage = "up" =>
                 /\ Peer(a).code = Pairing(a).code
                 /\ Peer(a).sid = Pairing(a).sid
                 /\ Peer(a).version = ProtocolVersion
            /\ desk[a].stage = "ready" => Peer(a).code = Pairing(a).code
  <2>1. PICK info \in Readable, peer \in Peers :
          Linked(a, info, peer) /\ Pairing(a) = info /\ Peer(a) = peer
    BY <1>1, LinkEnds DEF IInv
  <2> QED
    BY <2>1 DEF Linked
<1>2. ASSUME IInv, NEW a \in Scans, conn[a].stage \notin {"noise", "hello", "up"}
      PROVE conn[a].stage # "up" /\ desk[a].stage # "ready"
  BY <1>2 DEF IInv, LinkInv, LinkOf, Nobody
<1>3. IInv => SessionIsPaired
  BY <1>1, <1>2 DEF SessionIsPaired
<1> QED
  BY <1>3, InvariantHolds, PTL

\* crop_scan_region against the window: the crop that is decoded is the box, for images
\* with even sides, views and boxes of any size, not only those of the run.
THEOREM BoxIsDecoded == Spec => []CropIsTheBox
<1>1. CropIsTheBox
  <2> SUFFICES ASSUME NEW size \in [width : 1 .. MaxLength, height : 1 .. MaxLength],
                      NEW layout \in [width : 1 .. MaxLength, height : 1 .. MaxLength,
                                      box : 1 .. MaxLength],
                      Whole(size), layout.box <= Least(layout.width, layout.height),
                      NEW rotation \in Rotations
               PROVE Crop(size, rotation, [layout |-> layout, rotation |-> rotation])
                       = InBox(size, rotation, layout)
    BY DEF CropIsTheBox
  <2>1. size \in Sizes
    BY MaxLengthAssumption DEF Sizes
  <2>2. layout \in [width : Int, height : Int, box : Int] /\ IsSet(layout)
    BY MaxLengthAssumption DEF IsSet
  <2>3. rotation \in Int
    BY DEF Rotations
  <2> DEFINE here == [layout |-> layout, rotation |-> rotation]
  <2>4. here.layout = layout
    OBVIOUS
  <2>5. InBox(size, rotation, layout) \subseteq Crop(size, rotation, here)
    BY <2>1, <2>2, <2>3, BoxInCrop
  <2> HIDE DEF here
  <2>6. Crop(size, rotation, here) \subseteq InBox(size, rotation, layout)
    BY <2>1, <2>2, <2>3, <2>4, CropInBox
  <2> QED
    BY <2>5, <2>6 DEF here
<1> QED
  BY <1>1, PTL

\* The listener and the window: a code that a scan in progress reads is one that the
\* window shows in its box, of images with even sides, however the display turns and the threads interleave.
THEOREM OnlyShownIsRead == Spec => ReadsOnlyWhatIsShown
<1> DEFINE ReadsShown(s) ==
      found[s] = {} /\ found'[s] # {} /\ ~Cancelled(s) =>
          /\ image[s] = IF window.preview = NoRotation THEN 0 ELSE window.preview
          /\ window.told /\ Whole(ImageSize) =>
               \A c \in found'[s] : c.at \in InBox(ImageSize, image[s], window.layout)
<1>1. ASSUME IInv, ViewInv, [Next]_vars, NEW s \in Scans PROVE ReadsShown(s)
  <2> SUFFICES ASSUME found[s] = {}, found'[s] # {}, ~Cancelled(s)
               PROVE /\ image[s] = IF window.preview = NoRotation THEN 0 ELSE window.preview
                     /\ window.told /\ Whole(ImageSize) =>
                          \A c \in found'[s] : c.at \in InBox(ImageSize, image[s], window.layout)
    OBVIOUS
  <2>1. found \in [Scans -> SUBSET Codes] /\ image \in [Scans -> Int]
    BY <1>1 DEF IInv, WindowTypes, CameraTypes
  <2>2. PICK r \in Scans : ImageDecoded(r)
    <3>1. CASE \E r \in Scans : ThreadSteps(r)
      BY <2>1, <3>1 DEF ThreadSteps, EntersGate, OpensCamera, LooksInVain, Receives,
                        ClosesCamera, Publishes, cameraVars
    <3>2. CASE UNCHANGED found
      BY <3>2
    <3> QED
      BY <1>1, <3>1, <3>2
      DEF Next, CancelRemoteScan, DisplayTurns, LayoutChanges, GeometryChanged, EventLoop,
          PreviewShown, ScanPublished, TapScan, TaskSteps, PermissionAnswered,
          SessionConnected, SessionInstalled, ImageArrives, Handshakes, cameraVars, vars
  <2>3. PICK c \in Codes : /\ s = r /\ found'[s] = {c} /\ image[s] # NoRotation
                           /\ c.at \in Crop(ImageSize, image[s], region[s])
    BY <2>1, <2>2 DEF ImageDecoded
  <2>4. Shows(s)
    <3>1. stage[s] \in AtCamera
      BY <1>1, <2>3 DEF IInv, CameraInv, CameraUnderGate, AtCamera, CameraStages
    <3> QED
      BY <1>1, <3>1 DEF ViewInv, RegionIsShown
  <2>5. region[s].rotation = image[s] /\ IsSet(region[s].layout)
    BY <2>3 DEF Crop, SameRotation
  <2>6. region[s].layout # UnsetLayout
    BY <2>5 DEF IsSet, UnsetLayout
  <2>7. region[s].layout \in [width : Int, height : Int, box : Int]
    BY <1>1 DEF ViewInv, RegionTypes, CameraLayouts
  <2>8. ImageSize \in Sizes
    BY ImageAssumption DEF Sizes
  <2>9. Whole(ImageSize) => c.at \in InBox(ImageSize, image[s], region[s].layout)
    BY <2>1, <2>3, <2>7, <2>8, CropInBox
  <2> QED
    BY <2>3, <2>4, <2>5, <2>6, <2>9 DEF Shows
<1>2. IInv /\ ViewInv /\ [Next]_vars => [\A s \in Scans : ReadsShown(s)]_vars
  BY <1>1
<1>3. Spec => []ViewInv
  BY InitView, StepView, InvariantHolds, PTL DEF Spec
<1> QED
  BY <1>2, <1>3, InvariantHolds, PTL DEF Spec, ReadsOnlyWhatIsShown

\* PairingInfo::uri and from_uri: an info survives the way through its link, and a link
\* is read as an info exactly when it holds each of its fields once and nothing else, in
\* any order, but for the name of a desktop that has the default one.  So for all infos
\* that are valid and all links whose query is made of pairs, when the infos there are
\* have those the links stand for.
THEOREM UriAlwaysReads ==
    ASSUME NEW Keys, NEW Values,
           Infos \subseteq ValidInfos,
           \A link \in Links : link.query \in Seq(Keys \X Values),
           \A link \in Links : \A info \in ValidInfos : StandsFor(link, info) => info \in Infos
    PROVE  Spec => []UriReads
<1>1. ASSUME NEW info \in Infos PROVE FromUri(Uri(info)) = {info}
  <2>1. PICK Fitting : Fitting = {info[key] : key \in Fields}
    OBVIOUS
  <2>2. Uri(info).query \in Seq(Fields \X Fitting)
    <3>1. \A n \in 1 .. 5 : <<UriOrder[n], info[UriOrder[n]]>> \in Fields \X Fitting
      BY <2>1, OrderOfFields
    <3>2. [n \in 1 .. 5 |-> <<UriOrder[n], info[UriOrder[n]]>>] \in Seq(Fields \X Fitting)
      BY <3>1
    <3> QED
      BY <3>2, WrittenQuery
  <2>3. \A other : other \in FromUri(Uri(info)) <=>
                    other \in ValidInfos /\ StandsFor(Uri(info), other)
    BY <2>2, FromUriReads
  <2> QED
    BY <2>3, UriStandsFor
<1>2. ASSUME NEW link \in Links PROVE FromUri(link) = Meant(link)
  <2>1. \A info : info \in FromUri(link) <=> info \in ValidInfos /\ StandsFor(link, info)
    BY FromUriReads
  <2> QED
    BY <2>1 DEF Meant
<1>3. UriReads
  BY <1>1, <1>2 DEF UriReads
<1> QED
  BY <1>3, PTL
=============================================================================
