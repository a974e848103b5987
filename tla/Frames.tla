--------------------------------- MODULE Frames ---------------------------------
(* From the screen of a device to a rectangle of an application's picture:    *)
(* AdbScreencapBackend (capture/adapters/android_adb.py), the frame sources   *)
(* (capture/acquisition.py), the location and extraction of an application's  *)
(* raster (app/presentation, app/raster) and the mapping of a region of it to *)
(* another presentation of the same application. Concurrent callers share one *)
(* backend. The screen shows another picture at every tick of the clock, and  *)
(* a pixel is named by its picture and its place on the screen.               *)
EXTENDS Rasters, FiniteSets

CONSTANTS Callers,     \* threads
          Readers,     \* callers that go on to look at what they captured
          MaxFrames,   \* bound: acquisitions
          MaxClock,    \* bound: pictures
          MaxBack,     \* bound: how far the wall clock is set back
          ScreenWidth, ScreenHeight,
          Shapes,      \* third dimensions of a decoded payload, 0 for none
          Depths,      \* bits of its pixels' channels: a PNG has 8 or 16
          Usable,      \* quality.usable of the frames; the ADB backend's are TRUE
          Locations,   \* bounds a configured locator may hold
          Regions,     \* rectangles asked of an image
          Targets,     \* bounds of the presentations a region is mapped to
          Reach        \* no edge lies further out, magnified to the screen or not

ASSUME FramesAssumption ==
    /\ MaxFrames \in Nat /\ MaxClock \in Nat /\ MaxBack \in Nat
    /\ {ScreenWidth, ScreenHeight} \subseteq Nat \ {0}
    /\ Readers \subseteq Callers /\ Usable \subseteq BOOLEAN
    /\ Locations \subseteq Rects /\ Regions \subseteq Rects /\ Targets \subseteq Rects

(* One side of a presentation, and a screen of so many pixels.                *)
InReach(low, size, screen) ==
    /\ size <= Reach
    /\ \A edge \in {low, low + size} :
         Magnitude(edge) <= Reach /\ Magnitude(edge) * screen <= Reach * size

(* Floats are so precise that the errors of the four operations on a          *)
(* coordinate add up to less than the tolerance: 53 bits and 1e-9 allow for a *)
(* million pixels.                                                            *)
ASSUME PrecisionAssumption ==
    /\ Reach \in Nat \ {0} /\ ScreenWidth <= Reach /\ ScreenHeight <= Reach
    /\ \A r \in Targets : InReach(r.x, r.width, ScreenWidth) /\ InReach(r.y, r.height, ScreenHeight)
    /\ Reach * (16 * One + 5 * Significands) <= 2 * Tolerance * Significands
    /\ 2 * Tolerance * Reach < One

VARIABLES
    clock,       \* time, and the picture on the screen
    back,        \* how far the wall clock was set back: datetime.now() is clock - back
    nextFrameId, \* _next_frame_id
    acquiring,   \* acquisitions begun
    at,          \* at[c]: where caller c is
    array,       \* array[c]: the decoded payload
    frame,       \* frame[c]: <<>> or <<frame>>
    outcome,     \* outcome[c]: why the last call of c gave nothing
    view,        \* view[c]: <<>> or the image c works on, cropped again and again
    mapped,      \* mapped[c]: <<>> or a region, a target and what the one became in the other
    \* history
    shot,        \* shot[c]: when the picture was taken
    began,       \* began[c]: when acquire() was called
    earlier,     \* earlier[c]: the frames that had been returned by then
    returned,    \* frames returned
    lost,        \* numbers taken by calls that raised afterwards
    corner       \* corner[c]: where on the screen the view of c begins

frameVars == <<clock, back, nextFrameId, acquiring, at, array, frame, outcome, view, mapped,
               shot, began, earlier, returned, lost, corner>>
time == <<clock, back>>
given == <<returned, lost>>
reading == <<view, mapped, corner>>

None == <<>>
Picture(p) == [y \in 1..ScreenHeight |-> [x \in 1..ScreenWidth |-> <<p, x - 1, y - 1>>]]
Unavailable == {"source_unavailable", "permission_denied", "transient_failure"}

FramesInit ==
    /\ clock = 0 /\ back = 0 /\ nextFrameId = 0 /\ acquiring = 0 /\ returned = {} /\ lost = {}
    /\ at = [c \in Callers |-> "idle"] /\ outcome = [c \in Callers |-> "none"]
    /\ array = [c \in Callers |-> None] /\ frame = [c \in Callers |-> None]
    /\ view = [c \in Callers |-> None] /\ mapped = [c \in Callers |-> None]
    /\ shot = [c \in Callers |-> 0] /\ began = [c \in Callers |-> 0]
    /\ earlier = [c \in Callers |-> {}] /\ corner = [c \in Callers |-> <<0, 0>>]

Goto(c, place) == at' = [at EXCEPT ![c] = place]

(* The call gives nothing but a reason.                                       *)
Refuse(c, reason) == outcome' = [outcome EXCEPT ![c] = reason] /\ Goto(c, "idle")

Tick ==
    /\ clock < MaxClock
    /\ clock' = clock + 1
    /\ UNCHANGED <<back, nextFrameId, acquiring, at, array, frame, outcome, reading, shot, began,
                   earlier, given>>

(* The wall clock is set back, by a user or by NTP. Set forward, it only puts *)
(* captured_at further behind the picture.                                    *)
SetBack ==
    /\ back < MaxBack
    /\ back' = back + 1
    /\ UNCHANGED <<clock, nextFrameId, acquiring, at, array, frame, outcome, reading, shot, began,
                   earlier, given>>

Acquire(c) ==
    /\ at[c] = "idle" /\ acquiring < MaxFrames
    /\ acquiring' = acquiring + 1
    /\ Goto(c, "asking")
    /\ began' = [began EXCEPT ![c] = clock]
    /\ earlier' = [earlier EXCEPT ![c] = {f.id : f \in returned}]
    /\ frame' = [frame EXCEPT ![c] = None] /\ view' = [view EXCEPT ![c] = None]
    /\ mapped' = [mapped EXCEPT ![c] = None] /\ outcome' = [outcome EXCEPT ![c] = "none"]
    /\ UNCHANGED <<time, nextFrameId, array, shot, given, corner>>

(* raw_exec answers with a picture of that moment, of any shape, or with     *)
(* none: an error, an empty payload, one that cannot be decoded.              *)
Shoot(c) ==
    /\ at[c] = "asking"
    /\ \/ \E channels \in Shapes, depth \in Depths :
            /\ array' = [array EXCEPT ![c] =
                  <<[rows |-> Picture(clock), channels |-> channels, depth |-> depth]>>]
            /\ shot' = [shot EXCEPT ![c] = clock]
            /\ Goto(c, "decoding")
            /\ UNCHANGED outcome
       \/ \E reason \in Unavailable : Refuse(c, reason) /\ UNCHANGED <<array, shot>>
    /\ UNCHANGED <<time, nextFrameId, acquiring, frame, reading, began, earlier, given>>

(* By the shape of the payload; some shapes have no format.                   *)
FormatOf(channels) ==
    CASE channels = 0 -> "gray8" [] channels = 3 -> "bgr24" [] channels = 4 -> "bgra32"
      [] OTHER -> "none"

(* Faulty variant: the frames returned so far are counted.                    *)
TakeCount(c) ==
    /\ frame' = [frame EXCEPT ![c] = <<[id |-> Cardinality(returned)]>>]
    /\ nextFrameId' = nextFrameId + 1

(* Under _lock.                                                               *)
TakeFrameId(c) ==
    /\ frame' = [frame EXCEPT ![c] = <<[id |-> nextFrameId]>>]
    /\ nextFrameId' = nextFrameId + 1

Number(c) ==
    /\ at[c] = "decoding"
    /\ IF FormatOf(array[c][1].channels) = "none"
       THEN Refuse(c, "transient_failure") /\ UNCHANGED <<frame, nextFrameId>>
       ELSE TakeFrameId(c) /\ Goto(c, "numbered") /\ UNCHANGED outcome
    /\ UNCHANGED <<time, acquiring, array, reading, shot, began, earlier, given>>

(* The image, its FrameInfo and the frame. A source that materializes finds   *)
(* that the image owns its pixels. An array that is no image, of a PNG with   *)
(* 16 bits a channel, makes the call raise, and its number is lost.           *)
Stamp(c) ==
    /\ at[c] = "numbered"
    /\ LET owned == RasterImage(array[c][1], FormatOf(array[c][1].channels))
           id == frame[c][1].id
       IN  \/ /\ owned = None
              /\ Refuse(c, "TypeError")
              /\ lost' = lost \cup {id}
              /\ UNCHANGED <<frame, view, corner, returned>>
           \/ /\ owned # None
              /\ \E usable \in Usable :
                   frame' = [frame EXCEPT ![c] = <<[id |-> id, capturedAt |-> clock - back,
                                                    usable |-> usable, image |-> owned[1]]>>]
              /\ view' = [view EXCEPT ![c] = <<Materialize(owned[1])>>]
              /\ corner' = [corner EXCEPT ![c] = <<0, 0>>]
              /\ returned' = returned \cup
                    {[id |-> id, capturedAt |-> clock - back, back |-> back, shot |-> shot[c],
                      began |-> began[c], earlier |-> earlier[c]]}
              /\ Goto(c, IF c \in Readers THEN "captured" ELSE "idle")
              /\ UNCHANGED <<outcome, lost>>
    /\ array' = [array EXCEPT ![c] = None]
    /\ UNCHANGED <<time, nextFrameId, acquiring, mapped, shot, began, earlier>>
------------------------------------------------------------------------------
(* What a locator says of a frame: the whole of it, configured bounds, that   *)
(* it is not there, or, against its contract, something of another surface.   *)
Answers == {[says |-> "full"], [says |-> "unavailable"], [says |-> "foreign"]}
           \cup {[says |-> "configured", bounds |-> b] : b \in Locations}

(* locate_application_presentation_in_capture: bounds, or the reason.         *)
Locate(f, answer) ==
    LET all == Bounds(f.image)
        bounds == IF answer.says = "configured" THEN answer.bounds ELSE all
    IN  IF ~f.usable THEN [bounds |-> None, reason |-> "frame_unusable"]
        ELSE IF answer.says = "unavailable"
        THEN [bounds |-> None, reason |-> "presentation_not_located"]
        ELSE IF answer.says = "foreign" THEN [bounds |-> None, reason |-> "ValueError"]
        ELSE IF ~ContainsRect(all, bounds)
        THEN [bounds |-> None, reason |-> "bounds_outside_capture"]
        ELSE [bounds |-> <<bounds>>, reason |-> "none"]

(* The durable image of an application's raster.                              *)
Extracted(f, bounds) ==
    Materialize(IF bounds = Bounds(f.image) THEN f.image ELSE Crop(f.image, bounds)[1])

(* extract_application_presentation_raster.                                   *)
Extract(c) ==
    /\ at[c] = "captured"
    /\ \E answer \in Answers :
         LET located == Locate(frame[c][1], answer) IN
         IF located.bounds = None
         THEN Refuse(c, located.reason) /\ UNCHANGED <<view, corner>>
         ELSE /\ view' = [view EXCEPT ![c] = <<Extracted(frame[c][1], located.bounds[1])>>]
              /\ corner' = [corner EXCEPT ![c] = <<located.bounds[1].x, located.bounds[1].y>>]
              /\ Goto(c, "extracted")
              /\ UNCHANGED outcome
    /\ UNCHANGED <<time, nextFrameId, acquiring, array, frame, mapped, shot, began, earlier, given>>

(* crop_image: refused outside of the image.                                  *)
CropView(c) ==
    /\ at[c] \in {"captured", "extracted", "cropped"}
    /\ \E region \in Regions :
         LET cropped == Crop(view[c][1], region) IN
         IF cropped = None THEN Refuse(c, "ValueError") /\ UNCHANGED <<view, corner>>
         ELSE /\ view' = [view EXCEPT ![c] = cropped]
              /\ corner' = [corner EXCEPT ![c] = <<@[1] + region.x, @[2] + region.y>>]
              /\ Goto(c, "cropped")
              /\ UNCHANGED outcome
    /\ UNCHANGED <<time, nextFrameId, acquiring, array, frame, mapped, shot, began, earlier, given>>

MaterializeView(c) ==
    /\ at[c] = "cropped"
    /\ view' = [view EXCEPT ![c] = <<Materialize(@[1])>>]
    /\ Goto(c, "extracted")
    /\ UNCHANGED <<time, nextFrameId, acquiring, array, frame, outcome, mapped, shot, began,
                   earlier, given, corner>>

(* A region of the raster is mapped to another presentation of the same       *)
(* anchor, or, by the inverse mapping, one of that to the raster. Between     *)
(* different anchors there is no mapping.                                     *)
MapRegion(c) ==
    /\ at[c] = "extracted"
    /\ \/ \E region \in Regions, other \in Targets :
         \E source, target \in {Bounds(view[c][1]), other} :
            LET image == MapRectBetween(source, target, region)
            IN  IF image = None THEN Refuse(c, "ValueError") /\ UNCHANGED mapped
                ELSE /\ mapped' = [mapped EXCEPT ![c] =
                          <<[source |-> source, region |-> region, target |-> target,
                             image |-> image[1]]>>]
                     /\ Goto(c, "idle")
                     /\ UNCHANGED outcome
       \/ Refuse(c, "ValueError") /\ UNCHANGED mapped
    /\ UNCHANGED <<time, nextFrameId, acquiring, array, frame, shot, began, earlier, given, view,
                   corner>>

FramesNext ==
    \/ Tick \/ SetBack
    \/ \E c \in Callers : \/ Acquire(c) \/ Shoot(c) \/ Number(c) \/ Stamp(c)
                          \/ Extract(c) \/ CropView(c) \/ MaterializeView(c) \/ MapRegion(c)

FramesSpec == FramesInit /\ [][FramesNext]_frameVars
------------------------------------------------------------------------------
(* Whoever asks for frames at the same time, a number is given once, and one  *)
(* below the next is that of a frame returned, of a call about to return one, *)
(* or of a call that raised after it took it: the stream has a gap there. A   *)
(* frame shows the screen as it was between the call and captured_at, on a    *)
(* wall clock that was set back so far; and of two frames acquired one after  *)
(* the other, the later has the higher number, shows a picture no older and,  *)
(* unless the wall clock was set back in between, has a captured_at no        *)
(* earlier (android_adb.py 97-162).                                           *)
FramesInOrder ==
    LET Asking == {c \in Callers : at[c] = "numbered"}
        ids == {f.id : f \in returned}
    IN  /\ \A f, g \in returned : f.id = g.id => f = g
        /\ ids \cup {frame[c][1].id : c \in Asking} \cup lost = 0..(nextFrameId - 1)
        /\ \A c \in Asking : frame[c][1].id \notin ids \cup lost
        /\ ids \cap lost = {}
        /\ \A f \in returned :
             /\ f.began <= f.shot /\ f.shot <= f.capturedAt + f.back
             /\ \A g \in returned : g.id \in f.earlier =>
                  /\ g.id < f.id /\ g.shot <= f.shot
                  /\ g.back = f.back => g.capturedAt <= f.capturedAt

(* However often an image is cropped and copied, its pixels are those that    *)
(* were on the screen at the place the crops add up to; a raster and what was *)
(* materialized own their pixels (models.py 205-288, extraction.py 94-131).   *)
ViewsInPlace ==
    \A c \in Callers : at[c] \in {"captured", "extracted", "cropped"} =>
        LET rows == Pixels(view[c][1]) IN
        /\ \A y \in DOMAIN rows, x \in DOMAIN rows[1] :
             rows[y][x] = <<shot[c], corner[c][1] + x - 1, corner[c][2] + y - 1>>
        /\ at[c] = "extracted" => IsMaterialized(view[c][1])

(* The edge of the image of v, exactly: <<numerator, denominator>>.           *)
ExactEdge(v, from, width, to, newWidth) == <<to * width + (v - from) * newWidth, width>>

(* What a region becomes in another presentation encloses its exact image and *)
(* is larger by a pixel at most, although the scale was rounded: but it may   *)
(* be larger, and then stick out of the target. map_rect_exact gives the      *)
(* exact image if and only if its edges are integers (transform.py 74-162).   *)
EnclosedOnAxis(low, high, exactLow, exactHigh) ==
    /\ low * exactLow[2] <= exactLow[1] /\ exactLow[1] < (low + 2) * exactLow[2]
    /\ exactHigh[1] <= high * exactHigh[2] /\ (high - 2) * exactHigh[2] < exactHigh[1]
RegionEnclosed ==
    \A c \in Callers : mapped[c] # None =>
        LET m == mapped[c][1]
            X(v) == ExactEdge(v, m.source.x, m.source.width, m.target.x, m.target.width)
            Y(v) == ExactEdge(v, m.source.y, m.source.height, m.target.y, m.target.height)
            edges == <<X(m.region.x), Y(m.region.y), X(Right(m.region)), Y(Bottom(m.region))>>
        IN  /\ EnclosedOnAxis(m.image.x, Right(m.image), edges[1], edges[3])
            /\ EnclosedOnAxis(m.image.y, Bottom(m.image), edges[2], edges[4])
            /\ MapRectExact(FromRects(m.source, m.target), m.region) =
                 IF \A i \in 1..4 : edges[i][1] % edges[i][2] = 0
                 THEN FromLTRB(edges[1][1] \div edges[1][2], edges[2][1] \div edges[2][2],
                               edges[3][1] \div edges[3][2], edges[4][1] \div edges[4][2])
                 ELSE None

(* A pixel is where it was on the screen however often its image is cropped   *)
(* and copied, and a region mapped to another presentation encloses its exact *)
(* image (models.py 205-288, extraction.py 94-131, transform.py 74-162).      *)
PixelsInPlace == ViewsInPlace /\ RegionEnclosed
==============================================================================
