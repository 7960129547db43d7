------------------------------ MODULE ViewPort ------------------------------
(***************************************************************************)
(* App::ViewPort: the window that shows an image, its zoom, pan and        *)
(* orientation, and the timer that redraws an image while it loads or      *)
(* moves. The viewer's thread runs the handlers; the decoder's thread      *)
(* changes the images and posts the events the Viewer hands on.            *)
(***************************************************************************)
EXTENDS ZoomStrategy, Composers

CONSTANTS
    Images,
    NoImage,
    Files,       \* what a file can be: see File
    Starts,      \* the ways a behaviour may begin: see Start
    Areas,       \* sizes the window can take
    PanSteps     \* distances of one pan

File ==
    [kind : {"static", "gif", "webp"}, preview : BOOLEAN,
     broken : {"no", "header", "data", "throws"},
     size : (Nat \ {0}) \X (Nat \ {0}), orientation : 1..8, frames : Seq(Frame)]

\* The files of the images; which of them are decoded already; the window; the
\* settings; what the user does, and how many times.
Start ==
    [files : [Images -> DOMAIN Files], loaded : SUBSET Images, area : Areas,
     behaviour : ResizeBehaviour, resetPan : BOOLEAN,
     acts : SUBSET {"show", "turn", "zoom", "mode", "pan", "resize", "expose", "drop"},
     budget : Nat]

ASSUME ViewPortAssumption ==
    /\ NoImage \notin Images
    /\ \A f \in DOMAIN Files : Files[f] \in File
    \* A preview is a JPEG's; a GIF without a frame has no header.
    /\ \A f \in DOMAIN Files : Files[f].preview => Files[f].kind = "static"
    /\ \A f \in DOMAIN Files : Files[f].kind = "gif" => Files[f].frames # <<>>
    /\ Starts \subseteq Start
    /\ \A s \in Starts : \A i \in s.loaded : Files[s.files[i]].broken = "no"
    /\ \A size \in Areas : size \in Nat \X Nat
    /\ PanSteps \subseteq Int \X Int

VARIABLES
    start,          \* the Start of this behaviour
    image,          \* the images: see LoadingImage
    events,         \* Viewer::m_cacheNotifications
    m_image,        \* the image shown, or NoImage
    m_props,        \* MetaAngle, RequestedAngle and Zoom of m_props
    view,           \* m_pan, m_zoom, m_imageZoom
    area,           \* the size of m_canvas
    angle,          \* Renderer::Angle, of the last Render
    timer,          \* whether m_animationTimer runs
    invalid,        \* m_canvas is to be painted
    keyPanned,      \* the view was moved by a key since it was painted
    painting,       \* a handler of several steps: "no", or how far it is and what it
                    \* read
    screen,         \* what was painted last
    budget          \* how often the user may still act

decoderVars == <<image, events>>
viewVars == <<m_image, m_props, view, area, angle>>
paintVars == <<painting, screen>>
vars == <<start, image, events, m_image, m_props, view, area, angle, timer, invalid,
          keyPanned, painting, screen, budget>>

FileOf(i) == Files[start.files[i]]
FramesOf(i) == FileOf(i).frames

-----------------------------------------------------------------------------
(* Img::Image. Deallocate takes the composer and leaves the header.        *)

NoComposer == NewComposer("none")

\* rows: how much of each surface is decoded, -1 before it is allocated.
LoadingImage ==
    [stage |-> "header", header |-> FALSE, finished |-> FALSE, composer |-> NoComposer,
     rows |-> [fast |-> -1, full |-> -1]]

GetSize(i) == IF i # NoImage /\ image[i].header THEN FileOf(i).size ELSE <<0, 0>>

HasDelayNow(img, i) ==
    img[i].header /\ img[i].composer.kind # "none" /\ HasDelay(img[i].composer, FramesOf(i))

\* CurrentSurface: asking for the surface may compose it.
CurrentSurface(img, i) ==
    IF i # NoImage /\ img[i].header /\ img[i].composer.kind # "none"
    THEN [img EXCEPT ![i].composer = RequestCurrentSurface(@, FramesOf(i))]
    ELSE img

\* The size of the surface on show; half the image's for a preview.
SurfaceSize(img, i) ==
    LET surface == IF i = NoImage THEN "none" ELSE img[i].composer.current
    IN  CASE surface = "none" -> <<0, 0>>
          [] surface = "fast" -> IF img[i].rows["fast"] < 0 THEN <<0, 0>>
                                 ELSE [k \in 1..2 |-> (FileOf(i).size[k] + 1) \div 2]
          [] surface = "full" -> IF img[i].rows["full"] < 0 THEN <<0, 0>> ELSE FileOf(i).size
          [] OTHER -> FileOf(i).size

\* What the surface on show has on it.
SurfaceContent(img, i) ==
    LET c == img[i].composer
    IN  IF c.kind = "static" /\ c.current # "none"
        THEN <<c.current, img[i].rows[c.current]>>
        ELSE <<"frame", ShownContent(c, FramesOf(i))>>

-----------------------------------------------------------------------------
(* Sizes and zoom.                                                         *)

Angle(props) == FinalAngle(props.MetaAngle, props.RequestedAngle)

ZoomedSize(i, props, zoom) == Scaled(UnzoomedSize(GetSize(i), Angle(props)), zoom)

\* PerformOnSize with ZoomSet.
PerformOnSize(img, i, props, v, size) ==
    \E r \in {CalculateViewAreaSize(v.zoom, start.behaviour, size,
                 UnzoomedSize(SurfaceSize(img, i), Angle(props)),
                 UnzoomedSize(GetSize(i), Angle(props)))} :
        \E constrained \in {ResizeConstraints(v.pan, ZoomedSize(i, props, r.ZoomImage))} :
            /\ view' = [pan |-> ResizeViewport(constrained, r.ZoomedSize),
                        zoom |-> r.zoom, imageZoom |-> r.ZoomImage]
            /\ m_props' = [props EXCEPT !.Zoom = r.ZoomSurface]
            /\ invalid' = TRUE

\* Mutant: the pan is reset whenever the image is looked at.
ImagePanReset(i, diff) ==
    Reset(ResizeViewport(ResizeConstraints(view.pan, GetSize(i)), UnzoomedSize(area, angle)))

\* The pan as Image changes it before PerformOnSize: first to the size of the
\* image and of the window as the last painting turned it.
ImagePan(i, diff) ==
    LET sized == ResizeViewport(ResizeConstraints(view.pan, GetSize(i)),
                                UnzoomedSize(area, angle))
    IN  IF diff /\ start.resetPan THEN Reset(sized) ELSE sized

\* The orientation field: the metadata comes with the header.
MetaOf(i) == IF image[i].header THEN MetaAngle[FileOf(i).orientation] ELSE "Default"

RestartAnimation(img, i) ==
    IF img[i].header /\ img[i].composer.kind # "none"
    THEN [img EXCEPT ![i].composer = OnRestart(@, FramesOf(i))]
    ELSE img

\* Mutant: the timer is started for an image that moves only.
TimerForMoving(img, i) == i # NoImage /\ HasDelayNow(img, i)

\* The timer runs for an image that moves or is not finished.
TimerFor(img, i) == i # NoImage /\ (HasDelayNow(img, i) \/ ~img[i].finished)

\* ViewPort::Image.
Image(i) ==
    LET diff == i # m_image
        surfaced == CurrentSurface(image, i)
    IN  \E shown \in {IF diff /\ i # NoImage THEN RestartAnimation(surfaced, i) ELSE surfaced},
           pan \in {IF i = NoImage THEN view.pan ELSE ImagePan(i, diff)} :
            /\ m_image' = i
            /\ image' = shown
            /\ timer' = TimerFor(shown, i)
            /\ PerformOnSize(shown, i,
                  IF i = NoImage THEN m_props ELSE [m_props EXCEPT !.MetaAngle = MetaOf(i)],
                  [view EXCEPT !.pan = pan], area)
            /\ UNCHANGED <<area, angle>>

\* A handler goes on with ImageUpdated; the decoder may come before it.
ImageUpdated ==
    /\ painting \in {"update", "tick"}
    /\ Image(m_image)
    /\ painting' = IF painting = "tick" THEN "updated" ELSE "no"
    /\ UNCHANGED <<start, events, keyPanned, screen, budget>>

-----------------------------------------------------------------------------
(* The user's actions. The Viewer shows another image, turns it and        *)
(* refreshes it, zooms, pans by mouse or key; the window changes its size. *)

Act(kind) ==
    /\ kind \in start.acts /\ budget > 0 /\ painting = "no"
    /\ budget' = budget - 1
    /\ UNCHANGED <<start, screen>>

\* ActiveImage, without a change of zoom.
Show(i) ==
    /\ Act("show")
    /\ i # m_image
    /\ Image(i)
    /\ UNCHANGED <<events, keyPanned, painting>>

\* Viewer::Rotate: ViewPort::Rotate, then ImageUpdated.
Rotate(requested) ==
    /\ Act("turn")
    /\ PerformOnSize(image, m_image, [m_props EXCEPT !.RequestedAngle = requested], view, area)
    /\ painting' = "update"
    /\ UNCHANGED <<decoderVars, m_image, area, angle, timer, keyPanned>>

\* A key turns the picture further, the menu to any angle.
Turn == \E requested \in RotationAngle : Rotate(requested)

\* Mutant: a step is counted from the level chosen before the image was fitted.
ZoomStepStale(direction) ==
    IF direction = "in"
    THEN [zoom |-> [view.zoom EXCEPT !.mode = "Free", !.level = Min2(@ + 1, Len(ZoomLevels))],
          changed |-> view.zoom.level < Len(ZoomLevels)]
    ELSE [zoom |-> [view.zoom EXCEPT !.mode = "Free", !.level = Max2(@ - 1, 1)],
          changed |-> view.zoom.level > 1]

ZoomStepFrom(direction) == IF direction = "in" THEN ZoomIn(view.zoom) ELSE ZoomOut(view.zoom)

\* ZoomIn and ZoomOut: at the last level nothing is painted again.
ZoomStep(direction) ==
    /\ Act("zoom")
    /\ LET step == ZoomStepFrom(direction)
           v == [view EXCEPT !.zoom = step.zoom]
       IN  IF step.changed THEN PerformOnSize(image, m_image, m_props, v, area)
           ELSE view' = v /\ UNCHANGED <<m_props, invalid>>
    /\ UNCHANGED <<decoderVars, m_image, area, angle, timer, keyPanned, painting>>

SetZoomMode(mode) ==
    /\ Act("mode")
    /\ mode # view.zoom.mode
    /\ PerformOnSize(image, m_image, m_props, [view EXCEPT !.zoom.mode = mode], area)
    /\ UNCHANGED <<decoderVars, m_image, area, angle, timer, keyPanned, painting>>

Panned(distance) ==
    view' = [view EXCEPT !.pan = Pan(@, distance)] /\ UNCHANGED painting

\* HandleMouseMove, while panning.
MousePan(distance) ==
    /\ Act("pan")
    /\ Panned(distance)
    /\ invalid' = TRUE
    /\ UNCHANGED <<decoderVars, m_image, m_props, area, angle, timer, keyPanned>>

\* ViewPort::Pan, for the keys: Update paints only what is invalid already.
KeyPan(distance) ==
    /\ Act("pan")
    /\ Panned(distance)
    /\ keyPanned' = TRUE
    /\ UNCHANGED <<decoderVars, m_image, m_props, area, angle, timer, invalid>>

Resize(size) ==
    /\ Act("resize")
    /\ size # area
    /\ area' = size
    /\ PerformOnSize(image, m_image, m_props, view, size)
    /\ UNCHANGED <<decoderVars, m_image, angle, timer, keyPanned, painting>>

\* The window is uncovered.
Expose ==
    /\ Act("expose")
    /\ invalid' = TRUE
    /\ UNCHANGED <<decoderVars, viewVars, timer, keyPanned, painting>>

-----------------------------------------------------------------------------
(* The timer, the Viewer's events and painting, on the viewer's thread.    *)

\* ImageRefreshCallback, for an image that does not move with ImageUpdated and
\* TickEnd. A GIF may turn out to stand still after it was asked for its delay:
\* then the timer runs on for one more call.
Tick ==
    /\ timer /\ painting = "no"
    /\ IF ~image[m_image].header
       THEN UNCHANGED <<image, invalid, painting>>
       ELSE IF HasDelayNow(image, m_image)
       THEN /\ image' = [image EXCEPT ![m_image].composer = Advance(@, FramesOf(m_image))]
            /\ invalid' = TRUE
            /\ UNCHANGED painting
       ELSE painting' = "tick" /\ UNCHANGED <<image, invalid>>
    /\ UNCHANGED <<start, events, viewVars, timer, keyPanned, screen, budget>>

TickEnd ==
    /\ painting = "updated"
    /\ timer' = (timer /\ ~image[m_image].finished)
    /\ invalid' = TRUE
    /\ painting' = "no"
    /\ UNCHANGED <<start, decoderVars, viewVars, keyPanned, screen, budget>>

\* The notifications that make the viewport look at its image again.
HandledEvent(message) == message \in {"LoadAllocated", "LoadDone"}

OnImageLoadEvent ==
    /\ events # <<>> /\ painting = "no"
    /\ events' = Tail(events)
    /\ IF Head(events).image = m_image /\ HandledEvent(Head(events).message)
       THEN painting' = "update" ELSE UNCHANGED painting
    /\ UNCHANGED <<start, image, viewVars, timer, invalid, keyPanned, screen, budget>>

\* PerformOnPaint: setSurface, then whether the image is finished is read
\* before anything is drawn.
PaintBegin ==
    /\ invalid /\ painting = "no"
    /\ image' = CurrentSurface(image, m_image)
    /\ painting' = IF m_image # NoImage /\ image[m_image].header /\ IsPositive(area)
                      /\ IsPositive(ZoomedSize(m_image, m_props, view.imageZoom))
                   THEN (IF image[m_image].finished THEN "finished" ELSE "unfinished")
                   ELSE "clear"
    /\ invalid' = FALSE
    /\ UNCHANGED <<start, events, viewVars, timer, keyPanned, screen, budget>>

Cleared == [image |-> NoImage]

\* What is drawn of the surface on show, and where.
Drawn(i) ==
    IF IsPositive(SurfaceSize(image, i))
    THEN [image |-> i, content |-> SurfaceContent(image, i), zoom |-> m_props.Zoom,
          size |-> Scaled(SurfaceSize(image, i), m_props.Zoom), pan |-> TopLeft(view.pan),
          angle |-> Angle(m_props), area |-> area]
    ELSE Cleared

\* A picture that stands still and was finished needs the timer no more.
TimerAfter(status) == timer /\ ~(status = "finished" /\ ~HasDelayNow(image, m_image))

PaintRender ==
    /\ painting \in {"clear", "finished", "unfinished"}
    /\ screen' = IF painting = "clear" THEN Cleared ELSE Drawn(m_image)
    /\ angle' = IF painting = "clear" THEN angle ELSE Angle(m_props)
    /\ painting' = IF painting = "clear" THEN "no"
                   ELSE IF painting = "finished" THEN "drawnFinished" ELSE "drawn"
    /\ keyPanned' = FALSE
    /\ UNCHANGED <<start, decoderVars, m_image, m_props, view, area, timer, invalid, budget>>

PaintEnd ==
    /\ painting \in {"drawn", "drawnFinished"}
    /\ timer' = TimerAfter(IF painting = "drawn" THEN "unfinished" ELSE "finished")
    /\ painting' = "no"
    /\ UNCHANGED <<start, decoderVars, viewVars, invalid, keyPanned, screen, budget>>

-----------------------------------------------------------------------------
(* The decoder's thread: the steps of ImageLoader and the codec on an      *)
(* image, each of which can come between any two of the viewer's.          *)

Decoded(i, changed) ==
    /\ image' = [image EXCEPT ![i] = changed]
    /\ UNCHANGED <<start, events, viewVars, timer, invalid, keyPanned, paintVars, budget>>

\* A static picture with a preview makes it first; FinishImage follows both.
AfterHeader(i) == IF FileOf(i).preview THEN "allocateFast" ELSE "allocate"

LoadHeader(i) ==
    /\ image[i].stage = "header"
    /\ Decoded(i, IF FileOf(i).broken = "header"
                  THEN [image[i] EXCEPT !.stage = "done", !.finished = TRUE]
                  ELSE [image[i] EXCEPT !.stage = AfterHeader(i), !.header = TRUE,
                                        !.composer = NewComposer(FileOf(i).kind)])

Surface(i) == IF image[i].stage \in {"allocateFast", "fast"} THEN "fast" ELSE "full"

\* Allocate and the event after it. The preview is put on show at once.
Allocate(i) ==
    /\ image[i].stage \in {"allocateFast", "allocate"}
    /\ image' = [image EXCEPT ![i] =
          [image[i] EXCEPT !.stage = Surface(i),
                           !.rows[Surface(i)] = 0,
                           !.composer = IF Surface(i) = "fast" THEN UseFastSurface(@, TRUE)
                                        ELSE IF FileOf(i).kind = "gif" THEN SendImageData(@)
                                        ELSE @]]
    /\ events' = Append(events, [image |-> i, message |-> "LoadAllocated"])
    /\ UNCHANGED <<start, viewVars, timer, invalid, keyPanned, paintVars, budget>>

Parts(i) == IF FileOf(i).kind = "static" THEN 2 ELSE Len(FramesOf(i))

DecodePart(i) ==
    /\ image[i].stage \in {"fast", "full"}
    /\ image[i].rows[Surface(i)] < Parts(i)
    /\ Decoded(i, [image[i] EXCEPT !.rows[Surface(i)] = @ + 1,
                                   !.composer = IF FileOf(i).kind = "static" THEN @
                                                ELSE FrameFinished(@)])

\* PerformLoadImageData ends. Complete, a full picture takes the preview's
\* place; a codec that failed sends no event, one that threw counts as finished.
DecodeEnd(i) ==
    /\ image[i].stage \in {"fast", "full"}
    /\ LET complete == image[i].rows[Surface(i)] = Parts(i)
           failed == ~complete /\ FileOf(i).broken = "data"
       IN  /\ complete \/ FileOf(i).broken \in {"data", "throws"}
           /\ Decoded(i, [image[i] EXCEPT
                 !.stage = IF Surface(i) = "fast"
                           THEN (IF failed THEN "fastFailed" ELSE "fastDone")
                           ELSE (IF failed THEN "failed" ELSE "fullDone"),
                 !.composer = IF complete /\ FileOf(i).preview /\ Surface(i) = "full"
                              THEN UseFastSurface(@, FALSE) ELSE @])

FinishImage(i) ==
    /\ image[i].stage \in {"fastDone", "fastFailed", "fullDone", "failed"}
    /\ Decoded(i, [image[i] EXCEPT
          !.finished = TRUE,
          !.stage = CASE @ = "fastDone" -> "fastEvent"
                      [] @ = "fastFailed" -> "allocate"
                      [] @ = "fullDone" -> "event"
                      [] @ = "failed" -> "done"])

SendDone(i) ==
    /\ image[i].stage \in {"fastEvent", "event"}
    /\ image' = [image EXCEPT ![i].stage = IF @ = "event" THEN "done" ELSE "allocate"]
    /\ events' = Append(events, [image |-> i, message |-> "LoadDone"])
    /\ UNCHANGED <<start, viewVars, timer, invalid, keyPanned, paintVars, budget>>

\* The work list drops an image that is not shown; a new loader starts over,
\* behind a header that stays valid.
Deallocate(i) ==
    /\ i # m_image /\ image[i].stage = "done" /\ image[i].header
    /\ "drop" \in start.acts /\ budget > 0
    /\ budget' = budget - 1
    /\ image' = [image EXCEPT ![i] = [LoadingImage EXCEPT !.header = TRUE]]
    /\ UNCHANGED <<start, events, viewVars, timer, invalid, keyPanned, paintVars>>

-----------------------------------------------------------------------------

\* A file that was decoded before the behaviour begins, and never shown.
LoadedImage(f) ==
    LET parts == IF Files[f].kind = "static" THEN 2 ELSE Len(Files[f].frames)
        c == NewComposer(Files[f].kind)
    IN  [stage |-> "done", header |-> TRUE, finished |-> TRUE,
         composer |-> [c EXCEPT !.allocated = (c.kind = "gif"),
                                !.loading = IF c.kind = "static" THEN 0 ELSE parts],
         rows |-> [fast |-> -1, full |-> parts]]

Init ==
    /\ start \in Starts
    /\ image = [i \in Images |-> IF i \in start.loaded THEN LoadedImage(start.files[i])
                                 ELSE LoadingImage]
    /\ events = <<>>
    /\ m_image = NoImage
    /\ m_props = [MetaAngle |-> "Default", RequestedAngle |-> "Default", Zoom |-> None]
    /\ view = [pan |-> NoPan, zoom |-> InitialZoom, imageZoom |-> None]
    /\ area = start.area
    /\ angle = "Default"
    /\ timer = FALSE
    /\ invalid = TRUE
    /\ keyPanned = FALSE
    /\ painting = "no"
    /\ screen = Cleared
    /\ budget = start.budget

User ==
    \/ \E i \in Images : Show(i)
    \/ Turn
    \/ \E direction \in {"in", "out"} : ZoomStep(direction)
    \/ \E mode \in {"FitImage", "FullSize"} : SetZoomMode(mode)
    \/ \E distance \in PanSteps : MousePan(distance) \/ KeyPan(distance)
    \/ \E size \in Areas : Resize(size)
    \/ Expose

Paint == PaintBegin \/ PaintRender \/ PaintEnd

Decoder(i) ==
    \/ LoadHeader(i) \/ Allocate(i) \/ DecodePart(i) \/ DecodeEnd(i)
    \/ FinishImage(i) \/ SendDone(i)

Next ==
    \/ User \/ Tick \/ ImageUpdated \/ TickEnd \/ OnImageLoadEvent \/ Paint
    \/ \E i \in Images : Decoder(i) \/ Deallocate(i)

Spec == Init /\ [][Next]_vars

\* The steps after the first of a handler of several, whatever it is.
HandlerGoesOn ==
    /\ painting # "no"
    /\ painting' \in {"no", "updated", "drawn", "drawnFinished"}

\* The viewer's thread handles its messages; the worker decodes what is asked
\* for. Nobody has to act.
FairSpec ==
    /\ Spec
    /\ WF_painting(HandlerGoesOn)
    /\ WF_vars(Tick) /\ WF_vars(OnImageLoadEvent) /\ WF_vars(PaintBegin)
    /\ \A i \in Images : WF_vars(Decoder(i))

-----------------------------------------------------------------------------
(* Properties.                                                             *)

\* None of the checks ViewPan::Refresh throws on ever fails, in whatever order
\* zoom, pan, size, orientation and image change; nothing would catch it.
NoCalculationError == ~view.pan.thrown

\* The pixels of the window that show pixels of the picture, as the tiles are
\* placed: the pan and the quads are turned separately, and agree. A picture
\* that fills the window is at the pan, a smaller one in the middle; an odd
\* window moves a reversed axis by a pixel. A preview that takes the place of
\* the picture it was zoomed for may be smaller than the pan allows.
OrientedViewShown ==
    /\ screen.image # NoImage
    /\ \A k \in 1..2 : screen.pan[k] <=
            Max2(UnzoomedSize(screen.size, screen.angle)[k] - screen.area[k], 0)
    =>
        LET turned == UnzoomedSize(screen.size, screen.angle)
            window == UnzoomedSize(screen.area, screen.angle)
            client == [k \in 1..2 |-> Min2(window[k], screen.size[k])]
            offset == [k \in 1..2 |-> Round(window[k] - client[k], 2)]
            corner == TransformPan(screen.pan, screen.size, screen.area, screen.angle)
            adjustment == Adjustment(screen.area, screen.angle)
        IN  \A p \in PixelsOf(client) :
                LET at == GenerateQuad([k \in 1..2 |-> offset[k] + p[k]], screen.area, screen.angle)
                    of == Turned([k \in 1..2 |-> corner[k] + p[k]], turned, screen.angle)
                IN  \A k \in 1..2 :
                        IF turned[k] >= screen.area[k]
                        THEN at[k] + screen.pan[k] = of[k] + adjustment[k]
                        ELSE 2 * (at[k] - of[k] - adjustment[k]) - (screen.area[k] - turned[k])
                                \in {-1, 0, 1}

\* The orientation of the metadata, then the one the user asked for: the angle
\* they are combined into turns every pixel to the same place.
TurnsCompose ==
    m_image # NoImage =>
        LET size == GetSize(m_image)
            meta == m_props.MetaAngle
            requested == m_props.RequestedAngle
            final == UnzoomedSize(size, Angle(m_props))
        IN  /\ final = UnzoomedSize(UnzoomedSize(size, meta), requested)
            /\ \A p \in PixelsOf(size) :
                  Turned(p, final, Angle(m_props)) =
                    Turned(Turned(p, UnzoomedSize(size, meta), meta), final, requested)

\* While an image loads, every tick looks at it again; once it was painted, a
\* picture that is neither zoomed in nor on its side stays where it was panned to.
PanSurvivesRefresh ==
    [][/\ m_image' = m_image /\ budget' = budget
       /\ view.imageZoom = view'.imageZoom /\ LessEq(view.imageZoom, One)
       /\ view.pan.viewport = view'.pan.viewport /\ IsPositive(view.pan.viewport)
       /\ angle = Angle(m_props) /\ angle \notin SwapsAxes
       => TopLeft(view'.pan) = TopLeft(view.pan)]_vars

\* Zooming in shows the picture larger than it was shown, zooming out smaller,
\* whatever fitted it before; except beyond the last level, and out of a picture
\* that was fitted between the first two.
ZoomStepsOneWay ==
    [][view.imageZoom # None =>
        /\ ZoomStep("in") => \/ Less(view.imageZoom, view'.imageZoom)
                             \/ LessEq(ZoomLevels[Len(ZoomLevels)], view.imageZoom)
        /\ ZoomStep("out") => \/ Less(view'.imageZoom, view.imageZoom)
                              \/ Less(view.imageZoom, ZoomLevels[2])]_vars

\* What is to be on the screen: the surface and the zoom it calls for now.
UpToDate ==
    LET surfaced == CurrentSurface(image, m_image)
    IN  IF IsPositive(SurfaceSize(surfaced, m_image)) /\ IsPositive(area)
           /\ IsPositive(ZoomedSize(m_image, m_props, view.imageZoom))
        THEN /\ screen.image = m_image
             /\ screen.content = SurfaceContent(surfaced, m_image)
             /\ screen.zoom[1] * UnzoomedSize(SurfaceSize(surfaced, m_image), Angle(m_props))[1]
                    * view.imageZoom[2]
                  = screen.zoom[2] * UnzoomedSize(GetSize(m_image), Angle(m_props))[1]
                    * view.imageZoom[1]
             /\ screen.angle = Angle(m_props)
             /\ screen.area = area
             /\ ~keyPanned => screen.pan = TopLeft(view.pan)
        ELSE screen = Cleared

\* A screen that does not show the image as it is now decoded, zoomed, turned
\* and panned will be painted again: the timer runs, a painting or an event of
\* the image is due, or its decoder still has to send one.
StaleScreenIsRepainted ==
    \/ m_image = NoImage
    \/ UpToDate
    \/ invalid \/ timer \/ painting # "no"
    \/ \E k \in DOMAIN events : events[k].image = m_image
    \/ image[m_image].stage # "done"

\* An animation that stays on show moves on, again and again: the timer's thread
\* and the decoder's agree on the frame that is next.
AnimationProceeds ==
    \/ []<>(\/ m_image = NoImage
            \/ image[m_image].finished /\ ~HasDelayNow(image, m_image)
            \/ FileOf(m_image).broken # "no")
    \/ []<><<m_image # NoImage /\ image'[m_image].composer.frame # image[m_image].composer.frame>>_vars

=============================================================================
