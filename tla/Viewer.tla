------------------------------- MODULE Viewer -------------------------------
(***************************************************************************)
(* App::Viewer with its settings, their file, the dialogs and the window,  *)
(* from one start of the program to the next: what the user does, the      *)
(* images that load meanwhile, a second instance of the program, and the   *)
(* ways a session can end. All handlers run on the main thread.            *)
(***************************************************************************)
EXTENDS SettingsDialog, ViewerWindow, FiniteSetsExt, SequencesExt

CONSTANTS
    Starts,          \* the ways a behaviour may begin: see Start
    Levels,          \* brightness, contrast and gamma, as one number
    EditPresses,     \* key presses the user assigns
    EditActions      \* mouse and key actions the user assigns, by name

\* What the user does, how often, and in how many sessions; the settings changed; what
\* is opened. A start also has the file found (ini), the images of the folder, the
\* arrangements of displays there may be, and where the user puts the window (moves,
\* sizes).
Start ==
    [acts : SUBSET {"key", "menu", "dialog", "adjust", "mouse", "window", "load", "fail",
                    "other"},
     budget : Nat, sessions : Nat, edits : SUBSET Settings,
     paths : SUBSET (Images \cup {"folder", "nowhere"})]

\* The displays do not overlap, and the smallest window has room on each of them.
Arrangement(areas) ==
    /\ areas \in Seq(Rect) /\ areas # <<>>
    /\ \A d \in DOMAIN areas, a \in Axis : MinWindow[a] < areas[d].size[a]
    /\ \A d, e \in DOMAIN areas : d # e =>
        \E a \in Axis : \/ BottomRight(areas[d])[a] <= areas[e].pos[a]
                       \/ BottomRight(areas[e])[a] <= areas[d].pos[a]

ASSUME StartsAssumption ==
    /\ EditPresses \subseteq KeyboardPress
    /\ \A st \in Starts :
        /\ \A areas \in st.arrangements : Arrangement(areas)
        /\ st.moves \subseteq Point /\ st.sizes \subseteq Point
        /\ \A f \in WindowFields \cap DOMAIN st.ini.entries : st.ini.entries[f] \in Point
        /\ st.ini.keyboard \in Seq(Range(st.ini.keyboard))

VARIABLES
    start,      \* the Start of this behaviour, with its folder, displays and rectangles
    running,
    viewer,     \* the Viewer, but for m_cfg and m_settings: see NewViewer
    mouse,      \* the mouse buttons held, and what ViewPort knows of them; and a ghost:
                \* settings were applied while it had the mouse
    other,      \* the settings of another instance
    saved,      \* ghost: the settings the file should give back, and the window's place
    failed,     \* ghost: an Apply was cut short
    budget,
    sessions

sessionVars == <<start, displays, running, other, saved, sessions>>
vars == <<file, cfg, dialog, language, displays, start, running, viewer, mouse, other,
          saved, failed, budget, sessions>>

Nothing == [is |-> "nothing"]

(***************************************************************************)
(* The state the handlers take and give.                                   *)
(***************************************************************************)
AutoLimit == -1

UsedFields ==
    {"BrowseWrapAround", "Bindings", "MinFilter", "MagFilter", "ResizeBehaviour", "ResetPan",
     "BackgroundColor", "ManualMemoryLimit"} \cup MouseFields

\* The settings the parts of the viewer have copies of.
PartsFrom(c) ==
    [f \in UsedFields |-> IF f = "ManualMemoryLimit" /\ c.AutoMemoryLimit THEN AutoLimit
                          ELSE c[f]]

NewViewer(c) ==
    [cfg |-> c, dialog |-> NoDialog, win |-> NewWindow(c), used |-> PartsFrom(c),
     image |-> NoImage, turned |-> FALSE, zoom |-> Zoom!InitialZoom, imageZoom |-> <<0, 1>>,
     menu |-> [fit |-> FALSE, full |-> FALSE], list |-> <<>>, at |-> 0, forward |-> TRUE,
     known |-> {}, pending |-> [i \in Images |-> {}],
     adjust |-> [shown |-> FALSE, sliders |-> 0, auto |-> FALSE, applied |-> 0],
     placed |-> <<>>,
     placedBy |-> IF GetFromPoint(c.Pos) = {} THEN "system" ELSE "start", onTopLost |-> FALSE]

Now ==
    [part \in DOMAIN viewer \cup {"cfg", "dialog"} |->
        CASE part = "cfg" -> cfg [] part = "dialog" -> dialog [] OTHER -> viewer[part]]

Become(s) ==
    /\ cfg' = s.cfg
    /\ dialog' = s.dialog
    /\ viewer' = [part \in DOMAIN s \ {"cfg", "dialog"} |-> s[part]]

Act(kind) ==
    /\ running /\ kind \in start.acts /\ budget > 0
    /\ budget' = budget - 1
    /\ UNCHANGED sessionVars

-----------------------------------------------------------------------------
(* Zoom and rotation.                                                      *)

\* The ghost placed is where the window was put for the images shown since the user
\* last had a say in it; a zoom the user chose for one image, which the next one resets,
\* does not count.
Unplaced(s) == [s EXCEPT !.placed = <<>>]

Placed(s) ==
    IF FollowsImage(s) /\ (s.cfg.ResetZoom => s.zoom.mode = ModeName(s.cfg.DefaultZoom))
    THEN [s EXCEPT !.placed = [i \in DOMAIN @ \cup {s.image} |->
                                IF i = s.image THEN s.win.rect ELSE @[i]]]
    ELSE s

\* m_zoomFitImage and m_zoomFullSize.
MenuFor(s, mode) ==
    CASE mode = ZoomFitImage -> [fit |-> TRUE, full |-> FALSE]
      [] mode \in {ZoomFullSize, ZoomFree} -> [fit |-> FALSE, full |-> TRUE]
      [] OTHER -> s.menu

WithZoomMode(s, mode) ==
    [Fitted([s EXCEPT !.zoom.mode = ModeName(mode)]) EXCEPT !.menu = MenuFor(s, mode)]

SetZoomMode(s, mode) == ImageChanged(WithZoomMode(s, mode))

\* ZoomIn and ZoomOut, after the step of the strategy.
MenuForLevel(s) ==
    [s EXCEPT !.menu = [fit |-> FALSE, full |-> s.imageZoom[1] = s.imageZoom[2]]]

ZoomStep(s, r) ==
    LET stepped == [s EXCEPT !.zoom = r.zoom]
    IN  ImageChanged(MenuForLevel(IF r.changed THEN Fitted(stepped) ELSE stepped))

ToggledZoomMode(s) ==
    IF s.zoom.mode # ModeName(s.cfg.DefaultZoom) THEN s.cfg.DefaultZoom ELSE ZoomFullSize

\* Viewer::Rotate, with the ImageUpdated it ends in.
Rotate(s, turned) == Fitted(ImageChanged(Fitted([s EXCEPT !.turned = turned])))

-----------------------------------------------------------------------------
(* The list. The Cacher module has the whole of it; here is what the       *)
(* viewer sees: the images, the place in them and the direction.           *)

\* Another image is shown, or a file's image made anew.
ShowImage(s, i) ==
    LET shown == Fitted([s EXCEPT !.image = i])
    IN  Placed(ImageChanged(IF s.cfg.ResetZoom THEN WithZoomMode(shown, s.cfg.DefaultZoom)
                            ELSE shown))

ActiveImage(s, i) == IF i = s.image THEN s ELSE ShowImage(s, i)

CurrentImage(s) == IF s.at \in DOMAIN s.list THEN s.list[s.at] ELSE NoImage

\* So many steps on, or back.
Stepped(s, steps) ==
    LET n == Len(s.list)
    IN  IF s.used.BrowseWrapAround THEN ((s.at - 1 + steps) % n) + 1
        ELSE IF s.at + steps > n THEN n ELSE IF s.at + steps < 1 THEN 1 ELSE s.at + steps

ShiftSkipLength == 5

BrowseActions ==
    {"NextImage", "NextSkipImage", "PreviousImage", "PreviousSkipImage", "FirstImage",
     "LastImage", "RandomImage"}

\* Where they go; nothing happens where there is nowhere to go.
Places(s, a) ==
    LET n == Len(s.list)
    IN  IF n = 0 THEN {}
        ELSE CASE a = "NextImage" -> {Stepped(s, 1)}
               [] a = "NextSkipImage" -> {Stepped(s, ShiftSkipLength)}
               [] a = "PreviousImage" -> {Stepped(s, -1)}
               [] a = "PreviousSkipImage" -> {Stepped(s, -ShiftSkipLength)}
               [] a = "FirstImage" -> {1}
               [] a = "LastImage" -> {n}
               [] OTHER -> 1..n \ {s.at}

Backwards == {"PreviousImage", "PreviousSkipImage", "LastImage"}

Browse(s, a) ==
    {[s EXCEPT !.at = at, !.forward = a \notin Backwards] : at \in Places(s, a)}

RemoveActions == {"RecycleCurrentFile", "DeleteCurrentFile", "RemoveCurrentImage"}

RemoveCurrentImage(s) ==
    LET left == RemoveAt(s.list, s.at)
    IN  [s EXCEPT !.list = left,
                  !.at = IF @ > Len(left) \/ (~s.forward /\ @ > 1) THEN @ - 1 ELSE @]

\* A file that refuses to go stays, as if nobody had asked.
RemoveImage(s) == IF s.image = NoImage THEN {} ELSE {RemoveCurrentImage(s)}

\* Cacher::Sort: the image shown is looked for unless it was the first.
Sorted(s, list) ==
    IF s.at > 1 THEN [s EXCEPT !.list = list, !.forward = TRUE,
                               !.at = CHOOSE k \in DOMAIN list : list[k] = s.list[s.at]]
    ELSE [s EXCEPT !.list = list]

\* The folder is read again, so every image is a new one.
SetImageLocation(s, path) ==
    LET filled == [s EXCEPT !.list = start.folder, !.forward = TRUE, !.known = {},
                            !.pending = [i \in Images |-> {}],
                            !.at = IF path \in Range(start.folder)
                                   THEN CHOOSE k \in DOMAIN start.folder :
                                            start.folder[k] = path
                                   ELSE 1]
    IN  IF path = "nowhere" THEN s ELSE ShowImage(filled, CurrentImage(filled))

-----------------------------------------------------------------------------
(* Keys, mouse actions and the context menu. What the user asks for is a   *)
(* record: do is an action of ViewerKeyboard, or an entry of the menu with *)
(* what it is about.                                                       *)

ShowAdjust(s) == [s EXCEPT !.adjust.shown = TRUE, !.adjust.sliders = s.adjust.applied]

\* ViewportMode, with what it does for the dialogs.
ToggledFullscreen(s) ==
    LET made == [s EXCEPT !.dialog = InitDialogs(@, s.cfg)]
    IN  ToggleFullscreenMode(IF s.adjust.shown THEN ShowAdjust(made) ELSE made)

\* The mode a request is for.
RequestedMode(s, r) ==
    CASE r.do = "ZoomDefault" -> s.cfg.DefaultZoom
      [] r.do = "ZoomFree" -> ZoomFree
      [] r.do = "ZoomFull" -> ZoomFullSize
      [] r.do = "ToggleFullSizeDefaultZoom" -> ToggledZoomMode(s)
      [] r.do = "Zoom" -> r.mode

ModeRequests == {"ZoomDefault", "ZoomFree", "ZoomFull", "ToggleFullSizeDefaultZoom", "Zoom"}

ListResults(s, r) ==
    CASE r.do \in BrowseActions -> Browse(s, r.do)
      [] r.do \in RemoveActions -> RemoveImage(s)
      [] r.do = "Sort" -> {Sorted(s, r.list)}

ListRequests == BrowseActions \cup RemoveActions \cup {"Sort"}

\* Panning, copying and renaming change nothing of what is modelled here.
Results(s, r) ==
    CASE r.do \in ListRequests -> {ActiveImage(t, CurrentImage(t)) : t \in ListResults(s, r)}
      [] r.do = "Open" -> {SetImageLocation(s, r.path)}
      [] r.do = "ToggleFullscreen" -> {ToggledFullscreen(s)}
      [] r.do \in ModeRequests -> {Unplaced(SetZoomMode(s, RequestedMode(s, r)))}
      [] r.do \in {"ZoomIn", "ZoomOut"} ->
            {Unplaced(ZoomStep(s, IF r.do = "ZoomIn" THEN Zoom!ZoomIn(s.zoom)
                                  ELSE Zoom!ZoomOut(s.zoom)))}
      [] r.do \in {"RotateLeft", "RotateRight"} -> {Unplaced(Rotate(s, ~s.turned))}
      [] r.do = "Turn" -> {Unplaced(Rotate(s, r.turned))}
      [] r.do = "OpenSettings" -> {[s EXCEPT !.dialog = ShowSettings(@, s.cfg)]}
      [] r.do = "Adjust" -> {ShowAdjust(s)}
      [] OTHER -> {s}

\* The first binding of a press counts. The key that closes the window is CloseWindow.
KeyRequests ==
    LET First(press) == Min({n \in DOMAIN viewer.used.Bindings :
                                viewer.used.Bindings[n].Key = press})
        bound == {viewer.used.Bindings[First(b.Key)].Action : b \in Range(viewer.used.Bindings)}
    IN  {[do |-> a] : a \in bound \ {"CloseApplication"}}

Rearrangements(list) ==
    {l \in [DOMAIN list -> Range(list)] : Range(l) = Range(list)}

\* Open, Zoom, Orientation, Sort by, Adjust, Settings; the others change nothing here.
MenuRequests ==
    {[do |-> "Open", path |-> path] : path \in start.paths}
    \cup {[do |-> "Zoom", mode |-> mode] : mode \in {ZoomFitImage, ZoomFullSize}}
    \cup {[do |-> "Turn", turned |-> turned] : turned \in BOOLEAN}
    \cup {[do |-> "Sort", list |-> list] : list \in Rearrangements(viewer.list)}
    \cup {[do |-> a] : a \in {"Adjust", "ZoomIn", "ZoomOut", "OpenSettings"}}

\* m_mouseMap
MouseMap ==
    [Fullscreen |-> "ToggleFullscreen",
     ToggleFullSizeDefaultZoom |-> "ToggleFullSizeDefaultZoom", NextImage |-> "NextImage",
     PrevImage |-> "PreviousImage", ZoomIn |-> "ZoomIn", ZoomOut |-> "ZoomOut",
     RotateLeft |-> "RotateLeft", RotateRight |-> "RotateRight"]

MouseRequest(n) ==
    LET name == MouseActions[n + 1]
    IN  [do |-> IF name \in DOMAIN MouseMap THEN MouseMap[name] ELSE "nothing"]

\* MouseStandardEvent and MouseDblEvent.
Click ==
    [Left |-> "OnMouseLeft", Middle |-> "OnMouseMiddle", Right |-> "OnMouseRight",
     Extra1 |-> "OnMouseExtra1", Extra2 |-> "OnMouseExtra2"]

DoubleClick ==
    [Left |-> "OnMouseLeftDbl", Middle |-> "OnMouseMiddleDbl", Right |-> "OnMouseRightDbl",
     Extra1 |-> "OnMouseExtra1Dbl", Extra2 |-> "OnMouseExtra2Dbl"]

Buttons == DOMAIN Click

Pans(f) == viewer.used[f] = MouseNumber("Pan")

\* The viewer's event table has nothing for the side buttons.
Reaches(b) == b \in {"Left", "Middle", "Right"}

Clicked(b) == cfg[Click[b]]

DoubleClicked(b) ==
    LET twice == cfg[DoubleClick[b]]
    IN  IF twice \in {Disable, MouseNumber("Undefined")} THEN Clicked(b) ELSE twice

\* What the mouse asks for, with the button it holds down, if any: a button that pans
\* asks for nothing.
MouseRequests ==
    LET Asked(b, n) == [down |-> {b}, request |-> MouseRequest(IF Reaches(b) THEN n ELSE Disable)]
        up == Buttons \ mouse.down
    IN  {Asked(b, Clicked(b)) : b \in {b \in up : ~Pans(Click[b])}}
        \cup {Asked(b, DoubleClicked(b)) : b \in up}
        \cup {[down |-> {}, request |-> MouseRequest(cfg[f])] :
                f \in {f \in WheelFields : ~Pans(f)}}

Requests(kind) ==
    CASE kind = "key" -> {[down |-> {}, request |-> r] : r \in KeyRequests}
      [] kind = "menu" -> {[down |-> {}, request |-> r] : r \in MenuRequests}
      [] kind = "mouse" -> MouseRequests
      [] OTHER -> {}

UserAsks ==
    \E kind \in start.acts :
        /\ Act(kind)
        /\ \E asked \in Requests(kind) :
            /\ \E s \in Results(Now, asked.request) : Become(s)
            /\ mouse' = [mouse EXCEPT !.down = @ \cup asked.down]
        /\ UNCHANGED <<file, language, failed>>

-----------------------------------------------------------------------------
(* A session starts and ends.                                              *)

NoMouse == [isPanning |-> FALSE, captures |-> 0, down |-> {}, reassigned |-> FALSE]

\* The system may or may not report the place of a new window as a move.
Started(c, reported, path) ==
    LET new == NewViewer(c)
        heard == IF reported THEN AnchorsAt(new, new.win.rect) ELSE new
    IN  SetImageLocation(SetZoomMode(heard, c.DefaultZoom), path)

\* main: a second instance hands its file to the first one unless they may be many.
StartSession ==
    /\ ~running /\ sessions < start.sessions
    /\ \E c \in Load(file), reported \in BOOLEAN, path \in start.paths :
        /\ other # Nothing => c.MultipleInstances
        /\ Become(Started(c, reported, path))
        /\ language' = c.Language
    /\ running' = TRUE
    /\ sessions' = sessions + 1
    /\ mouse' = NoMouse
    /\ failed' = FALSE
    /\ UNCHANGED <<start, displays, file, other, saved, budget>>

\* What is in memory is gone.
Stop ==
    /\ running' = FALSE
    /\ cfg' = Nothing /\ dialog' = NoDialog /\ language' = 0
    /\ viewer' = Nothing /\ mouse' = NoMouse /\ failed' = FALSE
    /\ UNCHANGED <<start, displays, other, sessions>>

\* Where the window was, as it would be without being maximized: nobody asks for the
\* place a window in full screen has.
PlaceToReturn ==
    IF viewer.win.iconized THEN [pos |-> cfg.Pos, size |-> cfg.WindowSize]
    ELSE IF viewer.win.fullscreen THEN Nothing
    ELSE IF viewer.win.maximized THEN wxToRect(viewer.win.restored)
    ELSE viewer.win.rect

Close ==
    \E c \in {Closed(Now)}, returns \in BOOLEAN :
        /\ Save(c, returns)
        /\ saved' = IF returns THEN [is |-> "closed", cfg |-> c, place |-> PlaceToReturn]
                    ELSE saved
        /\ Stop

\* By its button, or a key.
CloseWindow == running /\ Close /\ UNCHANGED budget

\* The process is ended from outside.
Die ==
    /\ running /\ "fail" \in start.acts
    /\ Stop
    /\ UNCHANGED <<file, saved, budget>>

\* It ends between the two steps of a Save, at the end or in an Apply.
DieSaving ==
    /\ running /\ "fail" \in start.acts
    /\ SaveCutShort
    /\ saved' = Nothing
    /\ Stop
    /\ UNCHANGED budget

-----------------------------------------------------------------------------
(* The settings dialog.                                                    *)

DialogAct == Act("dialog") /\ dialog.shown

OnlyDialog == UNCHANGED <<file, cfg, language, viewer, mouse, failed>>

EditSetting ==
    /\ DialogAct
    /\ \/ \E f \in Controls \cap start.edits : \E v \in Offered(f) :
            /\ f \in MouseFields => MouseActions[v + 1] \in EditActions
            /\ EditControl(f, v)
       \/ "BackgroundColor" \in start.edits /\ PickColour
    /\ OnlyDialog

EditShortcuts ==
    /\ DialogAct /\ "Bindings" \in start.edits
    /\ \/ \E id \in DOMAIN dialog.rows, adding \in BOOLEAN : SelectRow(id, adding)
       \/ DeselectRows
       \/ AddShortcut
       \/ RemoveShortcut
       \/ \E a \in EditActions \cap KeyActions : SetShortcutFunction(a)
       \/ \E press \in EditPresses : SetShortcutCombo(press)
    /\ OnlyDialog

\* Mutant: the keyboard keeps its bindings.
SettingsChangedButKeys(s) ==
    LET barred == WithWindow(s, [s.win EXCEPT
                    !.bar = s.cfg.ShowStatusBar /\ ~s.win.fullscreen])
    IN  ImageChanged([barred EXCEPT
            !.used = [PartsFrom(s.cfg) EXCEPT !.Bindings = s.used.Bindings],
            !.win.style.onTop = s.cfg.AlwaysOnTop,
            !.onTopLost = s.win.fullscreen])

\* SettingsChanged, after its Save. The image is fitted with the behaviour it had when
\* the status bar comes or goes.
SettingsChanged(s) ==
    LET barred == WithWindow(s, [s.win EXCEPT
                    !.bar = s.cfg.ShowStatusBar /\ ~s.win.fullscreen])
    IN  ImageChanged([barred EXCEPT
            !.used = PartsFrom(s.cfg), !.win.style.onTop = s.cfg.AlwaysOnTop,
            !.onTopLost = s.win.fullscreen])

\* Settings::OnApply, and OnOk, which hides the dialog as well.
Apply(hides) ==
    /\ \E c \in Written(dialog, cfg) :
        /\ Save(c, TRUE)
        /\ saved' = [is |-> "applied", cfg |-> c,
                     place |-> [pos |-> c.Pos, size |-> c.WindowSize]]
        /\ Become(Unplaced(SettingsChanged([Now EXCEPT
                !.cfg = c, !.dialog.edited = {}, !.dialog.shown = ~hides])))
    /\ mouse' = [mouse EXCEPT !.reassigned = @ \/ mouse.captures > 0]
    /\ language' = dialog.ctl.Language
    /\ failed' = FALSE
    /\ UNCHANGED <<start, displays, running, other, sessions>>

\* With settings that cannot be saved the program may end in Save.
ApplyAndDie ==
    /\ \E c \in Written(dialog, cfg) : ~Writable(c) /\ Save(c, FALSE)
    /\ Stop
    /\ UNCHANGED saved

ApplySettings ==
    /\ running /\ "dialog" \in start.acts /\ budget > 0
    /\ dialog.shown /\ Readable(dialog)
    /\ budget' = budget - 1
    /\ ApplyAndDie \/ \E hides \in BOOLEAN : Apply(hides)

\* A control without an answer throws: nothing is saved, and no part hears of it.
ApplyFails ==
    /\ DialogAct /\ ~Readable(dialog)
    /\ WriteSettings
    /\ failed' = TRUE
    /\ UNCHANGED <<file, dialog, viewer, mouse>>

Cancel ==
    /\ DialogAct
    /\ dialog' = Hide(dialog)
    /\ OnlyDialog

-----------------------------------------------------------------------------
(* The adjustment dialog.                                                  *)

OnlyAdjust == UNCHANGED <<file, cfg, dialog, language, mouse, failed>>

\* Apply hands the sliders to the viewer's AdjustChange.
Adjusted(adjust) == [adjust EXCEPT !.applied = adjust.sliders]

ToggleAuto(adjust) == Adjusted([adjust EXCEPT !.auto = ~@])

IfAuto(adjust) == IF adjust.auto THEN Adjusted(adjust) ELSE adjust

AdjustResults(adjust) ==
    {IfAuto([adjust EXCEPT !.sliders = level]) : level \in Levels}
    \cup {ToggleAuto(adjust), Adjusted(adjust), [adjust EXCEPT !.shown = FALSE],
          IfAuto([adjust EXCEPT !.sliders = 0])}

Adjust ==
    /\ Act("adjust") /\ viewer.adjust.shown
    /\ \E adjust \in AdjustResults(viewer.adjust) : viewer' = [viewer EXCEPT !.adjust = adjust]
    /\ OnlyAdjust

-----------------------------------------------------------------------------
(* The mouse moves the image about.                                        *)

OnlyMouse == UNCHANGED <<file, cfg, dialog, language, viewer, failed>>

\* A button, or the wheel.
PanStarts(held) ==
    /\ mouse' = [mouse EXCEPT !.isPanning = TRUE, !.captures = @ + 1, !.down = held]
    /\ OnlyMouse

Panning ==
    /\ Act("mouse")
    /\ \/ \E b \in Buttons \ mouse.down : Pans(Click[b]) /\ PanStarts(mouse.down \cup {b})
       \/ \E f \in WheelFields : Pans(f) /\ PanStarts(mouse.down)

\* Mutant: the button that ends panning does not give the mouse back.
ReleasedNot(m, b) == [m EXCEPT !.isPanning = FALSE, !.down = @ \ {b}]

Released(m, b) ==
    [m EXCEPT !.isPanning = FALSE, !.down = @ \ {b},
              !.captures = IF m.isPanning /\ @ > 0 THEN @ - 1 ELSE @]

MouseUp(b) ==
    /\ running /\ b \in mouse.down
    /\ mouse' = Released(mouse, b)
    /\ OnlyMouse /\ UNCHANGED <<sessionVars, budget>>

\* Another window takes the mouse; the buttons are let go over it.
CaptureLost ==
    /\ Act("mouse") /\ mouse.captures > 0
    /\ mouse' = [mouse EXCEPT !.captures = 0, !.down = {}]
    /\ OnlyMouse

Mouse == Panning \/ (\E b \in Buttons : MouseUp(b)) \/ CaptureLost

-----------------------------------------------------------------------------
(* The window by the user's hand.                                          *)

WindowResults(s) ==
    IF s.win.iconized THEN {Iconized(s, FALSE)}
    ELSE {Iconized(s, TRUE)} \cup
        (IF s.win.fullscreen THEN {}
         ELSE IF s.win.maximized THEN {Unmaximized(s)}
         ELSE {Maximized(s)}
              \cup {UserMoves(s, [s.win EXCEPT !.rect.pos = pos]) : pos \in start.moves}
              \cup {UserResizes(s, size) : size \in start.sizes})

Window ==
    /\ Act("window")
    /\ \E s \in WindowResults(Now) : Become(Unplaced(s))
    /\ UNCHANGED <<file, language, mouse, failed>>

-----------------------------------------------------------------------------
(* Images load, and tell the viewer so.                                    *)

Loading == running /\ "load" \in start.acts /\ ~viewer.win.iconized

OnlyViewer == UNCHANGED <<sessionVars, file, language, mouse, failed, budget>>

HeaderRead(i) ==
    /\ Loading /\ i \in Range(viewer.list) \ viewer.known
    /\ viewer' = [viewer EXCEPT !.known = @ \cup {i},
                                !.pending[i] = {"LoadAllocated", "LoadDone"}]
    /\ OnlyViewer /\ UNCHANGED <<cfg, dialog>>

\* OnImageLoadEvent, for the image shown; a message for another is dropped.
LoadMessage(i, message) ==
    LET s == [Now EXCEPT !.pending[i] = @ \ {message}]
    IN  /\ Loading /\ message \in viewer.pending[i]
        /\ message = "LoadDone" => "LoadAllocated" \notin viewer.pending[i]
        /\ Become(IF i # s.image THEN s
                  ELSE IF message = "LoadAllocated" THEN Placed(ImageChanged(Fitted(s)))
                  ELSE Fitted(s))
        /\ OnlyViewer

ImageLoads == \E i \in Images : HeaderRead(i) \/ LoadMessage(i, "LoadAllocated")
                                              \/ LoadMessage(i, "LoadDone")

-----------------------------------------------------------------------------
(* Another instance, started while this one runs; and the displays.        *)

OtherStarts ==
    /\ running /\ "other" \in start.acts /\ budget > 0 /\ other = Nothing
    /\ budget' = budget - 1
    /\ \E c \in Load(file), path \in start.paths :
        \/ /\ c.MultipleInstances
           /\ other' = [is |-> "running", cfg |-> c]
           /\ UNCHANGED <<cfg, dialog, viewer>>
        \/ /\ ~c.MultipleInstances
           /\ Become(SetImageLocation(Now, path))
           /\ UNCHANGED other
    /\ UNCHANGED <<start, displays, running, saved, sessions, file, language, mouse, failed>>

OtherCloses ==
    /\ other # Nothing
    /\ file' = IF Writable(other.cfg) THEN Saved(other.cfg) ELSE file
    /\ saved' = Nothing
    /\ other' = Nothing
    /\ UNCHANGED <<start, displays, running, sessions, cfg, dialog, language, viewer, mouse,
                   failed, budget>>

Rearrange ==
    /\ ~running /\ displays' \in start.arrangements \ {displays}
    /\ saved' = IF saved = Nothing THEN saved ELSE [saved EXCEPT !.place = Nothing]
    /\ UNCHANGED <<start, running, other, sessions, file, cfg, dialog, language, viewer, mouse,
                   failed, budget>>

-----------------------------------------------------------------------------
Init ==
    /\ start \in Starts
    /\ displays \in start.arrangements
    /\ file = start.ini
    /\ running = FALSE
    /\ cfg = Nothing /\ dialog = NoDialog /\ language = 0
    /\ viewer = Nothing /\ mouse = NoMouse /\ failed = FALSE
    /\ other = Nothing /\ saved = Nothing
    /\ budget = start.budget /\ sessions = 0

Next ==
    \/ StartSession \/ CloseWindow \/ Die \/ DieSaving
    \/ UserAsks \/ Mouse \/ Window \/ ImageLoads \/ Adjust
    \/ EditSetting \/ EditShortcuts \/ ApplySettings \/ ApplyFails \/ Cancel
    \/ OtherStarts \/ OtherCloses \/ Rearrange

Spec == Init /\ [][Next]_vars

-----------------------------------------------------------------------------
(* What should hold.                                                       *)

\* What a Load answers for a setting that was saved: colours are written without
\* their alpha, no bindings at all stand for the default ones, and a zoom mode that is
\* none is not written.
Reloaded(c, f) ==
    CASE f = "Bindings" /\ c[f] = <<>> -> DefaultBindings
      [] f = "BackgroundColor" -> [c[f] EXCEPT !.a = 0]
      [] f = "DefaultZoom" /\ ~Writable(c) -> Default(f)
      [] OTHER -> c[f]

Fits(r) == \E d \in DOMAIN displays : Within(r, wxToRect(displays[d])) /\ Holds(displays[d], r.pos)

\* A session finds every setting as the last one left it, by its end or by its last
\* Apply if it was killed, and the window goes back to where it was, a pixel smaller if
\* it was maximized: unless the file was emptied or written by another instance, and
\* for the window unless the displays changed, it no longer fits or it was closed in
\* full screen (registry.cpp, viewer.cpp:203 and 303).
NextStartRestores ==
    [][(~running /\ running' /\ saved # Nothing) =>
        /\ \A f \in (Fields \cup {"Bindings"}) \ WindowFields :
            cfg'[f] = Reloaded(saved.cfg, f)
        /\ (saved.place # Nothing /\ Fits(saved.place)
                /\ \A a \in Axis : saved.place.size[a] >= MinWindow[a]) =>
            viewer'.win.rect = saved.place]_vars

\* While the program runs no setting changes but those the user edited since the last
\* Apply, however often the dialog was opened and cancelled, and in a failed Apply too;
\* except for a default zoom the list has no entry for (dlg_view.cpp:72) and for a cache
\* size that was left empty, which every Apply makes up (dlg_cache.cpp:54).
UneditedStays ==
    [][(running /\ running') =>
        \A f \in Settings : cfg'[f] # cfg[f] =>
            \/ f \in dialog.edited
            \/ f = "DefaultZoom" /\ cfg[f] \notin ZoomChoices
            \/ f = "ManualMemoryLimit" /\ dialog.ctl[f] = Blank]_vars

\* The parts that keep copies of settings have the current ones, the status bar and the
\* place above other windows too, and with auto apply the picture has what the sliders
\* say; except after an Apply that failed, and except that leaving full screen brings
\* the old place above other windows back (SettingsChanged, viewer.cpp:979). The menu
\* marks "fit" when the image is fitted, whatever changed the zoom last; a zoom mode
\* that is none leaves the mark it finds.
CopiesAgree ==
    running =>
        /\ ~failed =>
            /\ viewer.used = PartsFrom(cfg)
            /\ viewer.win.bar = (cfg.ShowStatusBar /\ ~viewer.win.fullscreen)
            /\ (~viewer.win.fullscreen /\ ~viewer.onTopLost) =>
                    viewer.win.style = [border |-> TRUE, onTop |-> cfg.AlwaysOnTop]
            /\ viewer.adjust.auto => viewer.adjust.applied = viewer.adjust.sliders
        /\ viewer.zoom.mode # "?" => viewer.menu.fit = (viewer.zoom.mode = "FitImage")

\* Going to other images and back, to full screen and back, puts the window where it
\* was for that image, for as long as the user does not move, zoom or turn anything and
\* no Apply failed: the viewer does not take its own moves for the user's
\* (m_userInitiatedMove).
SamePlaceForSameImage ==
    [][(running /\ running' /\ ~failed) =>
        \A i \in DOMAIN viewer.placed \cap DOMAIN viewer'.placed :
            viewer'.placed[i] = viewer.placed[i]]_vars

\* A window the viewer placed is on a display, all of it; a new one may start a pixel
\* to the left or above, if it is as large as the display.
StaysOnDisplay ==
    (running /\ viewer.placedBy \in {"start", "viewer"}) =>
        \E d \in DOMAIN displays :
            Within(viewer.win.rect,
                   IF viewer.placedBy = "viewer" THEN displays[d]
                   ELSE [pos |-> Minus(displays[d].pos, <<1, 1>>),
                         size |-> Plus(displays[d].size, <<1, 1>>)])

\* The mouse is given back when the buttons are up, if one button pans at most and does
\* so for as long as it is held; two capture it twice, and one release ends both pans
\* (viewport.cpp:212).
MouseIsReleased ==
    (running /\ Cardinality({f \in ClickFields : Pans(f)}) <= 1
             /\ (\A f \in WheelFields : ~Pans(f)) /\ ~mouse.reassigned
             /\ mouse.captures > 0) =>
        \E b \in mouse.down : Pans(Click[b])

=============================================================================
