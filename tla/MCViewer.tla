------------------------------ MODULE MCViewer ------------------------------
(***************************************************************************)
(* An instance of Viewer: displays of 20 by 16 points, images smaller and  *)
(* larger than them, and behaviours that each concentrate on a part of the *)
(* program.                                                                *)
(***************************************************************************)
EXTENDS Viewer

Press(key) == <<key, {}>>
Bind(key, a) == [Key |-> Press(key), Action |-> a]

McKeys == 0..35
McColours == {"black", "grey", "white"}

McDefaultBindings ==
    <<Bind(1, "NextImage"), Bind(2, "ToggleFullscreen"), Bind(3, "OpenSettings")>>

McLimits == {1, 2}
McHls == {"low", "high"}
McHlsRgb == [h \in McHls |-> IF h = "low" THEN "black" ELSE "white"]
McRgbHls == [c \in McColours |-> IF c = "white" THEN "high" ELSE "low"]

McImages == {"small", "large", "odd"}
McSizeOf == [i \in McImages |->
    CASE i = "small" -> <<4, 3>> [] i = "large" -> <<40, 20>> [] OTHER -> <<7, 9>>]

McZoomLevels == <<<<1, 2>>, <<1, 1>>, <<2, 1>>>>
McMinWindow == <<5, 5>>
McBorder == <<2, 2>>
McDefaultPos == <<1, 1>>
McDefaultSize == <<8, 7>>
McDefaultRect == [pos |-> <<2, 2>>, size |-> <<9, 9>>]
McEditPresses == {Press(1), <<4, {"Ctrl"}>>}
McEditActions == {"Pan", "NextImage", "Disable"}

One20 == <<[pos |-> <<0, 0>>, size |-> <<20, 16>>]>>
Two20 == One20 \o <<[pos |-> <<20, 0>>, size |-> <<14, 12>>]>>
Small == <<[pos |-> <<0, 0>>, size |-> <<12, 10>>]>>

\* A file with these settings and no others.
FileWith(settings, bindings) ==
    [entries |-> [e \in {EntryOf(f) : f \in DOMAIN settings} |->
        LET f == CHOOSE f \in DOMAIN settings : EntryOf(f) = e IN Put(f, settings[f])],
     keyboard |-> [i \in DOMAIN bindings |-> PutBinding(bindings[i])]]

NoSettings == [f \in {} |-> 0]

\* A start that leaves nothing to do.
Still ==
    [acts |-> {}, budget |-> 0, sessions |-> 1, edits |-> {}, paths |-> {"folder"},
     ini |-> NoEntries, folder |-> <<"small", "large">>, arrangements |-> {One20},
     moves |-> {}, sizes |-> {}]

\* A key for each action that does something here.
KeysFor ==
    <<"NextImage", "NextSkipImage", "PreviousImage", "PreviousSkipImage", "FirstImage",
      "LastImage", "RandomImage", "RecycleCurrentFile", "DeleteCurrentFile",
      "RemoveCurrentImage", "ToggleFullscreen", "ZoomDefault", "ZoomFree", "ZoomFull",
      "ZoomIn", "ZoomOut", "ToggleFullSizeDefaultZoom", "RotateLeft", "RotateRight",
      "OpenSettings", "CloseApplication", "PanUp", "CopyImage", "RenameFile">>

Bindings(names) == [n \in 1..Len(names) |-> Bind(n, names[n])]

With(settings, keys) == FileWith(settings, Bindings(keys))

\* Every key, and what loads meanwhile.
KeyStarts ==
    {[Still EXCEPT !.acts = {"key", "load"}, !.budget = 2,
                   !.ini = With([BrowseWrapAround |-> wrap, ResetZoom |-> wrap], KeysFor)] :
        wrap \in BOOLEAN}

\* Images follow each other in every way a window can be sized and placed.
PlaceStarts ==
    {[Still EXCEPT !.acts = {"key", "load"}, !.budget = 4, !.folder = <<"odd", "large">>,
                   !.arrangements = {Two20},
                   !.ini = With([ResizePositionMethod |-> method, ResizeBehaviour |-> behaviour,
                                 DefaultZoom |-> zoom, ResetZoom |-> method # 1,
                                 BrowseWrapAround |-> TRUE,
                                 Pos |-> <<22, 3>>, AnchorTL |-> <<23, 4>>,
                                 AnchorCenter |-> <<28, 8>>],
                                <<"NextImage", "ToggleFullscreen", "ZoomIn">>)] :
        method \in 0..2, behaviour \in 0..2, zoom \in {ZoomFitImage, ZoomFullSize}}

\* The user moves the window, and ends the session in every state of it.
WindowStarts ==
    {[Still EXCEPT !.acts = {"key", "window", "load"}, !.budget = 3, !.sessions = 2,
                   !.arrangements = {Two20, Small}, !.folder = <<"odd">>,
                   !.moves = {<<-3, 4>>, <<24, 1>>}, !.sizes = {<<10, 9>>},
                   !.ini = With([ResizeWindow |-> resize, ResizePositionMethod |-> 1],
                                <<"ToggleFullscreen">>)] : resize \in BOOLEAN}

\* The dialog: groups of settings that have something to do with each other.
DialogStarts ==
    {[Still EXCEPT !.acts = {"key", "dialog", "fail"}, !.sessions = 2,
                   !.budget = IF group[1] = {"Bindings"} THEN 6 ELSE 5,
                   !.paths = {"nowhere"}, !.edits = group[1],
                   !.ini = With(group[2], <<"OpenSettings", "ToggleFullscreen">>)] :
        group \in {
            <<{"ShowStatusBar", "AlwaysOnTop"}, NoSettings>>,
            <<{"BackgroundColor"}, [BackgroundColor |-> [rgb |-> "grey", a |-> 0]]>>,
            <<{"DefaultZoom", "ResizeBehaviour"}, [DefaultZoom |-> ZoomFullSize]>>,
            <<{"AutoMemoryLimit", "ManualMemoryLimit"}, [ManualMemoryLimit |-> 2]>>,
            <<{"ResizeWindow", "ResizePositionMethod"}, NoSettings>>,
            <<{"Language", "OnMouseMiddle"}, [OnMouseMiddle |-> MouseNumber("PreviewClick")]>>,
            <<{"Bindings"}, NoSettings>>}}

AdjustStarts ==
    {[Still EXCEPT !.acts = {"menu", "adjust"}, !.budget = 4,
                   !.paths = {"folder", "large", "nowhere"}]}

MouseStarts ==
    {[Still EXCEPT !.acts = {"mouse"}, !.budget = 4, !.paths = {"nowhere"},
                   !.ini = With([OnMouseMiddle |-> MouseNumber("Pan"),
                                 OnMouseLeft |-> MouseNumber(left),
                                 OnMouseWheelUp |-> MouseNumber(wheel)], <<"NextImage">>)] :
        left \in {"ZoomIn", "Pan"}, wheel \in {"RotateLeft", "Pan"}}
    \cup
    {[Still EXCEPT !.acts = {"key", "mouse", "dialog"}, !.budget = 4, !.paths = {"nowhere"},
                   !.edits = {"OnMouseLeft"},
                   !.ini = With(NoSettings, <<"OpenSettings">>)]}

OtherStartsSet ==
    {[Still EXCEPT !.acts = {"key", "other", "dialog", "fail"}, !.budget = 3, !.sessions = 3,
                   !.edits = {"BrowseWrapAround"},
                   !.ini = With([MultipleInstances |-> many], <<"OpenSettings">>)] :
        many \in BOOLEAN}

McStarts ==
    KeyStarts \cup PlaceStarts \cup WindowStarts \cup DialogStarts \cup AdjustStarts
        \cup MouseStarts \cup OtherStartsSet

=============================================================================
