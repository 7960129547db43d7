------------------------------ MODULE Registry ------------------------------
(***************************************************************************)
(* Reg::Settings, and Reg::Load and Reg::Save, which keep it in an .ini    *)
(* file between two runs of the program. Every entry of the file is a text *)
(* that a translator wrote, that the user edited, or that an older version *)
(* of the program left there.                                              *)
(***************************************************************************)
EXTENDS Integers, Sequences

CONSTANTS
    Keys,              \* key codes, 0 (no key) among them
    Colours,           \* colours, without their alpha
    DefaultColour,
    DefaultBindings,   \* the bindings of a Load that finds none
    DefaultPos,        \* the window of a Load that finds none
    DefaultSize

VARIABLES
    file,              \* the .ini file
    cfg                \* Viewer::m_cfg, which the settings dialog refers to as well

(***************************************************************************)
(* The settings. Enumerations are numbers, as in the code.                 *)
(***************************************************************************)
\* App::MouseAction
MouseActions ==
    <<"Disable", "Pan", "Context", "ToggleFullSizeDefaultZoom", "NextImage", "PrevImage",
      "ZoomIn", "ZoomOut", "Fullscreen", "PreviewNoClick", "PreviewClick", "RotateLeft",
      "RotateRight", "Undefined">>

MouseAction == 0..(Len(MouseActions) - 1)

MouseNumber(name) == CHOOSE n \in MouseAction : MouseActions[n + 1] = name

Disable == MouseNumber("Disable")

\* App::KeyAction without Undefined, each with its identifier in the file.
ActionIdentifier ==
    [NextImage |-> "NextImage", NextSkipImage |-> "NextSkipImage",
     PreviousImage |-> "PrevImage", PreviousSkipImage |-> "PrevSkipImage",
     RenameFile |-> "RenameFile", RandomImage |-> "RandomImage",
     ZoomIn |-> "ZoomIn", ZoomOut |-> "ZoomOut", ZoomDefault |-> "ZoomDefault",
     ZoomFull |-> "ZoomFull", ZoomFree |-> "ZoomFree",
     PanUp |-> "PanUp", PanDown |-> "PanDown", PanLeft |-> "PanLeft", PanRight |-> "PanRight",
     FirstImage |-> "FirstImage", LastImage |-> "LastImage",
     RecycleCurrentFile |-> "RecycleFile", DeleteCurrentFile |-> "RemoveFile",
     RemoveCurrentImage |-> "RemoveImage", ToggleFullscreen |-> "ToggleFullscreen",
     CloseApplication |-> "CloseApplication", OpenSettings |-> "OpenSettings",
     CopyImage |-> "CopyImage", ToggleFullSizeDefaultZoom |-> "ToggleFullSizeDefaultZoom",
     RotateLeft |-> "RotateLeft", RotateRight |-> "RotateRight",
     PanScreenUp |-> "PanScreenUp", PanScreenDown |-> "PanScreenDown",
     PanScreenLeft |-> "PanScreenLeft", PanScreenRight |-> "PanScreenRight",
     PanUpperEdge |-> "PanUpperEdge", PanLowerEdge |-> "PanLowerEdge",
     PanLeftEdge |-> "PanLeftEdge", PanRightEdge |-> "PanRightEdge"]

KeyActions == DOMAIN ActionIdentifier

Modifiers == {"Alt", "Shift", "Ctrl"}

KeyboardPress == Keys \X SUBSET Modifiers

Binding == [Key : KeyboardPress, Action : KeyActions]

ASSUME RegistryAssumption ==
    /\ 0 \in Keys /\ DefaultColour \in Colours
    /\ DefaultBindings \in Seq(Binding)
    /\ DefaultPos \in [1..2 -> Int] /\ DefaultSize \in [1..2 -> Int]

Flags ==
    {"AutoMemoryLimit", "AlwaysOnTop", "BrowseWrapAround", "Maximized", "MultipleInstances",
     "ResetPan", "ResetZoom", "ResizeWindow", "ShowStatusBar"}

ClickFields ==
    {"OnMouseLeft", "OnMouseMiddle", "OnMouseRight", "OnMouseExtra1", "OnMouseExtra2"}

DblFields ==
    {"OnMouseLeftDbl", "OnMouseMiddleDbl", "OnMouseRightDbl", "OnMouseExtra1Dbl",
     "OnMouseExtra2Dbl"}

WheelFields == {"OnMouseWheelUp", "OnMouseWheelDown"}

MouseFields == ClickFields \cup DblFields \cup WheelFields

\* The first enumerator and the identifiers of the enumerations that have some.
ZoomMode == [first |-> 0, names |-> <<"ZoomFree", "ZoomFitImage", "ZoomFullSize">>]
Resizing == [first |-> 0, names |-> <<"EnlargeOrReduce", "EnlargeOnly", "ReduceOnly">>]
Positioning ==
    [first |-> 0, names |-> <<"PositionToScreen", "PositionToCurrent", "PositionNothing">>]
Language == [first |-> 0, names |-> <<"English", "Swedish">>]
FilterMode == [first |-> 1, names |-> <<"Nearest", "Bilinear", "Lanczos3">>]

Enumeration ==
    [DefaultZoom |-> ZoomMode, ResizeBehaviour |-> Resizing,
     ResizePositionMethod |-> Positioning, Language |-> Language,
     MagFilter |-> FilterMode, MinFilter |-> FilterMode]

Enumerators(f) == {Enumeration[f].first + i - 1 : i \in DOMAIN Enumeration[f].names}

WindowFields == {"Pos", "WindowSize", "AnchorTL", "AnchorCenter"}

Fields ==
    Flags \cup MouseFields \cup DOMAIN Enumeration \cup WindowFields
        \cup {"BackgroundColor", "ManualMemoryLimit"}

ZoomFree == 0
ZoomFitImage == 1
ZoomFullSize == 2

PositionToScreen == 0
PositionToCurrent == 1
PositionNothing == 2

(***************************************************************************)
(* The translators: put is what a setting looks like in the file, get the  *)
(* settings a text may stand for, none if it stands for no setting. The    *)
(* text of a number is that number, unless identifiers are expected: then  *)
(* it is one of Digits.                                                    *)
(***************************************************************************)
Digits == <<"0", "1", "2", "3">>

\* What put finds for a value that is not an enumerator is not a text.
PutEnumerator(f, v) ==
    IF v \in Enumerators(f) THEN Enumeration[f].names[v - Enumeration[f].first + 1] ELSE "?"

\* An identifier, or the number older versions wrote.
GetEnumerator(f, text) ==
    {v \in Enumerators(f) : text \in {PutEnumerator(f, v), Digits[v + 1]}}

\* A text that is not a number is read as 0; nothing is read from an empty one, and
\* the number compared is whatever the variable holds.
GetLanguage(text) ==
    IF text = "" THEN Enumerators("Language")
    ELSE IF GetEnumerator("Language", text) # {} THEN GetEnumerator("Language", text)
    ELSE {v \in {0} : \A i \in DOMAIN Digits : text # Digits[i]}

\* #RRGGBB, which has no alpha, or the number older versions wrote, which has one.
PutColour(c) == [form |-> "hex", rgb |-> c.rgb, a |-> 0]

GetColour(text) == {[rgb |-> text.rgb, a |-> IF text.form = "hex" THEN 0 ELSE text.a]}

GetMouseAction(n) == {IF n \in MouseAction THEN n ELSE Disable}

PutBinding(b) == <<b.Key[1], b.Key[2], ActionIdentifier[b.Action]>>

GetBinding(text) ==
    {[Key |-> <<text[1], text[2] \cap Modifiers>>, Action |-> a] :
        a \in {k \in KeyActions : Len(text) = 3 /\ ActionIdentifier[k] = text[3]}}

PutFlag(b) == IF b THEN "true" ELSE "false"

Put(f, v) ==
    CASE f \in DOMAIN Enumeration -> PutEnumerator(f, v)
      [] f = "BackgroundColor" -> PutColour(v)
      [] f \in Flags -> PutFlag(v)
      [] OTHER -> v

Get(f, text) ==
    CASE f = "Language" -> GetLanguage(text)
      [] f \in DOMAIN Enumeration \ {"Language"} -> GetEnumerator(f, text)
      [] f = "BackgroundColor" -> GetColour(text)
      [] f \in MouseFields -> GetMouseAction(text)
      [] f \in Flags -> {b \in BOOLEAN : text \in {PutFlag(b), IF b THEN "1" ELSE "0"}}
      [] OTHER -> {text}

(***************************************************************************)
(* Load and Save.                                                          *)
(***************************************************************************)
DefaultMouse ==
    [f \in MouseFields |-> MouseNumber(
        CASE f = "OnMouseLeft" -> "Pan"
          [] f = "OnMouseLeftDbl" -> "Fullscreen"
          [] f = "OnMouseMiddle" -> "ToggleFullSizeDefaultZoom"
          [] f = "OnMouseRight" -> "Context"
          [] f \in {"OnMouseWheelDown", "OnMouseExtra2"} -> "NextImage"
          [] f \in {"OnMouseWheelUp", "OnMouseExtra1"} -> "PrevImage"
          [] OTHER -> "Disable")]

Default(f) ==
    CASE f \in MouseFields -> DefaultMouse[f]
      [] f \in {"AutoMemoryLimit", "ResetPan", "ResetZoom", "ResizeWindow", "ShowStatusBar"} -> TRUE
      [] f \in {"AlwaysOnTop", "BrowseWrapAround", "Maximized", "MultipleInstances"} -> FALSE
      [] f \in {"ManualMemoryLimit", "Language"} -> 0
      [] f = "BackgroundColor" -> [rgb |-> DefaultColour, a |-> 0]
      [] f \in {"MagFilter", "MinFilter"} -> 2
      [] f = "DefaultZoom" -> ZoomFitImage
      [] f \in {"ResizeBehaviour", "ResizePositionMethod"} -> 2
      [] f = "WindowSize" -> DefaultSize
      [] OTHER -> DefaultPos

\* A file that is missing or that cannot be parsed is read as one without entries.
NoEntries == [entries |-> <<>>, keyboard |-> <<>>]

\* The bindings are read up to the first number the file has no binding for.
BindingsOf(ini) ==
    LET Readable(i) == i \in DOMAIN ini.keyboard /\ GetBinding(ini.keyboard[i]) # {}
        last == CHOOSE n \in 0..Len(ini.keyboard) :
                    ~Readable(n + 1) /\ \A i \in 1..n : Readable(i)
    IN  IF last = 0 THEN DefaultBindings
        ELSE [i \in 1..last |-> CHOOSE b \in GetBinding(ini.keyboard[i]) : TRUE]

\* The key an entry is written under, and the one it is read from.
EntryOf(f) == IF f = "OnMouseMiddle" THEN "OnMouseMioddle" ELSE f

\* Mutant: the settings are read under their own names.
ValuesByName(f, ini) ==
    IF f \in DOMAIN ini.entries /\ Get(f, ini.entries[f]) # {}
    THEN Get(f, ini.entries[f]) ELSE {Default(f)}

Values(f, ini) ==
    LET e == EntryOf(f)
    IN  IF e \in DOMAIN ini.entries /\ Get(f, ini.entries[e]) # {}
        THEN Get(f, ini.entries[e]) ELSE {Default(f)}

\* The settings a Load of ini may answer.
Load(ini) ==
    {[f \in Fields \cup {"Bindings"} |->
        CASE f = "Bindings" -> BindingsOf(ini)
          [] f = "Language" -> language
          [] OTHER -> CHOOSE v \in Values(f, ini) : TRUE] : language \in Values("Language", ini)}

Saved(c) ==
    [entries |-> [e \in {EntryOf(f) : f \in Fields} |->
        LET f == CHOOSE f \in Fields : EntryOf(f) = e IN Put(f, c[f])],
     keyboard |-> [i \in DOMAIN c.Bindings |-> PutBinding(c.Bindings[i])]]

\* The default zoom the dialog writes when none of its two choices is selected: Save
\* looks its identifier up and uses what is not there.
NoZoomMode == ZoomFree - 1

Writable(c) == c.DefaultZoom # NoZoomMode

\* Reg::Save, which may not come back from that.
Save(c, returns) ==
    /\ Writable(c) => returns
    /\ file' = IF returns THEN Saved(c) ELSE file

\* What Save leaves when the program ends in it: FileWriter::Open empties the file.
SaveCutShort == file' = NoEntries

=============================================================================
