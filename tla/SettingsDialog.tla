--------------------------- MODULE SettingsDialog ---------------------------
(***************************************************************************)
(* App::Settings: the dialog, its pages, and what an Apply writes. The     *)
(* controls are filled from the settings once, when the dialog is made;    *)
(* from then on the dialog is only shown and hidden.                       *)
(***************************************************************************)
EXTENDS Registry, FiniteSets

CONSTANTS
    Limits,     \* cache sizes one can type, and values of an uninitialised one
    Blank,      \* the text of an empty field
    Hls,        \* positions of the colour picker
    HlsRgb,     \* HLS_RGB, from positions to colours
    RgbHls      \* RGB_HLS, from colours to positions

ASSUME DialogAssumption ==
    /\ Limits # {} /\ Blank \notin Limits
    /\ HlsRgb \in [Hls -> Colours] /\ RgbHls \in [Colours -> Hls]

VARIABLES
    dialog,     \* Viewer::m_settings
    language    \* Intl::m_currLang

(***************************************************************************)
(* What the controls offer.                                                *)
(***************************************************************************)
NoSelection == -1

WheelActions ==
    {"Disable", "NextImage", "PrevImage", "ZoomIn", "ZoomOut", "RotateLeft", "RotateRight"}

DblActions ==
    WheelActions \cup {"Context", "ToggleFullSizeDefaultZoom", "Fullscreen"}

ClickActions == DblActions \cup {"Pan"}

MouseChoices(f) ==
    {MouseNumber(name) : name \in
        IF f \in WheelFields THEN WheelActions
        ELSE IF f \in DblFields THEN DblActions ELSE ClickActions}

\* The list of zoom modes has no entry for full size.
ZoomChoices == {ZoomFree, ZoomFitImage}

Offered(f) ==
    CASE f \in Flags -> BOOLEAN
      [] f \in MouseFields -> MouseChoices(f)
      [] f = "DefaultZoom" -> ZoomChoices
      [] f = "ManualMemoryLimit" -> Limits \cup {Blank}
      [] OTHER -> Enumerators(f)

\* The order Apply writes the settings in, page after page; the colour, which follows
\* AlwaysOnTop, and the bindings, which follow OnMouseWheelDown, have controls of
\* their own kind.
WriteOrder ==
    <<"BrowseWrapAround", "ResetZoom", "ResetPan", "ResizeWindow", "MinFilter", "MagFilter",
      "DefaultZoom", "ResizeBehaviour", "ResizePositionMethod",
      "ShowStatusBar", "AlwaysOnTop", "BackgroundColor", "Language",
      "OnMouseLeft", "OnMouseMiddle", "OnMouseRight", "OnMouseExtra1", "OnMouseExtra2",
      "OnMouseLeftDbl", "OnMouseMiddleDbl", "OnMouseRightDbl", "OnMouseExtra1Dbl",
      "OnMouseExtra2Dbl", "OnMouseWheelUp", "OnMouseWheelDown",
      "Bindings", "MultipleInstances", "AutoMemoryLimit", "ManualMemoryLimit">>

Settings == {WriteOrder[i] : i \in DOMAIN WriteOrder}

Controls == Settings \ {"BackgroundColor", "Bindings"}

(***************************************************************************)
(* The dialog is made.                                                     *)
(***************************************************************************)
\* A list without an entry for a setting is left without a selection.
Selected(f, v) == IF v \in Offered(f) THEN v ELSE NoSelection

\* ControlColorPicker: the colour set as RGB is kept beside its position.
PickedRgb(c) == [useRgb |-> TRUE, rgb |-> c, hls |-> RgbHls[c.rgb]]

PickedHls(h) == [useRgb |-> FALSE, rgb |-> [rgb |-> HlsRgb[h], a |-> 0], hls |-> h]

PickedCursor(picker, h) == [picker EXCEPT !.useRgb = FALSE, !.hls = h]

\* Mutant: the colour is always the one at the picker's position.
PickerRgbOfHls(picker) == [rgb |-> HlsRgb[picker.hls], a |-> 0]

PickerRgb(picker) ==
    IF picker.useRgb THEN picker.rgb ELSE [rgb |-> HlsRgb[picker.hls], a |-> 0]

NoShortcut == [Key |-> <<0, {}>>, Action |-> "Undefined"]

NoDialog ==
    [made |-> FALSE, shown |-> FALSE, ctl |-> <<>>, picker |-> <<>>, rows |-> <<>>,
     next |-> 0, selected |-> {}, enabled |-> FALSE, edited |-> {}]

\* The row of the n-th binding has the identifier n - 1.
NewDialog(c) ==
    [NoDialog EXCEPT
        !.made = TRUE,
        !.ctl = [f \in Controls |->
                    IF f = "Language" THEN language
                    ELSE IF f = "ManualMemoryLimit" THEN c[f] ELSE Selected(f, c[f])],
        !.picker = PickedRgb(c.BackgroundColor),
        !.rows = [id \in 0..(Len(c.Bindings) - 1) |-> c.Bindings[id + 1]],
        !.next = Len(c.Bindings)]

InitDialogs(d, c) == IF d.made THEN d ELSE NewDialog(c)

ShowSettings(d, c) == [InitDialogs(d, c) EXCEPT !.shown = TRUE]

(***************************************************************************)
(* The user edits. The ghost "edited" names the settings meant.            *)
(***************************************************************************)
Edited(d, f) == [d EXCEPT !.edited = @ \cup {f}]

\* The position is a choice only if the window is resized, the size only if it is not automatic.
Enabled(d, f) ==
    /\ f = "ResizePositionMethod" => d.ctl.ResizeWindow
    /\ f = "ManualMemoryLimit" => ~d.ctl.AutoMemoryLimit

EditControl(f, v) ==
    /\ Enabled(dialog, f)
    /\ v \in Offered(f)
    /\ dialog' = [Edited(dialog, f) EXCEPT !.ctl[f] = v]

EditColour(picker) == dialog' = [Edited(dialog, "BackgroundColor") EXCEPT !.picker = picker]

PickColour ==
    \/ \E c \in Colours : EditColour(PickedRgb([rgb |-> c, a |-> 0]))
    \/ \E h \in Hls :
        \/ EditColour(PickedHls(h))
        \/ EditColour(PickedCursor(dialog.picker, h))

(***************************************************************************)
(* The page of the keyboard. New rows are put in front of the list, so the *)
(* first selected row is the one with the largest identifier.              *)
(***************************************************************************)
Largest(S) == CHOOSE id \in S : \A other \in S : other <= id

\* The identifier of the first selected row; what the list answers for no row is 0.
SelectedId(d) == IF d.selected = {} THEN 0 ELSE Largest(d.selected)

SelectRow(id, adding) ==
    /\ id \in DOMAIN dialog.rows
    /\ dialog' = [dialog EXCEPT !.selected = {id} \cup (IF adding THEN @ ELSE {}),
                                !.enabled = TRUE]

\* Nothing handles this one: the buttons stay as they are.
DeselectRows == dialog.selected # {} /\ dialog' = [dialog EXCEPT !.selected = {}]

AddShortcut ==
    dialog' = [Edited(dialog, "Bindings") EXCEPT
                !.rows = [id \in DOMAIN @ \cup {dialog.next} |->
                            IF id = dialog.next THEN NoShortcut ELSE @[id]],
                !.next = @ + 1, !.selected = @ \cup {dialog.next}, !.enabled = TRUE]

RemoveShortcut ==
    /\ dialog.enabled
    /\ LET id == SelectedId(dialog)
           left == dialog.selected \ {id}
       IN  dialog' = IF dialog.selected = {} THEN [dialog EXCEPT !.enabled = FALSE]
                     ELSE [Edited(dialog, "Bindings") EXCEPT
                            !.rows = [k \in DOMAIN @ \ {id} |-> @[k]],
                            !.selected = left, !.enabled = left # {}]

SetShortcut(binding(_)) ==
    /\ dialog.enabled
    /\ SelectedId(dialog) \in DOMAIN dialog.rows
    /\ dialog' = [Edited(dialog, "Bindings") EXCEPT
                    !.rows[SelectedId(dialog)] = binding(@)]

SetShortcutFunction(a) ==
    LET With(b) == [b EXCEPT !.Action = a] IN a \in KeyActions /\ SetShortcut(With)

SetShortcutCombo(press) ==
    LET With(b) == [b EXCEPT !.Key = press] IN SetShortcut(With)

(***************************************************************************)
(* Apply.                                                                  *)
(***************************************************************************)
\* The map of the shortcuts is written in the order of its identifiers.
WrittenBindings(d) ==
    LET ids == {id \in DOMAIN d.rows : d.rows[id].Action # "Undefined"}
    IN  [n \in 1..Cardinality(ids) |->
            d.rows[CHOOSE id \in ids : Cardinality({k \in ids : k < id}) = n - 1]]

\* A mouse list without a selection has no action to write.
Unreadable(d, f) == f \in MouseFields /\ d.ctl[f] = NoSelection

Readable(d) == \A f \in MouseFields : ~Unreadable(d, f)

\* The pages are written into the settings the viewer uses until a control throws.
IsWritten(d, f) ==
    \E i \in DOMAIN WriteOrder :
        WriteOrder[i] = f /\ \A k \in 1..i : ~Unreadable(d, WriteOrder[k])

\* A size that is empty is a number nobody initialised.
ValuesWritten(d, f) ==
    CASE f = "BackgroundColor" -> {PickerRgb(d.picker)}
      [] f = "Bindings" -> {WrittenBindings(d)}
      [] f = "ManualMemoryLimit" /\ d.ctl[f] = Blank -> Limits
      [] OTHER -> {d.ctl[f]}

\* The settings an Apply may leave.
Written(d, c) ==
    {[f \in DOMAIN c |->
        CASE f = "ManualMemoryLimit" /\ IsWritten(d, f) -> limit
          [] f \in Settings \ {"ManualMemoryLimit"} /\ IsWritten(d, f) ->
                CHOOSE v \in ValuesWritten(d, f) : TRUE
          [] OTHER -> c[f]] : limit \in ValuesWritten(d, "ManualMemoryLimit")}

WriteSettings ==
    /\ cfg' \in Written(dialog, cfg)
    /\ language' = IF IsWritten(dialog, "Language") THEN dialog.ctl.Language ELSE language

Hide(d) == [d EXCEPT !.shown = FALSE]

=============================================================================
