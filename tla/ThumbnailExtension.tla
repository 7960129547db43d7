-------------------------- MODULE ThumbnailExtension --------------------------
(***************************************************************************)
(* PictThumbs, the COM server by which the Explorer shows thumbnails: its  *)
(* class factory, its thumbnail providers and the count of references that *)
(* keeps its DLL in the process. The host has several apartments, each     *)
(* with a thread and with objects of its own, and unloads the DLL when     *)
(* DllCanUnloadNow says that it may.                                       *)
(***************************************************************************)
EXTENDS Integers, Sequences, SequencesExt

CONSTANTS
    Threads,        \* the apartments of the host
    Addresses,      \* where objects may be
    Codecs, Loads,  \* the formats that files have, and how their data loads
    Lengths,        \* the widths and heights of surfaces
    ThumbnailSizes, \* what it may ask for as cx
    MaxReferences   \* bound of the model: references to one object, and locks

VARIABLES
    loaded,         \* the DLL is in the process
    g_cRefModule,   \* what keeps the DLL in the process
    objects,        \* class, apartment, m_cRef, and a provider's m_reader
    held,           \* the references the host holds, by object
    locks,          \* how often the host has locked the server
    calls           \* what each thread is doing in the DLL

vars == <<loaded, g_cRefModule, objects, held, locks, calls>>

\* What the host may want a thumbnail of.
Files == [codec : Codecs, loads : Loads, size : Lengths \X Lengths]

Free == [class |-> "none"]
NoStream == [codec |-> "none"]
Idle == [does |-> "nothing"]

Calling(t, call) == calls' = [calls EXCEPT ![t] = call]

-----------------------------------------------------------------------------
(* The DLL and its count of references.                                    *)

DllAddRef == g_cRefModule' = g_cRefModule + 1

DllRelease == g_cRefModule' = g_cRefModule - 1

\* The host loads the DLL: DllMain.
Attach ==
    /\ ~loaded
    /\ loaded' = TRUE
    /\ UNCHANGED <<g_cRefModule, objects, held, locks, calls>>

DllCanUnloadNow == g_cRefModule = 0

\* The host unloads what it may unload, but not under a thread that it has in
\* the DLL.
Unload ==
    /\ loaded /\ DllCanUnloadNow
    /\ \A t \in Threads : calls[t] = Idle
    /\ loaded' = FALSE
    /\ UNCHANGED <<g_cRefModule, objects, held, locks, calls>>

-----------------------------------------------------------------------------
(* Objects. Both kinds are made with a reference of their maker's, which   *)
(* is given back once QueryInterface has taken the host's.                 *)

New(t, o, class) ==
    /\ objects[o] = Free
    /\ objects' = [objects EXCEPT ![o] =
            [class |-> class, apartment |-> t, cRef |-> 1, reader |-> NoStream]]

\* An object is used by the thread of the apartment that had it made.
MayUse(t, o, classes) ==
    /\ loaded /\ calls[t] = Idle /\ held[o] > 0
    /\ objects[o].class \in classes /\ objects[o].apartment = t

\* DllGetClassObject: the factory counts itself.
GetClassObject(t) ==
    /\ loaded /\ calls[t] = Idle
    /\ \E o \in Addresses :
        /\ New(t, o, "factory")
        /\ Calling(t, [does |-> "getClassObject", object |-> o, step |-> "made"])
    /\ DllAddRef
    /\ UNCHANGED <<loaded, held, locks>>

\* CClassFactory::CreateInstance, not as part of another object.
CreateInstance(t, factory) ==
    /\ MayUse(t, factory, {"factory"})
    /\ \E o \in Addresses :
        /\ New(t, o, "provider")
        /\ Calling(t, [does |-> "createInstance", object |-> o, step |-> "made"])
    /\ UNCHANGED <<loaded, g_cRefModule, held, locks>>

\* QueryInterface for the host; it may ask for an interface there is not.
QueryInterface(t) ==
    /\ loaded /\ calls[t].does \in {"getClassObject", "createInstance"} /\ calls[t].step = "made"
    /\ LET o == calls[t].object
       IN  \/ /\ objects' = [objects EXCEPT ![o].cRef = @ + 1]
              /\ held' = [held EXCEPT ![o] = @ + 1]
           \/ UNCHANGED <<objects, held>>
    /\ Calling(t, [calls[t] EXCEPT !.step = "queried"])
    /\ UNCHANGED <<loaded, g_cRefModule, locks>>

\* Release: at zero the object deletes itself, and a factory gives up the
\* reference it has to the DLL.
Released(o) ==
    LET left == objects[o].cRef - 1
    IN  /\ objects' = [objects EXCEPT ![o] = IF left = 0 THEN Free ELSE [@ EXCEPT !.cRef = left]]
        /\ IF left = 0 /\ objects[o].class = "factory" THEN DllRelease
           ELSE UNCHANGED g_cRefModule

ReleaseMade(t) ==
    /\ loaded /\ calls[t].does \in {"getClassObject", "createInstance"}
    /\ calls[t].step = "queried"
    /\ Released(calls[t].object)
    /\ Calling(t, Idle)
    /\ UNCHANGED <<loaded, held, locks>>

\* The host takes and gives back references.
AddRef(t, o) ==
    /\ MayUse(t, o, {"factory", "provider"}) /\ held[o] < MaxReferences
    /\ objects' = [objects EXCEPT ![o].cRef = @ + 1]
    /\ held' = [held EXCEPT ![o] = @ + 1]
    /\ UNCHANGED <<loaded, g_cRefModule, locks, calls>>

Release(t, o) ==
    /\ MayUse(t, o, {"factory", "provider"})
    /\ Released(o)
    /\ held' = [held EXCEPT ![o] = @ - 1]
    /\ UNCHANGED <<loaded, locks, calls>>

\* CClassFactory::LockServer.
LockServer(t, factory, fLock) ==
    /\ MayUse(t, factory, {"factory"})
    /\ IF fLock THEN locks < MaxReferences /\ DllAddRef /\ locks' = locks + 1
                ELSE locks > 0 /\ DllRelease /\ locks' = locks - 1
    /\ UNCHANGED <<loaded, objects, held, calls>>

-----------------------------------------------------------------------------
(* A provider makes a thumbnail.                                           *)

\* The first stream is kept, and any other refused.
Initialize(t, p) ==
    /\ MayUse(t, p, {"provider"})
    /\ objects[p].reader = NoStream
    /\ \E f \in Files : objects' = [objects EXCEPT ![p].reader = f]
    /\ UNCHANGED <<loaded, g_cRefModule, held, locks, calls>>

\* The codecs the extension has, in the order in which they are asked.
CodecManagerSetup == <<"PCX", "TGA", "WBMP", "PSP", "PSD", "WEBP", "XYZ">>

\* The first codec that accepts the header of the file.
FindCodec(file) == file.codec \in Range(CodecManagerSetup)

\* What LoadSurface comes to: a surface, none, or an exception.
LoadSurface(file) ==
    IF ~FindCodec(file) \/ file.loads \in {"failed", "empty"} THEN "none" ELSE file.loads

\* The surface fits into cx by cx, and is never enlarged. Long and thin ones may
\* be left with no rows, or no columns.
DetermineDimensions(cx, size) ==
    LET longest == IF size[1] > size[2] THEN size[1] ELSE size[2]
    IN  IF longest <= cx THEN size ELSE [k \in 1..2 |-> (size[k] * cx) \div longest]

ThumbnailResult(reader, cx) ==
    CASE cx = 0 -> "E_INVALIDARG"
      [] cx > 0 /\ reader = NoStream -> "E_ILLEGAL_METHOD_CALL"
      [] OTHER ->
            LET surface == LoadSurface(reader)
                dims == DetermineDimensions(cx, reader.size)
            IN  CASE surface = "throws" -> "E_UNEXPECTED"
                  [] surface = "none" -> "E_NOTIMPL"
                  [] OTHER -> IF dims[1] > 0 /\ dims[2] > 0 THEN "S_OK" ELSE "E_NOTIMPL"

\* GetThumbnail takes its time; there may be no memory for the bitmap.
GetThumbnail(t, p, cx) ==
    /\ MayUse(t, p, {"provider"})
    /\ Calling(t, [does |-> "getThumbnail", object |-> p,
                   result |-> ThumbnailResult(objects[p].reader, cx)])
    /\ UNCHANGED <<loaded, g_cRefModule, objects, held, locks>>

ThumbnailDone(t) ==
    /\ loaded /\ calls[t].does = "getThumbnail"
    /\ Calling(t, Idle)
    /\ UNCHANGED <<loaded, g_cRefModule, objects, held, locks>>

-----------------------------------------------------------------------------

Init ==
    /\ loaded = FALSE
    /\ g_cRefModule = 0
    /\ objects = [o \in Addresses |-> Free]
    /\ held = [o \in Addresses |-> 0]
    /\ locks = 0
    /\ calls = [t \in Threads |-> Idle]

Host(t) ==
    \/ GetClassObject(t) \/ QueryInterface(t) \/ ReleaseMade(t) \/ ThumbnailDone(t)
    \/ \E o \in Addresses :
        \/ CreateInstance(t, o) \/ AddRef(t, o) \/ Release(t, o) \/ Initialize(t, o)
        \/ \E fLock \in BOOLEAN : LockServer(t, o, fLock)
        \/ \E cx \in ThumbnailSizes : GetThumbnail(t, o, cx)

Next == Attach \/ Unload \/ \E t \in Threads : Host(t)

Spec == Init /\ [][Next]_vars

-----------------------------------------------------------------------------

\* dllmain.cpp says: "Only allow the DLL to be unloaded after all outstanding
\* references have been released": the host holds no object of a DLL that is gone.
UnloadedUnreferenced == ~loaded => \A o \in Addresses : held[o] = 0

=============================================================================
