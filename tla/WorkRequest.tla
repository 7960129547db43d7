---------------------------- MODULE WorkRequest ----------------------------
(* Img::WorkRequest: what the list of files and the decoder talk about.    *)
EXTENDS Integers, Sequences, SequencesExt

CONSTANTS
    Names,      \* file names a codec exists for
    NoName,     \* the empty string
    Images,     \* addresses an Img::Image can be allocated at
    NoImage     \* the null pointer

ASSUME RequestAssumption == NoName \notin Names /\ NoImage \notin Images

Request == [image : Images \cup {NoImage}, filename : Names \cup {NoName}]

\* What PeekRelativeRequest and CurrentImage give when there is no such entry.
NoRequest == [image |-> NoImage, filename |-> NoName]

\* The images of a sequence of entries, requests or work packages.
ImagesOf(s) == {s[k].image : k \in DOMAIN s}

=============================================================================
