---------------------------- MODULE StagedUpload ----------------------------
(***************************************************************************)
(* What a caller of the staged OTA writer may rely on.  An upload is open  *)
(* until it gets its one verdict.  It rewrites nothing outside its own     *)
(* area of the staging flash, and nothing at all after the verdict;        *)
(* VERIFIED says that its whole image is there; and a sound upload that    *)
(* nothing disturbed is not refused.                                       *)
(***************************************************************************)
EXTENDS Naturals

CONSTANTS
    Cells,      \* of the staging area
    Values,     \* of a cell
    Uploads     \* [image, area, complete, sound]

VARIABLES
    upload,
    staging,
    disturbed,  \* something outside the writer went wrong
    verdict     \* "open", "verified" or "failed"

vars == <<upload, staging, disturbed, verdict>>

\* The image of the upload, whole, in its area.
Staged ==
    /\ upload.complete /\ DOMAIN upload.image \subseteq upload.area
    /\ \A i \in DOMAIN upload.image : staging[i] = upload.image[i]

\* Whatever becomes of the area, the rest of the flash stays as it is.
Rewritten ==
    /\ staging' \in [Cells -> Values]
    /\ \A c \in Cells \ upload.area : staging'[c] = staging[c]
-----------------------------------------------------------------------------
Init ==
    /\ upload \in Uploads /\ staging \in [Cells -> Values]
    /\ ~disturbed /\ verdict = "open"

Work ==
    /\ verdict = "open"
    /\ Rewritten
    /\ disturbed' \in BOOLEAN /\ (disturbed => disturbed')
    /\ UNCHANGED <<upload, verdict>>

Verify ==
    /\ verdict = "open" /\ Staged
    /\ verdict' = "verified"
    /\ UNCHANGED <<upload, staging, disturbed>>

Refuse ==
    /\ verdict = "open"
    /\ verdict' = "failed"
    /\ Rewritten
    /\ disturbed' \in BOOLEAN /\ (disturbed => disturbed')
    /\ disturbed' \/ ~upload.sound
    /\ UNCHANGED upload

\* The next upload finds what the last one left.
Begin ==
    /\ upload' \in Uploads
    /\ ~disturbed' /\ verdict' = "open"
    /\ UNCHANGED staging

Next == Work \/ Verify \/ Refuse \/ Begin

Spec == Init /\ [][Next]_vars
=============================================================================
