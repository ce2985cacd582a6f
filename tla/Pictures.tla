------------------------------ MODULE Pictures ------------------------------
(***************************************************************************)
(* Avatars, epic covers and project icons: one image object per owner on   *)
(* disk, under a key made of the owner's id, and the row that names its    *)
(* type.                                                                   *)
(*                                                                         *)
(* Source: crates/api (avatar.rs, epic_cover.rs, project_icon.rs), the     *)
(* set_, clear_ and _object statements of crates/db (users.rs, backlog.rs, *)
(* projects.rs).                                                           *)
(*                                                                         *)
(* A request changes the object first and the row in a second step; it may *)
(* fail, or the process stop, between them.                                *)
(***************************************************************************)
EXTENDS Integers, FiniteSets

CONSTANTS
    Painters,       \* handlers in flight
    Mimes,          \* image types
    NoImage,
    Torn,           \* of an object of which a write left a part
    MaxPaints       \* bound on the requests begun, for TLC

Owners == {"avatar", "cover", "icon"}

\* NoImage is null, no type and no request.
ASSUME PicturesAssumption ==
    /\ MaxPaints \in Nat /\ Torn \notin Mimes \cup {NoImage}
    /\ NoImage \notin Mimes \cup [owner : Owners, mime : Mimes \cup {NoImage}]

VARIABLES
    picture,        \* owner -> type the row records, or NoImage
    image,          \* owner -> type of the object on disk, Torn or NoImage
    epicLive,       \* the epic of the cover is there
    paint,          \* handler -> [owner, mime], or NoImage
    smeared,        \* history: owners whose requests overlapped or failed half way
    paints          \* requests begun

pictureVars == <<picture, image, epicLive, paint, smeared, paints>>

PictureInit ==
    /\ picture = [o \in Owners |-> NoImage] /\ image = [o \in Owners |-> NoImage] /\ epicLive = TRUE
    /\ paint = [u \in Painters |-> NoImage] /\ smeared = {} /\ paints = 0

Painting(o) == {u \in Painters : paint[u] # NoImage /\ paint[u].owner = o}

\* The object is written or removed; a removal that fails is ignored.
PutObject(u, o, m, ok) ==
    /\ paint[u] = NoImage /\ paints < MaxPaints /\ paints' = paints + 1
    /\ image' = [image EXCEPT ![o] = IF ok THEN m ELSE @]
    /\ paint' = [paint EXCEPT ![u] = [owner |-> o, mime |-> m]]
    /\ smeared' = IF ok /\ Painting(o) = {} THEN smeared ELSE smeared \cup {o}
    /\ UNCHANGED <<picture, epicLive>>

\* Storage refuses the write, and the request ends: the object is as it was
\* or, truncated and written in place, in parts.
PutFails(o) ==
    /\ paints < MaxPaints /\ paints' = paints + 1
    /\ \E bytes \in {image[o], Torn} : image' = [image EXCEPT ![o] = bytes]
    /\ smeared' = IF image' = image THEN smeared ELSE smeared \cup {o}
    /\ UNCHANGED <<picture, epicLive, paint>>

\* A type by its magic bytes; another answers 422 with nothing changed.
upload_avatar(u, m) == PutObject(u, "avatar", m, TRUE)
upload_icon(u, m) == PutObject(u, "icon", m, TRUE)
upload_cover(u, m) == epicLive /\ PutObject(u, "cover", m, TRUE)

\* An emoji replaces the image: its object goes, the row forgets its type.
set_emoji_avatar(u, ok) == PutObject(u, "avatar", NoImage, ok)
delete_avatar(u, ok) == PutObject(u, "avatar", NoImage, ok)
delete_cover(u, ok) == PutObject(u, "cover", NoImage, ok)
delete_icon(u, ok) == PutObject(u, "icon", NoImage, ok)

\* Mutant: clearing leaves the row's type.
ClearKeepsRow(o, m) == picture' = [picture EXCEPT ![o] = IF m = NoImage THEN @ ELSE m]

\* set_avatar_image and its like, or their clears.
SetImage(o, m) == picture' = [picture EXCEPT ![o] = m]

\* The row follows; a deleted epic has none to change.
PaintDone(u) ==
    /\ paint[u] # NoImage
    /\ LET o == paint[u].owner
           hit == o = "cover" => epicLive IN
       /\ IF hit THEN SetImage(o, paint[u].mime) ELSE UNCHANGED picture
       /\ smeared' = IF hit THEN smeared ELSE smeared \cup {o}
    /\ paint' = [paint EXCEPT ![u] = NoImage]
    /\ UNCHANGED <<image, epicLive, paints>>

\* The statement fails, or the process stops: the object stays changed.
PaintFails(u) ==
    /\ paint[u] # NoImage
    /\ smeared' = smeared \cup {paint[u].owner}
    /\ paint' = [paint EXCEPT ![u] = NoImage]
    /\ UNCHANGED <<picture, image, epicLive, paints>>

\* The epic is deleted; its cover stays.
EpicDeleted ==
    /\ epicLive /\ epicLive' = FALSE
    /\ UNCHANGED <<picture, image, paint, smeared, paints>>

\* What a viewer gets: the type of the row with the bytes of the object; 404
\* when either is missing.
Serve(o) == IF picture[o] # NoImage /\ image[o] # NoImage THEN {<<picture[o], image[o]>>} ELSE {}
serve_avatar == Serve("avatar")
serve_cover == Serve("cover")
serve_icon == Serve("icon")

PictureNext ==
    \/ \E u \in Painters :
         \/ \E m \in Mimes : upload_avatar(u, m) \/ upload_cover(u, m) \/ upload_icon(u, m)
         \/ \E ok \in BOOLEAN :
              \/ set_emoji_avatar(u, ok) \/ delete_avatar(u, ok) \/ delete_cover(u, ok)
              \/ delete_icon(u, ok)
         \/ PaintDone(u) \/ PaintFails(u)
    \/ \E o \in Owners : (o = "cover" => epicLive) /\ PutFails(o)
    \/ EpicDeleted

PictureSpec == PictureInit /\ [][PictureNext]_pictureVars

-----------------------------------------------------------------------------
PictureTypeOK ==
    /\ picture \in [Owners -> Mimes \cup {NoImage}] /\ image \in [Owners -> Mimes \cup {NoImage, Torn}]
    /\ epicLive \in BOOLEAN /\ smeared \subseteq Owners /\ paints \in 0 .. MaxPaints
    /\ paint \in [Painters -> [owner : Owners, mime : Mimes \cup {NoImage}] \cup {NoImage}]

\* An image that is served has the type its row names, and a row that names
\* one has its object, whole: unless a request is changing the picture now, or
\* one overlapped another or failed half way (upload_ and delete_ handlers of
\* avatars, covers and icons, which write disk and row one after the other,
\* and the disk in place).
PictureMatches == \A o \in Owners \ smeared : Painting(o) = {} =>
    IF picture[o] = NoImage THEN image[o] = NoImage ELSE Serve(o) = {<<picture[o], picture[o]>>}
=============================================================================
