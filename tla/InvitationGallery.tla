-------------------------- MODULE InvitationGallery --------------------------
(***************************************************************************)
(* The photo story of an invitation: the couple's photos laid out in three *)
(* captioned blocks of a fixed number of cells, the last of which takes    *)
(* whatever is left, and the full-screen viewer with its wrap-around        *)
(* previous and next, by button and by key.                                *)
(***************************************************************************)
EXTENDS Integers, Sequences

CONSTANT MaxPhotos   \* bound: photos a couple uploads

VARIABLE gallery     \* the number of photos, and the one in the viewer (-1: closed)

galleryVars == <<gallery>>

BLOCKS == <<3, 5, 4>>

AtMost(a, b) == IF a < b THEN a ELSE b
AtLeast(a, b) == IF a > b THEN a ELSE b

(* The blocks of n photos as <<offset, count>>, each starting where the      *)
(* blocks before it ended; a block left without photos is dropped.          *)
Laid(n) ==
  LET Count(b, offset) ==
        AtMost(IF b = Len(BLOCKS) THEN AtLeast(BLOCKS[b], n - offset) ELSE BLOCKS[b],
               AtLeast(0, n - offset))
      second == Count(1, 0)
      offsets == <<0, second, second + Count(2, second)>>
  IN [b \in {c \in 1 .. Len(BLOCKS) : Count(c, offsets[c]) > 0} |-> <<offsets[b], Count(b, offsets[b])>>]

GalleryInit == gallery = [photos |-> 0, index |-> -1]

ShowPhotos(n) ==
  /\ gallery.photos = 0
  /\ gallery' = [gallery EXCEPT !.photos = n]

OpenPhoto(block, cell) ==
  /\ gallery.index = -1 /\ block \in DOMAIN Laid(gallery.photos)
  /\ cell < Laid(gallery.photos)[block][2]
  /\ gallery' = [gallery EXCEPT !.index = Laid(gallery.photos)[block][1] + cell]

Turn(step) ==
  /\ gallery.index >= 0
  /\ gallery' = [gallery EXCEPT !.index = (@ + gallery.photos + step) % gallery.photos]

CloseViewer ==
  /\ gallery.index >= 0
  /\ gallery' = [gallery EXCEPT !.index = -1]

GalleryNext ==
  \/ \E n \in 1 .. MaxPhotos : ShowPhotos(n)
  \/ \E block \in 1 .. Len(BLOCKS), cell \in 0 .. MaxPhotos : OpenPhoto(block, cell)
  \/ Turn(-1) \/ Turn(1) \/ CloseViewer

GallerySpec == GalleryInit /\ [][GalleryNext]_galleryVars

-----------------------------------------------------------------------------
(* However many photos there are, each stands in exactly one cell, in order,  *)
(* and the viewer only ever shows one of them.                              *)
EveryPhotoHasItsCell ==
  LET n == gallery.photos  laid == Laid(n) IN
    /\ gallery.index \in -1 .. n - 1
    /\ n > 0 =>
         /\ \A i \in 0 .. n - 1 :
              \E b \in DOMAIN laid :
                /\ i \in laid[b][1] .. laid[b][1] + laid[b][2] - 1
                /\ \A c \in DOMAIN laid \ {b} : i \notin laid[c][1] .. laid[c][1] + laid[c][2] - 1
         /\ \A b \in DOMAIN laid : laid[b][1] + laid[b][2] <= n
=============================================================================
