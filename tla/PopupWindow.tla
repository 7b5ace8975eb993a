---------------------------- MODULE PopupWindow ----------------------------
(* popup::PopupWindow (src/src/popup/popupwindow.cpp): the card as a record, *)
(* and each of its members as a function of it.  `theme` is what the card    *)
(* reads of the settings and of the session: the position mode, what it lays *)
(* its content out by, whether PopupFadeMs is above 0, whether its window is *)
(* a layer surface and whether it is placed off the text.  The card follows  *)
(* the pointer, as the program leaves it (setFollowCursor() is called by     *)
(* tests alone).                                                             *)
EXTENDS Placement

CONSTANTS
    Content,    \* what a model may say
    NoContent,  \* the empty model
    Layout,     \* fonts, padding, maximum size and render options
    Size,       \* the card's, for a model, pinned or not, in a layout
    Screen,     \* the screens
    Geometry    \* [Screen -> QRect]

ASSUME PopupAssumption ==
    /\ NoContent \notin Content
    /\ Size \in [(Content \cup {NoContent}) \X BOOLEAN \X Layout -> [w : Nat \ {0}, h : Nat \ {0}]]
    /\ \A m \in Content, l \in Layout : Fits(Size[<<m, FALSE, l>>], Size[<<m, TRUE, l>>])
    /\ Geometry \in [Screen -> QRect]
    /\ \A s \in Screen : Geometry[s].w > 0 /\ Geometry[s].h > 0

Card ==
    [model : Content \cup {NoContent}, pinned : BOOLEAN, suppressed : BOOLEAN,
     visible : BOOLEAN, hiding : BOOLEAN, screen : Screen, surface : Screen,
     rect : QRect, sides : Sides, avoid : QRect]

(* visible: isVisible().  hiding: m_hiding, a fade that ends in hide() runs. *)
(* surface: m_surfaceScreen.  m_contentChanged, which saves work where the   *)
(* card follows the pointer, is left out.                                    *)

Frozen(c) == c.pinned /\ c.visible

(* On screen and not on its way out.                                         *)
Up(c) == c.visible /\ ~c.hiding

(* Whether the card has been placed since the settings were applied: every   *)
(* placement determines its sides, applyTheme() forgets them.                *)
PlacedSince(c) == c.sides.known

(* Whether a card with this model has room beside the paragraph, pinned too. *)
Roomy(c, theme) ==
    LET screen == Geometry[c.screen]
        size == Size[<<c.model, TRUE, theme.layout>>]
    IN  /\ Fits(size, screen)
        /\ \E b \in 0 .. 3 : Fits(size, Band(screen, Intersected(c.avoid, screen))[b])

(* updateSize(): in place, the corner stays.                                 *)
Resized(c, theme) ==
    LET size == Size[<<c.model, c.pinned, theme.layout>>]
    IN  [c EXCEPT !.rect.w = size.w, !.rect.h = size.h]

(* The constructor, on the screen s.                                         *)
NewCard(s, theme) ==
    Resized([model |-> NoContent, pinned |-> FALSE, suppressed |-> FALSE, visible |-> FALSE,
             hiding |-> FALSE, screen |-> s, surface |-> s, rect |-> EmptyRect,
             sides |-> NoSides, avoid |-> EmptyRect], theme)

(* Mutant: a pinned card takes the new model.                                *)
WithModelThawed(c, m, theme) ==
    IF c.suppressed THEN c ELSE Resized([c EXCEPT !.model = m], theme)

(* setModel().                                                               *)
WithModel(c, m, theme) ==
    IF Frozen(c) \/ c.suppressed THEN c
    ELSE Resized([c EXCEPT !.model = m], theme)

(* startFade(): without a fade time it is over at once.                      *)
FadeStarted(c, hideWhenDone, theme) ==
    IF theme.fades THEN [c EXCEPT !.hiding = hideWhenDone]
    ELSE [c EXCEPT !.hiding = FALSE, !.visible = c.visible /\ ~hideWhenDone]

(* hidePopup().                                                              *)
Hidden(c, theme) == IF c.visible THEN FadeStarted(c, TRUE, theme) ELSE c

(* The end of a fade to 0.                                                   *)
FadedOut(c) == [c EXCEPT !.visible = FALSE, !.hiding = FALSE]

(* Mutant: the surface is not bound to the screen the card is on.            *)
MappedAnywhere(c) == [c EXCEPT !.visible = TRUE]

(* mapSurface(): a layer surface keeps the screen it is created on.          *)
Mapped(c) == [c EXCEPT !.visible = TRUE, !.surface = c.screen]

(* Mutant: a card that is fading out goes on doing so.                       *)
FadesOn(c) == c

(* startFade(1.0, false) where a fade would hide the card.                   *)
Revived(c) == [c EXCEPT !.hiding = FALSE]

(* The card placed for the pointer at p on the screen s: it keeps its side   *)
(* unless it comes up afresh or on another screen.                           *)
Anchored(c, p, s, theme) ==
    LET kept == IF c.visible /\ c.screen = s THEN c.sides ELSE NoSides
        avoid == IF theme.avoidsText THEN c.avoid ELSE EmptyRect
        place == PlacedAvoiding(p, [w |-> c.rect.w, h |-> c.rect.h], Geometry[s],
                                theme.mode, avoid, kept)
    IN  [c EXCEPT !.screen = s, !.rect = place.rect, !.sides = place.sides]

(* showNear(): reverses a fade, places the card, maps it where it is hidden  *)
(* and maps it again on another screen.                                      *)
ShownNear(c, p, s, theme) ==
    LET shown == Anchored(Revived(c), p, s, theme) IN
    IF c.suppressed THEN c
    ELSE IF c.model = NoContent THEN Hidden(c, theme)
    ELSE IF Frozen(c) THEN c
    ELSE IF ~c.visible \/ (theme.layerShell /\ s # c.surface) THEN Mapped(shown)
    ELSE shown

(* setPinned(): the window is destroyed and made again, at full opacity.     *)
Pinned(c, pinned, theme) ==
    IF c.pinned = pinned THEN c
    ELSE LET flagged == Resized([c EXCEPT !.pinned = pinned, !.hiding = FALSE], theme)
         IN  IF c.visible THEN Mapped(flagged) ELSE flagged

(* Mutant: the suppression takes a pinned card away as well.                 *)
SuppressedOutright(c, suppressed, theme) ==
    LET set == [c EXCEPT !.suppressed = suppressed]
    IN  IF suppressed THEN Hidden(set, theme) ELSE set

(* setSuppressed().                                                          *)
Suppressed(c, suppressed, theme) ==
    LET set == [c EXCEPT !.suppressed = suppressed]
    IN  IF suppressed /\ ~c.pinned THEN Hidden(set, theme) ELSE set

(* applyTheme() and applyRenderOptions(): the card is laid out anew and      *)
(* resized where it is, on screen or not, and is not placed.                 *)
Themed(c, theme) == Resized([c EXCEPT !.sides = NoSides], theme)
=============================================================================
