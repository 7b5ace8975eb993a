--------------------------- MODULE MCApplication ---------------------------
(* Two screens side by side, two characters on the first, one of them near  *)
(* the middle of its height, and none on the second.  The set of            *)
(* dictionaries changes once, and its store with it.                        *)
EXTENDS Application, TLC

CONSTANTS a, b, none, nowhere, west, east, old, new, small, large

Points == {"a1", "b1", "out"}
Stores == <<old, new>>
AllContent == [char : {a, b}, store : {old, new}]

(* A card of 5 x 3 or 5 x 2, wider where it is pinned and gets a scroll bar; *)
(* a large layout makes it wider by 2 and higher by 1.                       *)
Sizes == [c \in (AllContent \cup {nowhere}) \X BOOLEAN \X {small, large} |->
            LET wider == IF c[3] = large THEN 2 ELSE 0
                higher == IF c[3] = large THEN 1 ELSE 0
            IN  IF c[1] = nowhere THEN [w |-> 1 + wider, h |-> 1 + higher]
                ELSE [w |-> (IF c[2] THEN 6 ELSE 5) + wider,
                      h |-> (IF c[1].char = a THEN 3 ELSE 2) + higher]]
TwoScreens == (west :> [x |-> 0, y |-> 0, w |-> 14, h |-> 12]) @@ (east :> [x |-> 14, y |-> 2, w |-> 10, h |-> 8])
OnScreen == [p \in Points |-> IF p = "out" THEN east ELSE west]
At == ("a1" :> [x |-> 0, y |-> 6]) @@ ("b1" :> [x |-> 13, y |-> 2])
      @@ ("out" :> [x |-> 14, y |-> 4])
Chars == ("a1" :> a) @@ ("b1" :> b) @@ ("out" :> none)
Blocks == (a :> [x |-> 0, y |-> 4, w |-> 6, h |-> 4]) @@ (b :> [x |-> 10, y |-> 1, w |-> 4, h |-> 3])

(* Both characters are in the new dictionaries, one of them in the old ones. *)
Known == (old :> {a}) @@ (new :> {a, b})

(* Two settings of a wlroots session and a KWin session; the layout, the     *)
(* fade, and what the lookup window does to the card, are the user's.        *)
Session(mode, layout, fades, hides, raises, layer) ==
    [mode |-> mode, layout |-> layout, fades |-> fades, hides |-> hides, raises |-> raises,
     layerShell |-> layer, avoidsText |-> layer]
Considered == {Session("VisualNovel", small, TRUE, TRUE, TRUE, TRUE),
               Session("FlipBoth", large, FALSE, FALSE, FALSE, TRUE),
               Session("FlipBoth", small, FALSE, FALSE, FALSE, FALSE)}
=============================================================================
