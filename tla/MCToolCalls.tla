----------------------------- MODULE MCToolCalls -----------------------------
(* Two screenshots that share a prefix and a call that takes none; and, as  *)
(* an assumption TLC evaluates, what ToolCallsProofs proves of small        *)
(* sizes.                                                                   *)
EXTENDS ToolCalls, CaptureGeometry, TLC

CONSTANTS c1, c2, c3

ThreeCalls == {c1, c2, c3}
Kinds == c1 :> "capture" @@ c2 :> "screenshot" @@ c3 :> "other"
OnePrefix == [c \in ThreeCalls |-> "app"]

Edges == 1..4
Windows == [w : Edges, h : Edges]
Regions == [x : -1..2, y : -1..2, w : Edges, h : Edges]
Margins == {[left |-> l, right |-> r, top |-> t, bottom |-> 1] : l, r, t \in {0, 1}}
             \cup {[left |-> 0, right |-> 0, top |-> 0, bottom |-> 0]}
Limit == 3

ASSUME GeometryHolds ==
  \A window \in Windows, hideShadow \in BOOLEAN, margin \in Margins, scale \in {1, 2} :
    LET raw == CaptureWindow(window, hideShadow, margin, scale) IN
    /\ Shrink(window, Limit).w \in 0..Limit /\ Shrink(window, Limit).h \in 0..Limit
    /\ \A region \in Regions :
         LET image == ImageSize(raw, window, region, Limit) IN
         /\ image.w \in 0..Limit /\ image.h \in 0..Limit
         /\ Inside(region, window) =>
              (PixelsArePoints(raw, window, region, Limit) <=>
                 region.w <= Limit /\ region.h <= Limit /\ raw.shows = Whole(window))
=============================================================================
