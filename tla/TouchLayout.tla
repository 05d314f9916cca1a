------------------------------ MODULE TouchLayout ------------------------------
(****************************************************************************)
(* Where TouchKeys puts its buttons (src/src/client/ui/touchkeys.cpp):      *)
(* re_arrange shares the height of the window among the rows of a layout,   *)
(* arrange_row the width among the cells of a row; button i gets cell i.    *)
(* Lengths are uint16_t and sums of shares uint8_t, as in the code.  The    *)
(* float arithmetic is taken as exact: rounding may move an edge by one.    *)
(****************************************************************************)
EXTENDS Integers, Sequences, SequencesExt

U8(n) == n % 256
U16(n) == n % 65536

Total(Part(_), parts) == FoldLeft(LAMBDA sum, part : sum + Part(part), 0, parts)

Row(height, min, flex, widths) ==
    [height |-> height, min_flex_height |-> min, flex |-> flex,
     cells |-> [k \in DOMAIN widths |-> [width |-> widths[k], flex |-> TRUE]]]

\* fit_buttons, with a size of at most 100.
FitButtons(side, size, count) ==
    LET row == Row(size, 0, TRUE, [k \in 1 .. count |-> 1])
        empty_row == Row(100 - size, 0, TRUE, <<>>)
    IN  CASE side = "FIT_BOTTOM" -> <<empty_row, row>>
          [] side = "FIT_TOP" -> <<row, empty_row>>
          [] side = "FIT_HORIZONTAL" -> <<row>>

\* The height a fixed row has at least.  No layout of the repository sets
\* max_flex_height, whose branch is left out, and each has a row that is flex, so
\* that there are parts to share.
MinHeight(layout, row, window_h) ==
    LET space == U16(window_h - Total(LAMBDA r :
                         IF ~r.flex /\ r.min_flex_height = 0 THEN r.height ELSE 0, layout))
        divisions == U8(Total(LAMBDA r :
                         IF r.flex THEN r.height ELSE r.min_flex_height, layout))
    IN  (space * row.min_flex_height) \div divisions

\* A fixed row that is lower than that grows, and takes part in the sharing.
Grows(layout, row, window_h) ==
    ~row.flex /\ row.height < MinHeight(layout, row, window_h)

RowHeight(layout, row, window_h) ==
    LET flex_h == U16(window_h - Total(LAMBDA r :
                      IF r.flex \/ Grows(layout, r, window_h) THEN 0 ELSE r.height, layout))
        divisions == U8(Total(LAMBDA r :
                      IF r.flex THEN r.height
                      ELSE IF Grows(layout, r, window_h) THEN r.min_flex_height ELSE 0, layout))
    IN  IF row.flex THEN (row.height * flex_h) \div divisions
        ELSE IF Grows(layout, row, window_h) THEN MinHeight(layout, row, window_h)
        ELSE row.height

\* arrange_row: flex cells lose fractions of a pixel, which add up; each whole
\* pixel of them goes to the cell that completes it.
Carried(remainder, divisions) == IF remainder >= divisions THEN 1 ELSE 0

ArrangeRow(row, y, height, window_w) ==
    LET flex_w == U16(window_w - Total(LAMBDA c : IF c.flex THEN 0 ELSE c.width, row.cells))
        divisions == U8(Total(LAMBDA c : IF c.flex THEN c.width ELSE 0, row.cells))
        Place(done, c) ==
            LET remainder == done.remainder + ((c.width * flex_w) % divisions)
                carried == Carried(remainder, divisions)
                width == IF c.flex THEN (c.width * flex_w) \div divisions + carried
                         ELSE c.width
            IN  [areas |-> Append(done.areas, [x |-> done.x, y |-> y, w |-> width, h |-> height]),
                 x |-> U16(done.x + width),
                 remainder |-> IF c.flex THEN remainder - carried * divisions
                               ELSE done.remainder]
    IN  FoldLeft(Place, [areas |-> <<>>, x |-> 0, remainder |-> 0], row.cells).areas

\* re_arrange: one row under the other.
ReArrange(layout, window) ==
    LET Stack(done, row) ==
            LET height == RowHeight(layout, row, window.h)
            IN  [areas |-> done.areas \o ArrangeRow(row, done.y, height, window.w),
                 y |-> U16(done.y + height)]
    IN  FoldLeft(Stack, [areas |-> <<>>, y |-> 0], layout).areas

\* in_area: the point is inside, not on the edge.
InArea(point, area) ==
    /\ area.x < point.x /\ point.x < area.x + area.w
    /\ area.y < point.y /\ point.y < area.y + area.h

\* The buttons of an arrangement are all in the window, none under another, and
\* every row that has buttons is as wide as the window.
Fits(areas, window) ==
    /\ \A i \in DOMAIN areas :
           /\ areas[i].x + areas[i].w <= window.w
           /\ areas[i].y + areas[i].h <= window.h
    /\ \A i, j \in DOMAIN areas : i < j =>
           \/ areas[i].x + areas[i].w <= areas[j].x
           \/ areas[i].y + areas[i].h <= areas[j].y
    /\ \A i \in DOMAIN areas :
           areas[i].x + areas[i].w = window.w
             \/ \E j \in DOMAIN areas : /\ areas[j].y = areas[i].y
                                        /\ areas[j].x = areas[i].x + areas[i].w
=============================================================================
