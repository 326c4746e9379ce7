--------------------------- MODULE MCPerformance ---------------------------
(***************************************************************************)
(* Three positions of which two trade in full, and every report on them.   *)
(* Bars move the market up, down, both ways at once or not at all.         *)
(***************************************************************************)
EXTENDS Performance

SpecOf(d, policy, fee) ==
    [direction |-> d, quantity |-> 2, entry |-> 6,
     stop |-> IF d = "LONG" THEN 4 ELSE 8,
     targets |-> <<[price |-> IF d = "LONG" THEN 8 ELSE 4, quantity |-> 1]>>,
     decision |-> 1, sameBar |-> policy, slippage |-> 0, feePerUnit |-> fee]

BarAt(t, o, h, l, c) == BarInput([time |-> t, open |-> o, high |-> h, low |-> l, close |-> c])

FlatBar(t) == BarAt(t, 6, 7, 6, 6)
UpBar(t) == BarAt(t, 6, 9, 6, 9)
DownBar(t) == BarAt(t, 6, 6, 3, 3)
WideBar(t) == BarAt(t, 6, 9, 3, 6)

MCSpecs == 1 :> SpecOf("LONG", "HALT", 0) @@ 2 :> SpecOf("SHORT", "STOP_FIRST", 1)
           @@ 3 :> SpecOf("LONG", "STOP_FIRST", None)

MCInputs ==
    1 :> {FlatBar(1), UpBar(2), WideBar(2), DownBar(3), Command("CLOSE")}
    @@ 2 :> {FlatBar(1), UpBar(2), DownBar(2), Command("CANCEL")}
    @@ 3 :> {}

Filter(from, to) == [from |-> from, to |-> to, direction |-> None, tag |-> None,
                     ids |-> None]

MCFilters == {Filter(None, None), Filter(2, 2), Filter(3, None), Filter(3, 2),
              [Filter(None, None) EXCEPT !.direction = "LONG", !.ids = {1, 3}],
              [Filter(None, None) EXCEPT !.tag = "tag"]}

\* Notes are edited while no position has traded yet, and by the second editor
\* while no report is read: the halves meet only in the tag filter and the page.
EditsBeforeTrading ==
    LET touched == {e \in Editors : edits[e].left < MaxEdits \/ edits[e].pc # "idle"}
    IN  /\ touched # {} => \A id \in Positions : Exists(id) => rows[id].lastBar = None
        /\ Cardinality(touched) = 2 => report = NoReport
=============================================================================
