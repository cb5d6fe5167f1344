------------------------- MODULE OrderBookRefinement -------------------------
(***************************************************************************)
(* The order book of book.go answers every command as BookSpec says.       *)
(*                                                                         *)
(* Three history variables are added to OrderBook: the command being run,  *)
(* the book as it was when it came, the events the sink has had from it.   *)
(* They feed the refinement mapping and no action of the book reads them.  *)
(***************************************************************************)
EXTENDS OrderBook

VARIABLES
    request,    \* the command in flight
    shown,      \* the resting orders, as they were when no command was in flight
    stream      \* the events of the current command, or of the last one

histVars == <<request, shown, stream>>
allVars == <<vars, histVars>>

-----------------------------------------------------------------------------
(* RestingOrders: every level of the side's depth, FIFO within each *)

\* The prices of a side's index from best to worst.
DepthOf(side) ==
    LET worse(p) == Cardinality({q \in indexed[side] : AsGood(side, q, p)})
    IN  [i \in 1 .. Cardinality(indexed[side]) |->
            CHOOSE p \in indexed[side] : worse(p) = i]

RestingOn(side) ==
    FlattenSeq([i \in 1 .. Cardinality(indexed[side]) |->
        LET q == queue[side][DepthOf(side)[i]]
        IN  [k \in 1 .. Len(q) |->
                [id |-> q[k], side |-> side, price |-> order[q[k]].price,
                 qty |-> order[q[k]].qty, tif |-> order[q[k]].tif]]])

RestingOrders == [side \in Sides |-> RestingOn(side)]

-----------------------------------------------------------------------------

HInit ==
    /\ Init
    /\ request = [kind |-> "None"]
    /\ shown = RestingOrders
    /\ stream = <<>>

\* A command that is answered at once has one event; one that is refused leaves the
\* book, and so its orders, alone.
HApply(c) ==
    /\ Apply(c)
    /\ request' = IF pc' = "Idle" THEN request ELSE c
    /\ shown' = IF pc' = "Idle" /\ bookVars' # bookVars THEN RestingOrders' ELSE shown
    /\ stream' = IF pc' = "Idle" THEN <<ev'>> ELSE <<>>

\* The steps that call the sink: Fill does when the maker's order ends.
Emits == pc \in {"Trade", "Finish"} \/ (pc = "Fill" /\ live' # live)

HStep ==
    /\ Step
    /\ request' = IF pc' = "Idle" THEN [kind |-> "None"] ELSE request
    /\ shown' = IF pc' = "Idle" THEN RestingOrders' ELSE shown
    /\ stream' = IF Emits THEN Append(stream, ev') ELSE stream

HNext == (\E c \in Commands : HApply(c)) \/ HStep

HSpec == HInit /\ [][HNext]_allVars

-----------------------------------------------------------------------------
(* The refinement *)

Abstract == INSTANCE BookSpec WITH
    book <- shown,
    status <- IF pc = "Idle" THEN "idle" ELSE "busy",
    cmd <- request,
    out <- IF pc = "Idle" THEN stream ELSE <<>>

\* Whatever the loop does, the caller sees the events and the book that BookSpec
\* gives for the command.
ImplementsBookSpec == Abstract!Spec

=============================================================================
