------------------------------ MODULE BookSpec ------------------------------
(***************************************************************************)
(* What a caller of the order book is promised, without the loop that does *)
(* it: every command has the one answer of BookAnswers, given at once or a *)
(* while later.                                                            *)
(***************************************************************************)
EXTENDS BookAnswers

CONSTANTS
    LevelPrices,  \* the prices a limit order may have
    MaxOrders,    \* the most orders that may rest
    Commands      \* the commands a caller may send

Rules == [prices |-> LevelPrices, max |-> MaxOrders]

VARIABLES
    book,         \* book[side]: the resting orders, best price and oldest first
    status,       \* "idle", or "busy" while a command is being executed
    cmd,          \* the command being executed
    out           \* the events of the last command

specVars == <<book, status, cmd, out>>

NoCommand == [kind |-> "None"]

-----------------------------------------------------------------------------
(* A caller sends a command and has its answer, at once or a while later *)

Init ==
    /\ book = [s \in Sides |-> <<>>]
    /\ status = "idle"
    /\ cmd = NoCommand
    /\ out = <<>>

\* Answered at once: by a single event, which names the command's order.
Serve(c) ==
    LET answer == Answer(Rules, book, c)
    IN  /\ UNCHANGED <<status, cmd>>
        /\ Len(out') = 1 /\ out'[1].id = c.id
        /\ out' = answer.out
        /\ book' = answer.book

Call(c) ==
    /\ status' = "busy"
    /\ cmd' = c
    /\ out' = <<>>
    /\ UNCHANGED book

Return ==
    LET answer == Answer(Rules, book, cmd)
    IN  /\ status = "busy"
        /\ status' = "idle"
        /\ cmd' = NoCommand
        /\ out' = answer.out
        /\ book' = answer.book

Send ==
    /\ status = "idle"
    /\ \E c \in Commands : Serve(c) \/ Call(c)

Next == Send \/ Return

Spec == Init /\ [][Next]_specVars

=============================================================================
