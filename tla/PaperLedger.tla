---------------------------- MODULE PaperLedger ----------------------------
(***************************************************************************)
(* What the paper-trading service promises: a book of positions, by        *)
(* idempotency key, in which each change is one command of a client,       *)
(* applied whole to the position as it stands.  There are no statements,   *)
(* locks, transactions, lost connections or retries here, and what the     *)
(* engine makes of a command is a parameter.                               *)
(***************************************************************************)
EXTENDS Naturals

CONSTANTS
    Commands,       \* the requests clients may send
    Opens(_),       \* the ledgers a create may open: none if it is refused
    Outcomes(_, _)  \* the ledgers a command may make of a held position

VARIABLE book       \* the positions, by the key in use: request and ledger

Init == book = [k \in {} |-> <<>>]

Holding(key, held) ==
    [k \in DOMAIN book \cup {key} |-> IF k = key THEN held ELSE book[k]]

\* A create under a free key that the engine accepts.
Create(command) ==
    /\ command.op = "CREATE" /\ command.key \notin DOMAIN book
    /\ \E events \in Opens(command) :
        book' = Holding(command.key,
                    [spec |-> command.spec, approval |-> command.approval,
                     version |-> 1, events |-> events])

\* An upload or an order, applied to the position its ledger replays to.
Change(command) ==
    /\ command.op \notin {"CREATE", "GET"} /\ command.key \in DOMAIN book
    /\ \E events \in Outcomes(command, book[command.key]) :
        /\ events # book[command.key].events
        /\ book' = Holding(command.key,
                       [book[command.key] EXCEPT !.version = @ + 1, !.events = events])

Next == \E command \in Commands : Create(command) \/ Change(command)

Spec == Init /\ [][Next]_book
=============================================================================
