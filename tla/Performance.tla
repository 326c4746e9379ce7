---------------------------- MODULE Performance ----------------------------
(***************************************************************************)
(* The performance endpoints over a paper ledger that keeps moving, and    *)
(* the journal notes users write against its positions                     *)
(* (application/performance/service.py, adapters/performance/              *)
(* paper_source.py, adapters/persistence/journal_store.py).                *)
(*                                                                         *)
(* Every statement of a report reads on a connection of its own, so each   *)
(* is an action and commits may fall between them.  A position's row and   *)
(* its ledger are committed together (PaperService), so one record stands  *)
(* for both.  Unreachable stores only refuse a request and are left out.   *)
(***************************************************************************)
EXTENDS PerformanceRules

CONSTANTS
    Positions,              \* position ids, in the order SQL sorts them
    Specs,                  \* Positions -> the specification each is opened with
    Inputs,                 \* Positions -> the inputs each may receive
    Filters,                \* the filters a caller may send
    Editors,                \* callers that write journal notes
    MaxPositionsPerAnalysis,
    MaxJournalPage,
    MAX_VERIFIED_OPEN,
    MaxEdits                \* bound: saves tried per editor

ASSUME PerformanceInputs ==
    /\ Positions \subseteq Nat /\ IsFiniteSet(Positions)
    /\ MaxPositionsPerAnalysis \in Nat /\ MAX_VERIFIED_OPEN \in Nat
    /\ MaxJournalPage \in Nat \ {0} /\ MaxEdits \in Nat

\* what paper trading stores: valid specifications, and inputs of the engine
ASSUME PerformanceLedgers ==
    \A id \in Positions :
        /\ Specs[id] \in PositionSpec /\ ValidSpec(Specs[id])
        /\ \A input \in Inputs[id] :
              \/ input.kind = "BAR" /\ input.bar \in Bar
              \/ input.kind \in {"CLOSE", "BREAKEVEN", "CANCEL"}

VARIABLES
    rows,       \* Positions -> the stored PaperPosition, None before it exists
    notes,      \* Positions -> [version, note, tag], version 0 for no row
    saves,      \* Positions -> the saves the store accepted: [over, note]
    report,     \* the request being answered
    edits       \* Editors -> [pc, id, seen, left, code]

performanceVars == <<rows, notes, saves, report, edits>>

NoNote == [version |-> 0, note |-> None, tag |-> None]
NoReport == [pc |-> "idle", code |-> OK, unrealized |-> unavailable]

PerformanceInit ==
    /\ rows = [id \in Positions |-> None]
    /\ notes = [id \in Positions |-> NoNote]
    /\ saves = [id \in Positions |-> <<>>]
    /\ report = NoReport
    /\ edits = [e \in Editors |-> [pc |-> "idle", id |-> None, seen |-> NoNote,
                                   left |-> MaxEdits, code |-> OK]]

Exists(id) == rows[id] # None

(***************************************************************************)
(* The ledger moves: one paper transaction at a time.                      *)
(***************************************************************************)
Open(id) ==
    /\ ~Exists(id)
    /\ rows' = [rows EXCEPT ![id] =
                    OpenPosition(Specs[id], Specs[id].quantity, TRUE, TRUE).position]
    /\ UNCHANGED <<notes, saves, report, edits>>

Commit(id, input) ==
    /\ Exists(id)
    /\ \E r \in {ApplyInput(rows[id], input)} :
        /\ r.code = OK /\ r.position # rows[id]
        /\ rows' = [rows EXCEPT ![id] = r.position]
    /\ UNCHANGED <<notes, saves, report, edits>>

(***************************************************************************)
(* Reports.                                                                *)
(***************************************************************************)

\* _SELECT_IDS: the positions of a filter, closed ones first in closing order
Matching(filters) ==
    LET chosen == {id \in Positions :
                      /\ Exists(id)
                      /\ filters.ids # None => id \in filters.ids
                      /\ filters.tag # None => notes[id].tag = filters.tag
                      /\ Matches(rows[id].spec, rows[id].events, filters)}
        closed(id) == FoldLedger(rows[id].spec, rows[id].events).terminal
        before(a, b) ==
            LET s == closed(a)
                t == closed(b)
                decided(id) == rows[id].spec.decision
            IN  \/ s # None /\ (t = None \/ s < t)
                \/ s = t /\ \/ decided(a) < decided(b)
                            \/ decided(a) = decided(b) /\ a < b
    IN  SetToSortSeq(chosen, before)

\* the answer a caller receives; the figures of an analysis are Summarise and
\* Grouped of its records, of which the mark is the one read piecemeal
Refuse(code) == [pc |-> "idle", code |-> code, unrealized |-> unavailable]
Reported(records) == [pc |-> "idle", code |-> OK, unrealized |-> UnrealizedOpen(records)]

Reversed(filters) ==
    filters.from # None /\ filters.to # None /\ filters.from > filters.to

\* _validate_range, before anything is read
Ask(kind, filters) ==
    /\ report.pc = "idle"
    /\ report' = IF Reversed(filters) THEN Refuse("RANGE_REVERSED")
                 ELSE [pc |-> IF kind = "journal" THEN "select" ELSE "count",
                       kind |-> kind, filters |-> filters]
    /\ UNCHANGED <<rows, notes, saves, edits>>

\* _authoritative: an analysis that would be truncated is refused
CountMatching ==
    /\ report.pc = "count"
    /\ report' = IF Len(Matching(report.filters)) > MaxPositionsPerAnalysis
                 THEN Refuse("ANALYSIS_RANGE_TOO_LARGE")
                 ELSE [report EXCEPT !.pc = "select"]
    /\ UNCHANGED <<rows, notes, saves, edits>>

Slice(s, first, last) == SubSeq(s, first, IF last < Len(s) THEN last ELSE Len(s))

Smaller(a, b) == IF a < b THEN a ELSE b

\* outcomes selects again, in a statement of its own
SelectAll ==
    /\ report.pc = "select" /\ report.kind = "analysis"
    /\ report' = [pc |-> "fold", kind |-> "analysis",
                  ids |-> Slice(Matching(report.filters), 1, MaxPositionsPerAnalysis)]
    /\ UNCHANGED <<rows, notes, saves, edits>>

\* journal_page bounds the page and journal_rows cuts it out of the selection
SelectPage(offset, limit) ==
    /\ report.pc = "select" /\ report.kind = "journal"
    /\ report' = [pc |-> "fold", kind |-> "journal",
                  ids |-> Slice(Matching(report.filters), offset + 1,
                                offset + Smaller(limit, MaxJournalPage))]
    /\ UNCHANGED <<rows, notes, saves, edits>>

ExposedIn(records) == {id \in DOMAIN records : records[id].population \in Exposed}

\* _fold_positions; _with_open_marks then verifies the exposed ones, if few
Fold ==
    /\ report.pc = "fold"
    /\ \E records \in {[id \in Range(report.ids) |->
                            FoldLedger(rows[id].spec, rows[id].events)]} :
        LET exposed == Cardinality(ExposedIn(records))
            next == IF report.kind = "journal" THEN "annotate" ELSE "rows"
        IN  report' = IF report.kind # "journal" /\ exposed \notin 1..MAX_VERIFIED_OPEN
                      THEN Reported(records)
                      ELSE [pc |-> next, records |-> records]
    /\ UNCHANGED <<rows, notes, saves, edits>>

\* _annotations: the page pairs each outcome with the note as it is now
Annotate ==
    /\ report.pc = "annotate"
    /\ report' = [pc |-> "idle", code |-> OK, unrealized |-> unavailable,
                  page |-> [id \in DOMAIN report.records |-> notes[id]]]
    /\ UNCHANGED <<rows, notes, saves, edits>>

\* _position_rows
ReadRows ==
    /\ report.pc = "rows"
    /\ report' = [pc |-> "events", records |-> report.records,
                  stored |-> [id \in ExposedIn(report.records) |-> rows[id]]]
    /\ UNCHANGED <<rows, notes, saves, edits>>

\* unrealized_gross of an exposed position at its last mark
UnrealizedGross(p) ==
    FirstOf(<< <<p.state \in Terminal, 0>>,
               <<p.entry = None \/ p.mark = None, None>>,
               <<TRUE, IF p.entry = None \/ p.mark = None THEN None
                       ELSE Gross(p, p.mark, p.remaining)>> >>)

\* _row_disagreement: the columns a rebuild must reproduce
Columns(p) == <<p.state, p.remaining, p.entry, p.stop, p.mark, p.gross, p.fees,
                p.lastBar, Len(p.events)>>

Disagrees(stored, rebuilt) ==
    rebuilt.code # OK \/ Columns(rebuilt.position) # Columns(stored)

\* _all_events and _verified_mark: a mark is used only when the rebuilt ledger
\* agrees with the row read before it
ReadEvents ==
    /\ report.pc = "events"
    /\ \E rebuilt \in {[id \in DOMAIN report.stored |->
                          Rebuild(report.stored[id].spec, report.stored[id].spec.quantity,
                                  rows[id].events)]} :
        report' =
            IF \E id \in DOMAIN rebuilt : Disagrees(report.stored[id], rebuilt[id])
            THEN Refuse("PERFORMANCE_SOURCE_UNAVAILABLE")
            ELSE Reported([id \in DOMAIN report.records |->
                    IF id \in DOMAIN rebuilt
                    THEN [report.records[id] EXCEPT
                            !.unrealized = UnrealizedGross(rebuilt[id].position)]
                    ELSE report.records[id]])
    /\ UNCHANGED <<rows, notes, saves, edits>>

(***************************************************************************)
(* Journal notes.                                                          *)
(***************************************************************************)

\* annotation: a caller reads the note it is about to edit
ReadAnnotation(e, id) ==
    /\ edits[e].pc = "idle" /\ edits[e].left > 0
    /\ edits' =
            IF Exists(id)
            THEN [edits EXCEPT ![e].pc = "editing", ![e].id = id, ![e].seen = notes[id],
                               ![e].code = OK]
            ELSE [edits EXCEPT ![e].left = @ - 1, ![e].code = "POSITION_NOT_FOUND"]
    /\ UNCHANGED <<rows, notes, saves, report>>

\* Mutant: the update matches the row whatever its version.
VersionMatchesAny(current, expected) ==
    IF expected = 0 THEN current.version = 0 ELSE current.version # 0

\* save: an insert meets no row (23505 otherwise), an update its own version
VersionMatches(current, expected) == current.version = expected

\* write_annotation: the position exists, so the store decides
WriteAnnotation(e, note, tag) ==
    /\ edits[e].pc = "editing"
    /\ LET id == edits[e].id
           done(code) == [edits[e] EXCEPT !.pc = "idle", !.id = None, !.seen = NoNote,
                                          !.left = @ - 1, !.code = code]
       IN  IF VersionMatches(notes[id], edits[e].seen.version)
           THEN /\ notes' = [notes EXCEPT ![id] = [version |-> @.version + 1,
                                                   note |-> note, tag |-> tag]]
                /\ saves' = [saves EXCEPT ![id] =
                                Append(@, [over |-> edits[e].seen.note, note |-> note])]
                /\ edits' = [edits EXCEPT ![e] = done(OK)]
           ELSE /\ edits' = [edits EXCEPT ![e] = done("JOURNAL_VERSION_CONFLICT")]
                /\ UNCHANGED <<notes, saves>>
    /\ UNCHANGED <<rows, report>>

PerformanceNext ==
    \/ \E id \in Positions :
        \/ Open(id)
        \/ \E input \in Inputs[id] : Commit(id, input)
        \/ \E e \in Editors : ReadAnnotation(e, id)
    \/ \E kind \in {"analysis", "journal"}, filters \in Filters :
        Ask(kind, filters)
    \/ CountMatching
    \/ SelectAll
    \/ \E offset \in 0..1, limit \in {MaxJournalPage, MaxJournalPage + 1} :
        SelectPage(offset, limit)
    \/ Fold \/ Annotate \/ ReadRows \/ ReadEvents
    \/ \E e \in Editors, tag \in {None, "tag"} : WriteAnnotation(e, <<e, edits[e].left>>, tag)

PerformanceSpec == PerformanceInit /\ [][PerformanceNext]_performanceVars

-----------------------------------------------------------------------------
(***************************************************************************)
(* Properties.                                                             *)
(***************************************************************************)

(***************************************************************************)
(* The cheap path and the expensive path agree: the population and the     *)
(* realized gross folded from the financial events are the engine's own    *)
(* state and gross after every history, and once a position has closed so  *)
(* are its fees and its net.                                               *)
(***************************************************************************)
FoldMatchesEngine ==
    report = NoReport => \A id \in Positions : Exists(id) =>
        LET record == FoldLedger(rows[id].spec, rows[id].events)
        IN  /\ record.population = rows[id].state
            /\ record.gross = rows[id].gross
            /\ rows[id].state \in Terminal => record.fees = rows[id].fees

(***************************************************************************)
(* What the folding test says without the closed position it tries it on:  *)
(* the fees folded for a position are the fees the engine charged it.      *)
(***************************************************************************)
OpenFeesMatchEngine ==
    \A id \in Positions : Exists(id) =>
        FoldLedger(rows[id].spec, rows[id].events).fees = rows[id].fees

\* The longest run of one outcome, by its definition.
Longest(outcomes, kind) ==
    LET runs == {s \in (DOMAIN outcomes) \X (DOMAIN outcomes) :
                    s[1] <= s[2] /\ \A i \in s[1]..s[2] : outcomes[i] = kind}
    IN  IF runs = {} THEN 0 ELSE Max({s[2] - s[1] + 1 : s \in runs})

\* The deepest fall from one point of the timeline to a later one.
DeepestFall(points) ==
    Max({points[s[1]] - points[s[2]] :
         s \in {t \in (DOMAIN points) \X (DOMAIN points) : t[1] <= t[2]}})

(***************************************************************************)
(* The figures add up.  A window keeps its money: the accounting of the    *)
(* positions the selection returns is the accounting of all of them, also  *)
(* when a position traded inside the window and closed after it (claimed   *)
(* for windows with both bounds or only a lower one).  The graded sample's *)
(* streaks and drawdown are the ones their definitions give, its outcomes  *)
(* partition it, and the two directions together made what the whole made. *)
(***************************************************************************)
FiguresAddUp ==
    report = NoReport =>
      \A all \in {[id \in {i \in Positions : Exists(i)} |->
                     FoldLedger(rows[id].spec, rows[id].events)]} :
      \A filters \in {f \in Filters : f.to # None => f.from # None} :
      \A unbounded \in {[filters EXCEPT !.from = None, !.to = None]} :
      \A everyone \in {Restrict(all, Range(Matching(unbounded)))},
         answer \in {Summarise(Restrict(all, Range(Matching(filters))), filters)} :
      \A points \in {answer.timeline}, sides \in {Grouped(everyone)} :
        LET outcomes == [i \in DOMAIN points |->
                            OutcomeOf(points[i] - IF i = 1 THEN 0 ELSE points[i - 1])]
            made(graded) == IF graded.gross = unavailable THEN 0 ELSE graded.gross.value
        IN  /\ answer.accounting = Accounting(everyone, filters)
            /\ \A kind \in {"WIN", "LOSS"} : answer.streaks[kind] = Longest(outcomes, kind)
            /\ points # <<>> => answer.drawdown.value = DeepestFall(points)
            /\ SumFunction(answer.graded.counts) = answer.graded.size
            /\ made(Graded(Completed(everyone, unbounded)))
                  = MapThenSumSet(LAMBDA d : made(sides[d]), DOMAIN sides)

(***************************************************************************)
(* No journal edit is lost: a save is accepted only over the note its      *)
(* author had read, and the version counts the saves that were accepted.   *)
(***************************************************************************)
NoJournalEditLost ==
    \A id \in Positions :
        /\ notes[id].version = Len(saves[id])
        /\ \A i \in DOMAIN saves[id] :
              saves[id][i].over = IF i = 1 THEN None ELSE saves[id][i - 1].note
=============================================================================
