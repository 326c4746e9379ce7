----------------------------- MODULE LiveClient -----------------------------
(***************************************************************************)
(* A browser watching live sessions: the event stream                      *)
(* (backend/app/api/routes/live.py, LiveWorkspace.subscribe and poll) and  *)
(* the client that decides what may change the screen                      *)
(* (frontend/src/domain/live.ts, frontend/src/screens/Live.tsx).           *)
(* A notice taken from the queue reaches the client in the same step: one  *)
(* connection keeps its order.  A connection lost on the way loses what    *)
(* its queue held.                                                         *)
(***************************************************************************)
EXTENDS LiveWorkspace

(***************************************************************************)
(* LiveClientState of each client, with its requests in flight: the        *)
(* snapshot and the cursor (`from`) of a resynchronisation, and what it    *)
(* asked for (`asks`), with the cursor of the session in the answer once   *)
(* there is one.  `passed` remembers the entries that an accepted          *)
(* snapshot's cursor went past, that no page had brought and that no page  *)
(* said were gone.                                                         *)
(***************************************************************************)
VARIABLE client
allVars == <<vars, client>>

NoClient == [session |-> None, phase |-> "OFF", cursor |-> 0, timeline |-> {}, gap |-> FALSE,
             snapshot |-> 0, from |-> 0, ended |-> FALSE, asks |-> {}, passed |-> {}]

\* timeline(after, limit): the last number a page has room for, and the entries it holds
PageEnd(e, after) == Max({after, e.oldest - 1}) + PageMax
PageAfter(e, after) == {n \in e.oldest..e.seq : after < n /\ n <= PageEnd(e, after)}
NewestPage(e) == {n \in e.oldest..e.seq : n > e.seq - PageMax}

OnlyClient(c, next) ==
    /\ client' = [client EXCEPT ![c] = next]
    /\ UNCHANGED <<closed, lock, creations, held, creators, stoppers, analysers, shutdown>>

\* open: another session is chosen
Choose(c, s) ==
    /\ client[c].phase = "OFF" /\ s \in held /\ Spend("views")
    /\ OnlyClient(c, [NoClient EXCEPT !.session = s, !.phase = "OPENING"])
    /\ UNCHANGED <<entries, subs>>

Gone(c) == [client[c] EXCEPT !.phase = "GONE"]

\* getLiveSession, for open and for resync: the authoritative snapshot, or 404
ReadSnapshot(c) ==
    /\ client[c].phase \in {"OPENING", "RESYNC"}
    /\ LET s == client[c].session
           e == Evaluated(entries[s])
       IN \/ /\ s \notin held
             /\ OnlyClient(c, Gone(c)) /\ UNCHANGED <<entries, subs>>
          \/ /\ s \in held /\ Update(s, e)
             /\ OnlyClient(c, [client[c] EXCEPT !.snapshot = e.seq,
                                 !.ended = Lifecycle(e) = "ENDED",
                                 !.phase = IF @ = "OPENING" THEN "FIRST_PAGE" ELSE "NEXT_PAGE"])
    /\ UNCHANGED budget

\* acceptSnapshot, with the entries and the gap of its page ({} and FALSE for none):
\* unless the snapshot is older than what is shown
Accept(state, snapshot, page, gap) ==
    IF snapshot < state.cursor THEN state
    ELSE LET shown == state.timeline \cup page
             hidden == IF gap THEN {} ELSE (state.cursor + 1 .. snapshot) \ shown
         IN [state EXCEPT !.cursor = snapshot, !.timeline = shown, !.gap = @ \/ gap,
                          !.passed = @ \cup hidden]

\* readLiveTimeline, then initialState or acceptSnapshot, then the stream if it still runs
ReadPage(c) ==
    /\ client[c].phase \in {"FIRST_PAGE", "NEXT_PAGE"}
    /\ LET s == client[c].session
           e == Evaluated(entries[s])
           onward == IF client[c].ended THEN "CLOSED" ELSE "CONNECTING"
       IN \/ /\ s \notin held
             /\ OnlyClient(c, Gone(c)) /\ UNCHANGED <<entries, subs>>
          \/ /\ s \in held /\ client[c].phase = "FIRST_PAGE" /\ Update(s, e)
             /\ OnlyClient(c, [client[c] EXCEPT !.cursor = client[c].snapshot,
                                 !.timeline = NewestPage(e), !.gap = e.oldest > 1,
                                 !.phase = onward])
          \/ /\ s \in held /\ client[c].phase = "NEXT_PAGE" /\ Update(s, e)
             /\ OnlyClient(c, [Accept(client[c], client[c].snapshot,
                                        PageAfter(e, client[c].from), client[c].from < e.oldest - 1)
                                 EXCEPT !.phase = onward, !.from = 0])
    /\ UNCHANGED budget

\* Mutant: a reader that comes after the end is not told of it.
CatchUpWithoutEnd(e, after) ==
    (IF after > e.seq \/ after < e.oldest - 1 \/ e.seq - after >= QueueSize - 1
     THEN <<Notice("RESYNC_REQUIRED", e.seq)>> ELSE Entries(after, e.seq))
    \o <<Notice("STATE", e.seq)>>

\* What subscribe pushes after the evaluation: missed entries or a demand to
\* resynchronise, then STATE, and END if the session is over.
CatchUp(e, after) ==
    (IF after > e.seq \/ after < e.oldest - 1 \/ e.seq - after >= QueueSize - 1
     THEN <<Notice("RESYNC_REQUIRED", e.seq)>> ELSE Entries(after, e.seq))
    \o <<Notice("STATE", e.seq)>>
    \o (IF Lifecycle(e) = "ENDED" THEN <<Notice("END", e.seq)>> ELSE <<>>)

Lost(c) == [client[c] EXCEPT !.phase = "LOST", !.from = 0]

NoQueue(s) == [session |-> s, items |-> <<>>, closed |-> FALSE]

\* subscribe: the reader is attached before the evaluation, which may push to it,
\* and is then brought up to the cursor
Subscribe(c) ==
    /\ client[c].phase = "CONNECTING"
    /\ LET s == client[c].session
           e == Evaluated(entries[s])
           full == Cardinality({d \in Clients : subs[d] # None /\ ~subs[d].closed})
                       >= MaxSubscribers
       IN \/ /\ s \notin held \/ full     \* refused: the page resynchronises later
             /\ OnlyClient(c, Lost(c))
             /\ UNCHANGED <<entries, subs>>
          \/ /\ s \in held /\ ~full
             /\ entries' = [entries EXCEPT ![s] = e]
             /\ subs' = [Told(s, e) EXCEPT ![c] =
                           Push(NoQueue(s), Entries(entries[s].seq, e.seq)
                                              \o CatchUp(e, client[c].snapshot))]
             /\ OnlyClient(c, [client[c] EXCEPT !.phase = "OPEN"])
    /\ UNCHANGED budget

\* resync begins with the cursor the page is at
Resync(state) == [state EXCEPT !.phase = "RESYNC", !.from = state.cursor]

\* the delay after a lost connection is over
ResyncLater(c) ==
    /\ client[c].phase = "LOST"
    /\ OnlyClient(c, Resync(client[c])) /\ UNCHANGED <<entries, subs, budget>>

\* applyEnvelope for the current session and stream
ApplyEnvelope(state, notice) ==
    CASE notice.kind = "TIMELINE" /\ notice.cursor = state.cursor + 1 ->
            [state EXCEPT !.cursor = notice.cursor, !.timeline = @ \cup {notice.cursor}]
      [] notice.kind = "TIMELINE" /\ notice.cursor > state.cursor + 1 ->
            Resync([state EXCEPT !.gap = TRUE])
      [] notice.kind = "STATE" -> [state EXCEPT !.cursor = Max({@, notice.cursor})]
      [] notice.kind = "RESYNC_REQUIRED" -> Resync([state EXCEPT !.gap = TRUE])
      [] notice.kind = "END" -> [state EXCEPT !.cursor = Max({@, notice.cursor}),
                                              !.phase = "CLOSED"]
      [] notice.kind = "HEARTBEAT" /\ notice.cursor > state.cursor ->
            Resync(state)
      [] OTHER -> state

\* A notice was read from the queue; a page that leaves its stream closes it, and the
\* response closes its subscriber.
SubsAfter(c, next) ==
    [d \in Clients |-> IF d # c THEN subs[d]
                      ELSE IF next.phase # "OPEN" THEN None
                      ELSE [subs[d] EXCEPT !.items = IF @ = <<>> THEN @ ELSE Tail(@)]]

\* the next notice of the queue
Deliver(c) ==
    /\ client[c].phase = "OPEN" /\ subs[c].items # <<>>
    /\ LET next == ApplyEnvelope(client[c], Head(subs[c].items))
       IN  /\ OnlyClient(c, next)
           /\ subs' = SubsAfter(c, next)
    /\ UNCHANGED <<entries, budget>>

\* frames, idle for the heartbeat interval: poll, deliver what it reveals, else HEARTBEAT
Heartbeat(c) ==
    /\ client[c].phase = "OPEN" /\ subs[c].items = <<>> /\ ~subs[c].closed
    /\ LET s == client[c].session
           e == Evaluated(entries[s])
           next == IF s \notin held THEN Lost(c)
                   ELSE ApplyEnvelope(client[c], Notice("HEARTBEAT", e.seq))
       IN \/ s \in held /\ e # entries[s] /\ Update(s, e) /\ OnlyClient(c, client[c])
          \/ /\ s \notin held \/ e = entries[s]
             /\ OnlyClient(c, next) /\ subs' = SubsAfter(c, next) /\ UNCHANGED entries
    /\ UNCHANGED budget

\* the connection breaks, and the response's finally closes the subscriber; or a read
\* of a resynchronisation fails
TransportLost(c) ==
    /\ client[c].phase \in {"OPEN", "RESYNC", "NEXT_PAGE"} /\ Spend("losses")
    /\ OnlyClient(c, Lost(c)) /\ subs' = SubsAfter(c, Lost(c))
    /\ UNCHANGED entries

\* loadOlder: the page before the oldest entry shown, from whichever entry the last
\* snapshot said was the oldest retained; merging it later adds the same entries
LoadOlder(c) ==
    /\ client[c].timeline # {} /\ client[c].session \in held
    /\ LET s == client[c].session
           e == Evaluated(entries[s])
           shown == Min(client[c].timeline)
       IN \E retained \in 1..e.oldest :
            /\ retained < shown
            /\ Update(s, e)
            /\ OnlyClient(c, [client[c] EXCEPT
                  !.timeline = @ \cup PageAfter(e, Max({retained, shown - PageMax}) - 1)])
    /\ UNCHANGED budget

ClientStep(c) ==
    \/ ReadSnapshot(c) \/ ReadPage(c) \/ Subscribe(c) \/ ResyncLater(c)
    \/ Deliver(c) \/ Heartbeat(c)

-----------------------------------------------------------------------------
(***************************************************************************)
(* What the page asks of its session, beside the stream.                   *)
(***************************************************************************)
\* activeRef is set
Shown(c) == client[c].phase \notin {"OFF", "OPENING", "FIRST_PAGE"}

Ask(kind, by) == [kind |-> kind, by |-> by, cursor |-> None]
Asked(c, ask) == client' = [client EXCEPT ![c].asks = @ \cup {ask}]

\* cancel
Cancel(c, h) ==
    /\ Shown(c) /\ StopAsk(h, client[c].session, "CANCEL")
    /\ Asked(c, Ask("CANCEL", h))

\* analyse: one request at a time
AskAnalysis(c, a) ==
    /\ Shown(c) /\ \A q \in client[c].asks : q.kind # "ANALYSIS"
    /\ AnalyseAsk(a, client[c].session)
    /\ Asked(c, Ask("ANALYSIS", a))

\* In this step the handler of an ask returns, and an analysis has a result.
Returns(ask) ==
    CASE ask.kind = "CANCEL" -> stoppers[ask.by].op # "IDLE" /\ stoppers'[ask.by].op = "IDLE"
      [] ask.kind = "ANALYSIS" ->
            analysers[ask.by].phase # "IDLE" /\ analysers'[ask.by].phase = "IDLE"
Served(ask) ==
    ask.kind = "ANALYSIS" =>
        LET a == analysers[ask.by]
        IN IF a.phase = "RUN" THEN entries'[a.session].cached = a.version
           ELSE Available(entries[a.session])

\* Each handler that returns answers with the session as it leaves it, or with an error.
Replied(x) ==
    LET now == {q \in x.asks : q.cursor = None /\ Returns(q)}
    IN [x EXCEPT !.asks = (@ \ now) \cup
                   {[q EXCEPT !.cursor = entries'[x.session].seq] : q \in {r \in now : Served(r)}}]
Replies == client' = [c \in Clients |-> Replied(client[c])]

\* The answer arrives: its session is accepted without a page; or it was lost on the way.
AcceptAnswer(c) ==
    /\ \E q \in client[c].asks :
        /\ q.cursor # None
        /\ \E next \in {client[c], Accept(client[c], q.cursor, {}, FALSE)} :
            OnlyClient(c, [next EXCEPT !.asks = @ \ {q}])
    /\ UNCHANGED <<entries, subs, budget>>

-----------------------------------------------------------------------------
Init ==
    /\ closed = FALSE /\ lock = None /\ creations = 0 /\ held = {}
    /\ entries = [s \in {} |-> NewEntry]
    /\ creators = [k \in Creators |-> "IDLE"]
    /\ stoppers = [h \in Stoppers |-> [op |-> "IDLE", session |-> None]]
    /\ analysers = [a \in Analysers |-> [phase |-> "IDLE", session |-> None, version |-> None]]
    /\ shutdown = [phase |-> "IDLE", sessions |-> {}]
    /\ subs = [c \in Clients |-> None]
    /\ budget \in Scenarios
    /\ client = [c \in Clients |-> NoClient]

Workspace ==
    \/ \E s \in Sessions : Offer(s) \/ Task(s) \/ Breaks(s) \/ Deadline(s) \/ GoesStale(s)
    \/ \E k \in Creators : CreateAsk(k) \/ CreateAdmit(k) \/ CreateOpened(k)
    \/ MinutePasses
    \/ \E h \in Stoppers : StopReturn(h)
    \/ \E h \in Stoppers, s \in Sessions, op \in {"CANCEL", "REMOVE"} : StopAsk(h, s, op)
    \/ ShutdownAsk \/ ShutdownCollect \/ ShutdownReturn
    \/ \E a \in Analysers : Analyse(a)
    \/ \E a \in Analysers, s \in Sessions : AnalyseAsk(a, s)

Next ==
    \/ Workspace /\ Replies
    \/ \E c \in Clients : ClientStep(c) \/ TransportLost(c) \/ LoadOlder(c) \/ AcceptAnswer(c)
    \/ \E c \in Clients, s \in Sessions : Choose(c, s)
    \/ \E c \in Clients, h \in Stoppers : Cancel(c, h)
    \/ \E c \in Clients, a \in Analysers : AskAnalysis(c, a)

Spec == Init /\ [][Next]_allVars

\* What the event loop resumes by itself: tasks, and handlers past an await.
Resumed ==
    \/ \E s \in Sessions : Task(s)
    \/ \E k \in Creators : CreateAdmit(k) \/ CreateOpened(k)
    \/ \E h \in Stoppers : StopReturn(h)
    \/ \E a \in Analysers : Analyse(a)
    \/ ShutdownCollect \/ ShutdownReturn

(***************************************************************************)
(* The event loop never idles while something can be resumed: sources open *)
(* or fail, analyses return, and the browser reads what arrives.  Nothing  *)
(* is assumed of users, of providers, or of the clock.                     *)
(***************************************************************************)
FairSpec ==
    /\ Spec
    /\ WF_allVars(Resumed /\ Replies)
    /\ WF_allVars(\E c \in Clients : ClientStep(c))

-----------------------------------------------------------------------------
(***************************************************************************)
(* Properties.                                                             *)
(***************************************************************************)
\* Every number from a shown entry to the client's cursor is among these.
Spans(state, numbers) ==
    \A first \in state.timeline : \A n \in first..state.cursor : n \in numbers

\* A client that does not say its timeline is missing entries shows every entry
\* from its first one to its cursor (timelineGap, "True when the client knows its
\* timeline is missing entries"), over losses, overflows and resynchronisations.
GapIsKnown == \A c \in Clients : client[c].gap \/ Spans(client[c], client[c].timeline)

\* An entry that a client misses without saying so is one that an accepted snapshot
\* went past: the page read with it ended earlier, or it answered a cancellation or
\* an analysis and brought no page.  No loss of the connection, overflow of a queue,
\* trimmed timeline or order of notices, answers and pages hides any other entry.
OnlySnapshotsHide ==
    \A c \in Clients :
        client[c].gap \/ Spans(client[c], client[c].timeline \cup client[c].passed)

\* An older analysis never replaces a newer one, whatever the order in which
\* analyses of one session are asked for and finish (analyse, confirmed_analysis).
CacheNeverGoesBack ==
    [][\A s \in DOMAIN entries :
        entries[s].cached # None => entries'[s].cached >= entries[s].cached]_allVars

\* Once shutdown begins, every session ends, every task ends, and no creation in
\* flight ever starts another (shutdown, _refuse_if_closed).
ShutdownLeavesNothing ==
    closed ~> [](\A s \in DOMAIN entries : entries[s].task = "DONE" /\ entries[s].origin # None)

\* A client watching a session that ended learns of it, however many notices,
\* connections and snapshots it loses on the way.
ClientLearnsOfTheEnd ==
    \A c \in Clients, s \in Sessions :
        (/\ client[c].session = s /\ s \in DOMAIN entries
         /\ entries[s].origin # None) ~> (client[c].phase \in {"CLOSED", "GONE"})
=============================================================================
