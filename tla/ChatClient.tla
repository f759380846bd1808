----------------------------- MODULE ChatClient -----------------------------
(***************************************************************************)
(* The web client of one thread over the event log: ChatShell.vue and      *)
(* events/index.ts, with the two endpoints it reads, stream_events and     *)
(* _conversation_snapshot.                                                 *)
(*                                                                         *)
(* A page shows cards, by revision.  It is filled by a snapshot when it is *)
(* loaded or refreshed, and from then on by the event stream of the active *)
(* run, which it resumes from a cursor.  The cursor and the active run are *)
(* kept in sessionStorage and survive a reload; the page does not.         *)
(*                                                                         *)
(* The cursor can pass events the page lacks, in two ways: a run is joined *)
(* with the cursor of the run before, or an event moves the cursor and is  *)
(* then overwritten by a snapshot that was read before it.  gap and        *)
(* fetch.late only record that this happened; nothing depends on them.     *)
(***************************************************************************)
EXTENDS EventLog

VARIABLES
  active,   \* the run whose events the page streams
  posted,   \* the run of a message whose response is under way
  view,     \* the revision that is shown of each card, 0 for none
  seen,     \* lastSequenceByRun
  cursor,   \* of the page and of sessionStorage, 0 for ""
  stream,   \* ReconnectingEventStream
  fetch,    \* a recovery under way
  restored, \* the page was filled by a snapshot since it was loaded
  gap       \* history: how the cursor has passed events the page lacks

clientVars ==
  <<active, posted, view, seen, cursor, stream, fetch, restored, gap>>
vars == <<serverVars, clientVars>>

View == [Cards -> Versions]
EmptyView == [c \in Cards |-> 0]

Stream ==
  [ state : {"off", "waiting", "open"}, run : Runs \cup {None},
    at    : Nat,   \* its own cursor
    upto  : Nat ]  \* the last event the server sends on this connection
Gaps == {"none", "overtaken", "joined"}
Fetch ==
  [ phase : {"none", "sent", "read", "ready"}, cards : View,
    late  : Gaps ] \* history: the gap the page will have once it is shown

NoStream == [state |-> "off", run |-> None, at |-> 0, upto |-> 0]
NoFetch == [phase |-> "none", cards |-> EmptyView, late |-> "none"]

TypeOK ==
  /\ ServerTypeOK
  /\ active \in Runs \cup {None}
  /\ posted \in Runs \cup {None}
  /\ view \in View
  /\ seen \in [Runs -> Nat]
  /\ cursor \in Nat
  /\ stream \in Stream
  /\ fetch \in Fetch
  /\ restored \in BOOLEAN
  /\ gap \in Gaps

\* A page that is loaded asks for a snapshot at once.
Asked == [phase |-> "sent", cards |-> EmptyView, late |-> "none"]

Init ==
  /\ ServerInit
  /\ active = None
  /\ posted = None
  /\ view = EmptyView
  /\ seen = [r \in Runs |-> 0]
  /\ cursor = 0
  /\ stream = NoStream
  /\ fetch = Asked
  /\ restored = FALSE
  /\ gap = "none"

\* Variant of Newer: the card that comes in replaces the card there is.
Incoming(a, b) == IF b > 0 THEN b ELSE a

\* mergeCards: of two revisions of one card the newer one stays.
Newer(a, b) == IF b > a THEN b ELSE a
Merged(v, w) == [c \in Cards |-> Newer(v[c], w[c])]

\* connectEvents: a new stream of a run, from the cursor of the page.
Connected(r) ==
  IF r = None THEN NoStream
  ELSE [state |-> "waiting", run |-> r, at |-> cursor, upto |-> 0]

\* The server has read what the page will show, but the page has not got it.
Overwritten == fetch.phase \in {"read", "ready"}
Late(g) == IF Overwritten THEN [fetch EXCEPT !.late = g] ELSE fetch

-----------------------------------------------------------------------------
(* Messages.                                                               *)

\* sendMessage: the request, and the server's start of a run.
Post(r) ==
  /\ posted = None
  /\ StartRun(r)
  /\ posted' = r
  /\ UNCHANGED <<active, view, seen, cursor, stream, fetch, restored, gap>>

\* sendMessage: the response makes the run the active one.  The cursor, which
\* was reached in the run before, is kept.
Join ==
  /\ posted # None
  /\ active' = posted
  /\ posted' = None
  /\ stream' = Connected(posted)
  /\ IF cursor = 0 THEN UNCHANGED <<gap, fetch>>
                   ELSE gap' = "joined" /\ fetch' = Late("joined")
  /\ UNCHANGED <<serverVars, view, seen, cursor, restored>>

\* sendMessage fails: the run, if there is one, stays unknown to the page.
PostFails ==
  /\ posted # None
  /\ posted' = None
  /\ UNCHANGED <<serverVars, active, view, seen, cursor, stream, fetch,
                 restored, gap>>

\* updateCard: a card in the response to a click, as it was when the server
\* answered.
Update(c) ==
  /\ \E n \in 1..version[c] : view' = [view EXCEPT ![c] = Newer(@, n)]
  /\ UNCHANGED <<serverVars, active, posted, seen, cursor, stream, fetch,
                 restored, gap>>

-----------------------------------------------------------------------------
(* The stream.                                                             *)

\* stream_events replays what there is after the cursor and ends.
Open ==
  /\ stream.state = "waiting"
  /\ stream' = [stream EXCEPT !.state = "open", !.upto = LastSequence(stream.run)]
  /\ UNCHANGED <<serverVars, active, posted, view, seen, cursor, fetch,
                 restored, gap>>

\* Variant of IsNew: the first event of a run only.
IsNewOnce(e) == seen[e.run] = 0

\* reduceRunEvent drops an event that is not newer than the last of its run.
IsNew(e) == e.sequence > seen[e.run]

\* handleMessage and onEvent.  An event that arrives while a snapshot is on
\* its way moves the cursor, and Restore overwrites what it showed.
Deliver ==
  /\ stream.state = "open"
  /\ \E e \in EventsOf(stream.run) :
       /\ e.sequence = stream.at + 1
       /\ e.sequence <= stream.upto
       /\ stream' = [stream EXCEPT !.at = e.sequence]
       /\ IF IsNew(e)
          THEN /\ cursor' = e.sequence
               /\ seen' = [seen EXCEPT ![e.run] = e.sequence]
               /\ view' = [view EXCEPT ![e.card] = Newer(@, e.revision)]
          ELSE UNCHANGED <<cursor, seen, view>>
  /\ fetch' = Late("overtaken")
  /\ UNCHANGED <<serverVars, active, posted, restored, gap>>

\* The server has sent everything and ends the response, or the connection
\* breaks: onerror, and a timer for the next attempt.
Disconnect ==
  /\ stream.state = "open"
  /\ stream' = [stream EXCEPT !.state = "waiting", !.upto = 0]
  /\ UNCHANGED <<serverVars, active, posted, view, seen, cursor, fetch,
                 restored, gap>>

-----------------------------------------------------------------------------
(* Recovery.                                                               *)

\* The user loads the page again.
Reload ==
  /\ view' = EmptyView
  /\ seen' = [r \in Runs |-> 0]
  /\ stream' = NoStream
  /\ posted' = None
  /\ fetch' = Asked
  /\ restored' = FALSE
  /\ UNCHANGED <<serverVars, active, cursor, gap>>

\* recover() on a button or a card that asks for it; a recovery that was
\* under way is aborted, the stream is not.
Refresh ==
  /\ fetch' = Asked
  /\ UNCHANGED <<serverVars, active, posted, view, seen, cursor, stream,
                 restored, gap>>

Announced(c) ==
  Max({0} \cup {e.revision : e \in {f \in log : f.card = c}})

\* The cursor is beyond the last event of the run, so it is another run's.
Passed == active # None /\ LastSequence(active) < cursor

\* _conversation_snapshot, first query: the newest card of all events of the
\* thread.
SnapshotEvents ==
  /\ fetch.phase = "sent"
  /\ fetch' = [ phase |-> "read", cards |-> [c \in Cards |-> Announced(c)],
                late |-> IF Passed THEN "joined" ELSE "none" ]
  /\ UNCHANGED <<serverVars, active, posted, view, seen, cursor, stream,
                 restored, gap>>

Pending(c) == IF c \notin Notices /\ version[c] = 1 THEN 1 ELSE 0
Latest(c) == IF saved[c] = <<>> THEN 0 ELSE Last(saved[c])

\* _conversation_snapshot, then: pending interactions and the resources.
SnapshotRest ==
  /\ fetch.phase = "read"
  /\ fetch' =
       [ fetch EXCEPT !.phase = "ready",
         !.cards = Merged(@, [c \in Cards |-> Newer(Pending(c), Latest(c))]) ]
  /\ UNCHANGED <<serverVars, active, posted, view, seen, cursor, stream,
                 restored, gap>>

\* recover(): the snapshot replaces the page; its cursor is "", so the stored
\* one is kept, and the stream is connected anew.
Restore ==
  /\ fetch.phase = "ready"
  /\ view' = fetch.cards
  /\ seen' = [r \in Runs |-> 0]
  /\ stream' = Connected(active)
  /\ fetch' = NoFetch
  /\ restored' = TRUE
  /\ gap' = fetch.late
  /\ UNCHANGED <<serverVars, active, posted, cursor>>

\* recover() fails: an error is shown, and the stream connected anew.
RecoverFails ==
  /\ fetch.phase # "none"
  /\ fetch' = NoFetch
  /\ stream' = Connected(active)
  /\ UNCHANGED <<serverVars, active, posted, view, seen, cursor, restored, gap>>

-----------------------------------------------------------------------------

Next ==
  \/ Publish /\ UNCHANGED clientVars
  \/ \E r \in Runs : Post(r)
  \/ Join \/ PostFails
  \/ \E c \in Cards : Update(c)
  \/ Open \/ Deliver \/ Disconnect
  \/ Reload \/ Refresh
  \/ SnapshotEvents \/ SnapshotRest \/ Restore \/ RecoverFails

Spec == Init /\ [][Next]_vars

\* A page that waits for its next attempt makes it, and of connections that
\* are opened again and again not every one breaks before its first event.
Fairness == WF_vars(Open) /\ WF_vars(Disconnect) /\ SF_vars(Deliver)

FairSpec == Spec /\ Fairness

-----------------------------------------------------------------------------

\* Every event of the active run up to the cursor is shown.
Complete ==
  \A e \in log :
    (e.run = active /\ e.sequence <= cursor) => view[e.card] >= e.revision

\* The cursor gets ahead of the page in those two ways only: otherwise what
\* the stream will not send again is shown, through lost connections, reloads,
\* refreshes and cards that are announced in the wrong order ("the client
\* replays the active run ...; the revision of the card removes duplicates",
\* _conversation_snapshot).
NothingSkipped == restored /\ gap = "none" => Complete

\* "The cursor of another run is not used for this one"
\* (_conversation_snapshot): a page that no event overtook shows the events of
\* its run up to the cursor, a run that was joined later included.
JoinsWhole == restored /\ gap # "overtaken" => Complete

\* A card that was announced in the active run gets onto the page, unless
\* the user refreshes for ever, loads a page that cannot be restored or is
\* left with a gap.
EventShown ==
  <>[](fetch = NoFetch /\ gap = "none") =>
    \A c \in Cards, v \in Revisions :
      (Announced(c) >= v /\ RunOf[c] = active) ~>
        (view[c] >= v \/ active # RunOf[c] \/ ~restored)
=============================================================================
