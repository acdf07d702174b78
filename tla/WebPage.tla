------------------------------ MODULE WebPage ------------------------------
(***************************************************************************)
(* The memory console (api/static/app.js): one page, the requests it has   *)
(* sent and the API they reach.                                            *)
(*                                                                         *)
(* A page runs one synchronous stretch of JavaScript at a time, so an      *)
(* action is a stretch up to its await.  A request may fail or time out    *)
(* before or after the API has done what it asks; an aborted request may   *)
(* still be served.  The abort is seen by the aborted call in a stretch of *)
(* its own, which the browser runs before it turns to anything else.       *)
(*                                                                         *)
(* A form holds a draft: a number no other content has had, or None when   *)
(* it is blank.  The API is what the page relies on: it does what a key    *)
(* asks once, and a correction only on the revision it names.              *)
(***************************************************************************)
EXTENDS Naturals, Sequences

CONSTANTS
    Scopes,       \* tenant and subject pairs the user may enter
    Records,      \* preferences of a scope
    Kinds,        \* the two verdicts a card offers
    MaxRequests,  \* bound: requests sent
    MaxDrafts,    \* bound: drafts typed
    MaxReloads,   \* bound: reloads of the page
    None

Steps == {"write", "view", "recall", "outcome"}

Ids == 1..MaxRequests

\* A request channel; the three singletons, one per record, one per card.
Channels == ({"memories", "write", "recall", "history"} \X {None} \X {None})
            \cup ({"correction"} \X Records \X {None})
            \cup ({"outcome"} \X Records \X Ids)

Memories == <<"memories", None, None>>
Write == <<"write", None, None>>
Recall == <<"recall", None, None>>
History == <<"history", None, None>>
Correction(m) == <<"correction", m, None>>
Card(m, trace) == <<"outcome", m, trace>>

\* The button and list a channel keeps busy: corrections share one button.
Control(c) == IF c[1] = "correction" THEN Correction(None) ELSE c

\* What a request carries: record, draft, base revision of a correction, kind.
Body == [record : Records \cup {None}, draft : 0..MaxDrafts, base : 0..MaxRequests,
         kind : Kinds \cup {None}]
NoBody == [record |-> None, draft |-> 0, base |-> 0, kind |-> None]

Versions == [Records -> 0..MaxRequests]

Request == [id : Ids, channel : Channels, scope : Scopes, generation : Nat, body : Body,
            key : 0..MaxRequests, page : {"open", "aborted", "gone"},
            reply : Versions \cup {None}]

ASSUME BoundAssumption == MaxRequests \in Nat \ {0} /\ MaxDrafts \in Nat /\ MaxReloads \in Nat
ASSUME NoneAssumption == None \notin Scopes \cup Records \cup Kinds \cup Versions

VARIABLES
    scope,       \* state.scope, kept in localStorage
    generation,  \* state.scopeGeneration
    view,        \* whether the memories view is active
    channels,    \* state.requestChannels: channel -> request id
    operations,  \* state.idempotencyOperations: channel -> [body, key]
    journey,     \* state.journey: the steps done
    busy,        \* controls that are disabled and marked busy
    form,        \* content of the memory form
    dialog,      \* correction dialog: None or the body it would send
    list,        \* memory library: None or [scope, versions]
    results,     \* recall results: None or [scope, trace, versions]
    history,     \* history dialog: None or [scope, record, version]
    stored,      \* stored[s]: the journey in localStorage
    requests,    \* requests sent
    sent,        \* number of requests sent
    drafted,     \* drafted[n]: the scope draft n was typed in
    reloads,     \* number of reloads
    versions,    \* versions[s][m]: revisions the API holds
    applied,     \* [channel, scope, body, key] of the commands the API has done
    recalled     \* scopes a recall was served in

page == <<scope, generation, view, channels, operations, journey, busy, form, dialog,
          list, results, history>>
server == <<versions, applied, recalled>>
bounds == <<drafted, reloads>>
vars == <<page, stored, requests, sent, bounds, server>>

\* How many drafts were typed: they are numbered in that order.
typed == Len(drafted)
-----------------------------------------------------------------------------
(* Requests.                                                               *)

With(map, x, value) == [y \in DOMAIN map \cup {x} |-> IF y = x THEN value ELSE map[y]]

Without(map, x) == [y \in DOMAIN map \ {x} |-> map[y]]

\* Faulty variant: a new request of a channel leaves the older one running.
AbortNone(rs, chs, c) == rs

\* The request registered for channel c is aborted.
AbortChannel(rs, chs, c) ==
    {IF c \in DOMAIN chs /\ q.id = chs[c] /\ q.page = "open"
     THEN [q EXCEPT !.page = "aborted"] ELSE q : q \in rs}

AbortAll(rs) == {IF q.page = "open" THEN [q EXCEPT !.page = "aborted"] ELSE q : q \in rs}

NewRequest(c, s, g, body, key) ==
    [id |-> sent + 1, channel |-> c, scope |-> s, generation |-> g, body |-> body,
     key |-> key, page |-> "open", reply |-> None]

\* scopedApi up to its await, from the requests and channels it finds.
SendFrom(rs, chs, q) ==
    /\ sent < MaxRequests
    /\ sent' = sent + 1
    /\ requests' = AbortChannel(rs, chs, q.channel) \cup {q}
    /\ channels' = With(chs, q.channel, q.id)

Send(c, body, key) == SendFrom(requests, channels, NewRequest(c, scope, generation, body, key))

LoadFrom(rs, chs, s, g) == SendFrom(rs, chs, NewRequest(Memories, s, g, NoBody, 0))

\* Faulty variant: every submission gets a key of its own.
FreshKey(c, body) == sent + 1

\* The key of an operation is kept as long as its body is the same.
IdempotencyKeyFor(c, body) ==
    IF c \in DOMAIN operations /\ operations[c].body = body THEN operations[c].key ELSE sent + 1

SubmitCommand(c, body) ==
    LET key == IdempotencyKeyFor(c, body)
    IN  /\ Send(c, body, key)
        /\ operations' = With(operations, c, [body |-> body, key |-> key])

\* A request the page has done with matters as long as the API may act on it.
Left(q) == IF q.key # 0 /\ q.reply = None THEN {[q EXCEPT !.page = "gone"]} ELSE {}

Gone(q) == (requests \ {q}) \cup Left(q)

\* Faulty variants: the channel is never released; an aborted request releases the
\* channel of the newer one.
ReleasedByNone(q) == channels

ReleasedByAny(q) == Without(channels, q.channel)

\* scopedApi's finally: the channel is released by the request that holds it.
ReleasedBy(q) ==
    IF q.channel \in DOMAIN channels /\ channels[q.channel] = q.id
    THEN Without(channels, q.channel) ELSE channels

\* A caller's finally: its control is freed unless a newer request holds the channel.
FreedBy(q) == IF q.channel \in DOMAIN ReleasedBy(q) THEN busy ELSE busy \ {Control(q.channel)}

\* updateJourney, which saves the journey under the scope.
UpdateJourney(steps) ==
    /\ journey' = steps
    /\ stored' = [stored EXCEPT ![scope] = steps]
-----------------------------------------------------------------------------
(* What the user does.                                                     *)

LoadMemories ==
    /\ LoadFrom(requests, channels, scope, generation)
    /\ busy' = busy \cup {Memories}

\* The refresh button, or the scope in use applied again.
Refresh ==
    /\ LoadMemories
    /\ UNCHANGED <<scope, generation, view, operations, journey, form, dialog, list, results,
                   history, stored, bounds, server>>

\* goToView("memories").
GoToMemories ==
    /\ view' = TRUE
    /\ IF "write" \in journey
       THEN UpdateJourney(journey \cup {"view"}) ELSE UNCHANGED <<journey, stored>>
    /\ LoadMemories
    /\ UNCHANGED <<scope, generation, operations, form, dialog, list, results, history,
                   bounds, server>>

\* goToView of another view.
LeaveMemories ==
    /\ view
    /\ view' = FALSE
    /\ UNCHANGED <<scope, generation, channels, operations, journey, busy, form, dialog, list,
                   results, history, stored, requests, sent, bounds, server>>

Type ==
    /\ typed < MaxDrafts
    /\ drafted' = Append(drafted, scope)
    /\ \E m \in Records : form' = [NoBody EXCEPT !.record = m, !.draft = typed + 1]
    /\ UNCHANGED <<scope, generation, view, channels, operations, journey, busy, dialog, list,
                   results, history, stored, requests, sent, reloads, server>>

SubmitMemory ==
    /\ form # None /\ Write \notin busy
    /\ busy' = busy \cup {Write}
    /\ SubmitCommand(Write, form)
    /\ UNCHANGED <<scope, generation, view, journey, form, dialog, list, results, history,
                   stored, bounds, server>>

SubmitRecall ==
    /\ Recall \notin busy
    /\ busy' = busy \cup {Recall}
    /\ Send(Recall, NoBody, 0)
    /\ UNCHANGED <<scope, generation, view, operations, journey, form, dialog, list, results,
                   history, stored, bounds, server>>

\* The revisions of a memory that the page shows, in the library or on a card.
Shown(m) == {s.versions[m] : s \in {list, results} \ {None}} \ {0}

\* A verdict on a card of the results shown.
RecordOutcome(m, kind) ==
    /\ results # None /\ results.versions[m] > 0
    /\ Card(m, results.trace) \notin busy
    /\ busy' = busy \cup {Card(m, results.trace)}
    /\ SubmitCommand(Card(m, results.trace), [NoBody EXCEPT !.record = m, !.kind = kind])
    /\ UNCHANGED <<scope, generation, view, journey, form, dialog, list, results, history,
                   stored, bounds, server>>

\* The history of a memory shown; the dialog says that it is loading.
OpenHistory(m) ==
    /\ Shown(m) # {}
    /\ history' = [scope |-> scope, record |-> m, version |-> 0]
    /\ Send(History, [NoBody EXCEPT !.record = m], 0)
    /\ UNCHANGED <<scope, generation, view, operations, journey, busy, form, dialog, list,
                   results, stored, bounds, server>>

\* A new correction of a revision shown, and what the user types into it.
OpenCorrection(m) ==
    /\ typed < MaxDrafts
    /\ drafted' = Append(drafted, scope)
    /\ operations' = Without(operations, Correction(m))
    /\ \E base \in Shown(m) :
         dialog' = [NoBody EXCEPT !.record = m, !.draft = typed + 1, !.base = base]
    /\ UNCHANGED <<scope, generation, view, channels, journey, busy, form, list, results,
                   history, stored, requests, sent, reloads, server>>

SubmitCorrection ==
    /\ dialog # None /\ Correction(None) \notin busy
    /\ busy' = busy \cup {Correction(None)}
    /\ SubmitCommand(Correction(dialog.record), dialog)
    /\ UNCHANGED <<scope, generation, view, journey, form, dialog, list, results, history,
                   stored, bounds, server>>

\* Faulty variant: the correction dialog of the old scope stays open.
BlankButDialog ==
    /\ operations' = << >>
    /\ busy' = {Memories}
    /\ form' = None /\ dialog' = dialog
    /\ list' = None /\ results' = None /\ history' = None

\* resetScopedViewState: everything the page shows of a scope is cleared.
Blank ==
    /\ operations' = << >>
    /\ busy' = {Memories}
    /\ form' = None /\ dialog' = None
    /\ list' = None /\ results' = None /\ history' = None

\* Faulty variant: the requests of the old scope go on.
ApplyScopeAlone(s) ==
    /\ s # scope
    /\ scope' = s
    /\ journey' = stored[s]
    /\ Blank
    /\ LoadFrom(requests, channels, s, generation)
    /\ UNCHANGED <<generation, view, stored, bounds, server>>

\* Another scope: requests are cancelled, the page is reset and the list is read.
ApplyScope(s) ==
    /\ s # scope
    /\ scope' = s
    /\ generation' = generation + 1
    /\ journey' = stored[s]
    /\ Blank
    /\ LoadFrom(AbortAll(requests), << >>, s, generation + 1)
    /\ UNCHANGED <<view, stored, bounds, server>>

\* The browser reloads the page: localStorage stays.
Reload ==
    /\ reloads < MaxReloads
    /\ reloads' = reloads + 1
    /\ generation' = 0
    /\ view' = FALSE
    /\ journey' = stored[scope]
    /\ Blank
    /\ LoadFrom(UNION {Left(q) : q \in requests}, << >>, scope, 0)
    /\ UNCHANGED <<scope, stored, drafted, server>>
-----------------------------------------------------------------------------
(* The API.                                                                *)

Done(q) == \E a \in applied : a.scope = q.scope /\ a.key = q.key

Entry(q) == [channel |-> q.channel, scope |-> q.scope, body |-> q.body, key |-> q.key]

Replied(q, reply) ==
    requests' = (requests \ {q})
                \cup (IF q.page = "gone" THEN {} ELSE {[q EXCEPT !.reply = reply]})

ServeRead(q) ==
    /\ q.channel[1] \in {"memories", "history", "recall"}
    /\ Replied(q, versions[q.scope])
    /\ recalled' = IF q.channel = Recall THEN recalled \cup {q.scope} ELSE recalled
    /\ UNCHANGED <<versions, applied>>

ServeReplay(q) ==
    /\ q.key # 0 /\ Done(q)
    /\ Replied(q, versions[q.scope])
    /\ UNCHANGED server

Stale(q) ==
    q.channel[1] = "correction" /\ q.body.base # versions[q.scope][q.body.record]

\* remember, correct or record_outcome; a correction of a revision that was
\* replaced is refused, which to the page is a failure like others.
ServeCommand(q) ==
    /\ q.key # 0 /\ ~Done(q) /\ ~Stale(q)
    /\ applied' = applied \cup {Entry(q)}
    /\ versions' = IF q.channel[1] = "outcome" THEN versions
                   ELSE [versions EXCEPT ![q.scope][q.body.record] = @ + 1]
    /\ Replied(q, versions'[q.scope])
    /\ UNCHANGED recalled

Serve(q) ==
    /\ q.reply = None
    /\ ServeRead(q) \/ ServeReplay(q) \/ ServeCommand(q)
    /\ UNCHANGED <<page, stored, sent, bounds>>
-----------------------------------------------------------------------------
(* What happens to a request on the page.                                  *)

Fresh(q) == q.page = "open" /\ q.generation = generation

Answered(q) == Fresh(q) /\ q.reply # None

\* A response that is not for the caller any more: nothing but its finally.
Cancelled(q) ==
    /\ q.page # "gone" /\ ~Fresh(q)
    /\ requests' = Gone(q)
    /\ channels' = ReleasedBy(q)
    /\ busy' = IF q.channel[1] = "outcome" THEN busy ELSE FreedBy(q)
    /\ UNCHANGED <<scope, generation, view, operations, journey, form, dialog, list, results,
                   history, stored, sent, bounds, server>>

\* Faulty variant: the list stays busy when it cannot be read.
FailedBusy(q) ==
    /\ Fresh(q)
    /\ requests' = Gone(q)
    /\ channels' = ReleasedBy(q)
    /\ busy' = IF q.channel = Memories THEN busy ELSE FreedBy(q)
    /\ list' = IF q.channel = Memories THEN None ELSE list
    /\ history' = IF q.channel = History THEN None ELSE history
    /\ UNCHANGED <<scope, generation, view, operations, journey, form, dialog, results, stored,
                   sent, bounds, server>>

\* The request is refused, fails or times out, whatever the API has done.
Failed(q) ==
    /\ Fresh(q)
    /\ requests' = Gone(q)
    /\ channels' = ReleasedBy(q)
    /\ busy' = FreedBy(q)
    /\ list' = IF q.channel = Memories THEN None ELSE list
    /\ history' = IF q.channel = History THEN None ELSE history
    /\ UNCHANGED <<scope, generation, view, operations, journey, form, dialog, results, stored,
                   sent, bounds, server>>

\* The list is shown; an empty one starts the journey again.
ListRead(q) ==
    /\ Answered(q) /\ q.channel = Memories
    /\ requests' = Gone(q)
    /\ channels' = ReleasedBy(q)
    /\ busy' = FreedBy(q)
    /\ list' = [scope |-> q.scope, versions |-> q.reply]
    /\ UpdateJourney(IF \A m \in Records : q.reply[m] = 0 THEN {}
                     ELSE journey \cup {"write"} \cup (IF view THEN {"view"} ELSE {}))
    /\ UNCHANGED <<scope, generation, view, operations, form, dialog, results, history, sent,
                   bounds, server>>

\* A preference was saved or corrected; the list is read again.
Saved(q) ==
    /\ Answered(q) /\ q.channel[1] \in {"write", "correction"}
    /\ LoadFrom(Gone(q), ReleasedBy(q), scope, generation)
    /\ busy' = FreedBy(q) \cup {Memories}
    /\ UpdateJourney(journey \cup {"write"})
    /\ dialog' = IF q.channel[1] = "correction" THEN None ELSE dialog
    /\ UNCHANGED <<scope, generation, view, operations, form, list, results, history, bounds,
                   server>>

RecallRead(q) ==
    /\ Answered(q) /\ q.channel = Recall
    /\ requests' = Gone(q)
    /\ channels' = ReleasedBy(q)
    /\ busy' = FreedBy(q)
    /\ results' = [scope |-> q.scope, trace |-> q.id, versions |-> q.reply]
    /\ UpdateJourney(journey \cup {"recall"})
    /\ UNCHANGED <<scope, generation, view, operations, form, dialog, list, history, sent,
                   bounds, server>>

\* The verdict is recorded; the buttons of its card stay disabled.
OutcomeSaved(q) ==
    /\ Answered(q) /\ q.channel[1] = "outcome"
    /\ requests' = Gone(q)
    /\ channels' = ReleasedBy(q)
    /\ UpdateJourney(journey \cup {"outcome"})
    /\ UNCHANGED <<scope, generation, view, operations, busy, form, dialog, list, results,
                   history, sent, bounds, server>>

HistoryRead(q) ==
    /\ Answered(q) /\ q.channel = History
    /\ requests' = Gone(q)
    /\ channels' = ReleasedBy(q)
    /\ history' = [scope |-> q.scope, record |-> q.body.record,
                   version |-> q.reply[q.body.record]]
    /\ UNCHANGED <<scope, generation, view, operations, journey, busy, form, dialog, list,
                   results, stored, sent, bounds, server>>
-----------------------------------------------------------------------------

Init ==
    /\ scope \in Scopes
    /\ generation = 0
    /\ view = FALSE
    /\ requests = {[id |-> 1, channel |-> Memories, scope |-> scope, generation |-> 0,
                    body |-> NoBody, key |-> 0, page |-> "open", reply |-> None]}
    /\ channels = [c \in {Memories} |-> 1]
    /\ busy = {Memories}
    /\ operations = << >>
    /\ form = None /\ dialog = None
    /\ list = None /\ results = None /\ history = None
    /\ journey = {}
    /\ stored = [s \in Scopes |-> {}]
    /\ sent = 1 /\ drafted = << >> /\ reloads = 0
    /\ versions = [s \in Scopes |-> [m \in Records |-> 0]]
    /\ applied = {}
    /\ recalled = {}

\* An abort rejects what the aborted call awaits, and rejections are handled before
\* the next event of the user, the network or a timer.
Quiet == \A q \in requests : q.page # "aborted"

User ==
    \/ Refresh \/ GoToMemories \/ LeaveMemories \/ Type \/ SubmitMemory \/ SubmitRecall
    \/ \E m \in Records : \/ \E kind \in Kinds : RecordOutcome(m, kind)
                          \/ OpenHistory(m)
                          \/ OpenCorrection(m)
    \/ SubmitCorrection
    \/ \E s \in Scopes : ApplyScope(s)
    \/ Reload

Settle(q) ==
    \/ Cancelled(q)
    \/ Quiet /\ (\/ Failed(q) \/ ListRead(q) \/ Saved(q)
                 \/ RecallRead(q) \/ OutcomeSaved(q) \/ HistoryRead(q))

Next == (Quiet /\ User) \/ \E q \in requests : Serve(q) \/ Settle(q)

Spec == Init /\ [][Next]_vars

\* Every request ends: the page has a timer for it.
FairSpec == Spec /\ \A i \in Ids : WF_vars(\E q \in requests : q.id = i /\ Settle(q))
-----------------------------------------------------------------------------
(* Type invariant: tables, forms and requests hold what their declarations *)
(* say, and a channel names a request of its own.                          *)
TypeOK ==
    /\ scope \in Scopes /\ generation \in Nat /\ view \in BOOLEAN
    /\ journey \subseteq Steps /\ stored \in [Scopes -> SUBSET Steps]
    /\ busy \subseteq {Control(c) : c \in Channels}
    /\ \A c \in DOMAIN operations :
         c \in Channels /\ operations[c] \in [body : Body, key : Ids]
    /\ form \in Body \cup {None} /\ dialog \in Body \cup {None}
    /\ requests \subseteq Request /\ sent \in 0..MaxRequests
    /\ drafted \in Seq(Scopes) /\ typed <= MaxDrafts /\ reloads \in 0..MaxReloads
    /\ versions \in [Scopes -> Versions] /\ recalled \subseteq Scopes
    /\ applied \subseteq [channel : Channels, scope : Scopes, body : Body, key : Ids]
    /\ \A c \in DOMAIN channels :
         \E q \in requests : q.id = channels[c] /\ q.channel = c /\ q.page = "open"

(* What the page shows is of the scope the user is in: no answer to a      *)
(* request of an earlier scope is rendered.  What a form or a dialog holds *)
(* and would send was typed in that scope, and whatever the API records,   *)
(* late or again, it records in the scope it was typed in.                 *)
ShownIsOfScope ==
    /\ list # None => list.scope = scope
    /\ results # None => results.scope = scope
    /\ history # None => history.scope = scope
    /\ \A content \in {form, dialog} \ {None} : drafted[content.draft] = scope
    /\ \A a \in applied : a.body.draft # 0 => drafted[a.body.draft] = a.scope

(* The journey kept for a scope names steps taken in that scope: something *)
(* is recorded there, a recall was served, an outcome was recorded.        *)
JourneyIsEarned ==
    \A s \in Scopes :
        /\ "write" \in stored[s] => \E m \in Records : versions[s][m] > 0
        /\ "view" \in stored[s] => "write" \in stored[s]
        /\ "recall" \in stored[s] => s \in recalled
        /\ "outcome" \in stored[s] => \E a \in applied : a.scope = s /\ a.channel[1] = "outcome"

(* What the user typed once is recorded once, however often a submission   *)
(* that failed or timed out is repeated.                                   *)
RecordedOnce ==
    \A a, b \in applied : a.body.draft # 0 /\ a.body.draft = b.body.draft => a = b

(* A form button or the list is busy exactly while a request it has sent    *)
(* is open: none is left disabled, and none can be pressed twice.  A card  *)
(* is busy as long, and stays so only when its verdict is recorded.        *)
BusyWhileAsked ==
    LET open == {q.channel : q \in {r \in requests : r.page = "open"}}
    IN  /\ \A c \in {Memories, Write, Recall, Correction(None)} :
             c \in busy <=> \E d \in open : Control(d) = c
        /\ \A d \in open : d[1] = "outcome" => d \in busy
        /\ \A c \in busy : c[1] = "outcome" /\ c \notin open =>
             \E a \in applied : a.channel = c

(* What is shown is never replaced by an older answer: within a scope the  *)
(* versions of the list only grow, and the history dialog shows a chain    *)
(* only in answer to the memory opened last.                               *)
ShownNeverGoesBack ==
    [][/\ list # None /\ list' # None /\ list'.scope = list.scope =>
            \A m \in Records : list'.versions[m] >= list.versions[m]
       /\ history # None /\ history' # None /\ history' # history =>
            history'.version = 0 \/ (history'.record = history.record /\ history.version = 0)]_vars

(* A form button or the list that is busy is free again some time later:   *)
(* each request has a timer, and each ending of a call frees its control.  *)
ControlsReturn ==
    \A c \in {Memories, Write, Recall, Correction(None)} : c \in busy ~> c \notin busy

=============================================================================
