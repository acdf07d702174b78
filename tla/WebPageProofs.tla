--------------------------- MODULE WebPageProofs ---------------------------
(***************************************************************************)
(* Proofs about WebPage: what the page shows is of the scope it is in, its *)
(* journey is earned, a draft is recorded once, and a control is busy      *)
(* while its request is open, for any scopes, records and bounds.          *)
(***************************************************************************)
EXTENDS WebPage, FiniteSets, FiniteSetTheorems, TLAPS

-----------------------------------------------------------------------------
(* The inductive invariant.                                                *)

Commanding == {"write", "correction", "outcome"}

\* A request carries a key if it commands something, and a record if it is about one;
\* only commands outlive the page's interest in them.
Carries(q) ==
    /\ q.key # 0 <=> q.channel[1] \in Commanding
    /\ q.channel[1] \in Commanding \cup {"history"} => q.body.record \in Records
    /\ q.page = "gone" => q.key # 0 /\ q.reply = None

\* Requests rs and the channels chs they are registered in: the open ones are the
\* registered ones, and they were sent in this scope and generation.
NetOK(rs, chs, n, g, s) ==
    /\ rs \subseteq Request
    /\ \A q \in rs : q.id <= n /\ Carries(q)
    /\ \A q, r \in rs : q.id = r.id => q = r
    /\ \A c \in DOMAIN chs : \E q \in rs : q.id = chs[c] /\ q.channel = c /\ q.page = "open"
    /\ \A q \in rs : q.page = "open" =>
           /\ q.channel \in DOMAIN chs /\ chs[q.channel] = q.id
           /\ q.generation = g /\ q.scope = s

ShownOK ==
    /\ list \in [scope : Scopes, versions : Versions] \cup {None}
    /\ results \in [scope : Scopes, trace : Ids, versions : Versions] \cup {None}
    /\ history \in [scope : Scopes, record : Records, version : 0..MaxRequests] \cup {None}

\* Channels that share a control are not in use together.
Alone ==
    \A q, r \in requests :
        q.page # "gone" /\ r.page = "open" /\ Control(q.channel) = Control(r.channel)
            => q.channel = r.channel

\* BusyWhileAsked, for busy controls and channels in use.
BusyFor(controls, used) ==
    /\ \A c \in {Memories, Write, Recall, Correction(None)} :
         c \in controls <=> \E d \in used : Control(d) = c
    /\ \A d \in used : d[1] = "outcome" => d \in controls
    /\ \A c \in controls : c[1] = "outcome" /\ c \notin used =>
         \E a \in applied : a.channel = c

BusyOK == BusyFor(busy, DOMAIN channels)

\* Commands that were asked for, done, or would be asked for again.
Asked == {Entry(q) : q \in {r \in requests : r.key # 0}}

Pending == {[channel |-> c, scope |-> scope, body |-> operations[c].body,
             key |-> operations[c].key] : c \in DOMAIN operations}

Commands == Asked \cup applied \cup Pending

\* A key stands for one command, and so does a draft.
CommandsOK ==
    \A a, b \in Commands :
        /\ a.key \in 1..sent /\ a.body.draft \in 0..typed
        /\ a.key = b.key => a = b
        /\ a.body.draft # 0 /\ a.body.draft = b.body.draft => a = b

\* What a form would send is asked for only under the operation it would repeat.
OwnDraft(content, c) ==
    /\ content.record \in Records /\ content.draft \in 1..typed
    /\ \A a \in Commands : a.body.draft = content.draft =>
           a \in Pending /\ a.channel = c /\ a.body = content

FormsOK ==
    /\ form # None => OwnDraft(form, Write)
    /\ dialog # None => OwnDraft(dialog, Correction(dialog.record))
    /\ form # None /\ dialog # None => form.draft # dialog.draft

\* What the API has answered is true and stays true.
Truthful(q) ==
    q.reply # None =>
        /\ \A m \in Records : q.reply[m] <= versions[q.scope][m]
        /\ q.channel = Recall => q.scope \in recalled
        /\ q.key # 0 => Done(q)

Recording(s, m) ==
    {a \in applied : a.scope = s /\ a.channel[1] # "outcome" /\ a.body.record = m}

KeysRecording(s, m) == {a.key : a \in Recording(s, m)}

\* A revision counts the commands that made it, each of a key of its own.
ServerOK ==
    /\ \A q \in requests : Truthful(q)
    /\ \A a \in applied : a.channel[1] \in Commanding /\ a.body.record \in Records
    /\ \A s \in Scopes, m \in Records :
         versions[s][m] = Cardinality(KeysRecording(s, m))

JourneyOK == JourneyIsEarned /\ journey = stored[scope]

\* What is shown is no newer than the answer that may replace it.
ShownBefore ==
    /\ list # None => \A m \in Records : list.versions[m] <= versions[list.scope][m]
    /\ \A q \in requests : q.page = "open" =>
        /\ q.channel = Memories /\ q.reply # None /\ list # None =>
               \A m \in Records : list.versions[m] <= q.reply[m]
        /\ q.channel = History /\ history # None =>
               history.record = q.body.record /\ history.version = 0

\* A draft is asked for, repeated and recorded in the scope it was typed in.
DraftsOK ==
    /\ \A a \in Commands : a.body.draft # 0 => drafted[a.body.draft] = a.scope
    /\ form # None => drafted[form.draft] = scope
    /\ dialog # None => drafted[dialog.draft] = scope

Inv ==
    /\ TypeOK
    /\ NetOK(requests, channels, sent, generation, scope)
    /\ ShownOK /\ ShownIsOfScope
    /\ Alone /\ BusyOK
    /\ CommandsOK /\ FormsOK /\ DraftsOK
    /\ ServerOK
    /\ JourneyOK
    /\ ShownBefore

-----------------------------------------------------------------------------
(* What requests and channels become.                                      *)

\* r is request q some steps later.
Continues(q, r) ==
    /\ r.id = q.id /\ r.channel = q.channel /\ r.scope = q.scope
    /\ r.generation = q.generation /\ r.body = q.body /\ r.key = q.key
    /\ r.page = q.page \/ (q.page = "open" /\ r.page = "aborted") \/ r.page = "gone"

LEMMA ChannelKinds ==
    /\ \A c \in Channels :
           c[1] \in {"memories", "write", "recall", "history", "correction", "outcome"}
    /\ Memories \in Channels /\ Write \in Channels /\ Recall \in Channels
    /\ History \in Channels
    /\ Memories[1] = "memories" /\ Write[1] = "write" /\ Recall[1] = "recall"
    /\ History[1] = "history"
    /\ \A m \in Records : Correction(m) \in Channels /\ Correction(m)[1] = "correction"
    /\ \A m \in Records, t \in Ids : Card(m, t) \in Channels /\ Card(m, t)[1] = "outcome"
  BY DEF Channels, Memories, Write, Recall, History, Correction, Card

\* An aborted request.
LEMMA Aborted ==
    ASSUME NEW q \in Request
    PROVE  LET r == [q EXCEPT !.page = "aborted"]
           IN  /\ r \in Request /\ r.page = "aborted"
               /\ r.id = q.id /\ r.channel = q.channel /\ r.scope = q.scope
               /\ r.generation = q.generation /\ r.body = q.body /\ r.key = q.key
               /\ r.reply = q.reply
  BY DEF Request

LEMMA AbortEffect ==
    ASSUME NEW rs, NEW chs, NEW c, NEW n, NEW g, NEW s, NetOK(rs, chs, n, g, s)
    PROVE  /\ AbortChannel(rs, chs, c) \subseteq Request
           /\ \A r \in AbortChannel(rs, chs, c) : \E q \in rs :
                 /\ Continues(q, r) /\ r.reply = q.reply
                 /\ r.page = "open" => r = q /\ q.channel # c
                 /\ r.page # "open" => r.page = q.page \/ (q.channel = c /\ q.page = "open"
                                                        /\ r.page = "aborted")
           /\ \A q \in rs : q.page = "open" /\ q.channel # c => q \in AbortChannel(rs, chs, c)
<1> DEFINE Touched(q) == c \in DOMAIN chs /\ q.id = chs[c] /\ q.page = "open"
<1> DEFINE Image(q) == IF Touched(q) THEN [q EXCEPT !.page = "aborted"] ELSE q
<1>1. AbortChannel(rs, chs, c) = {Image(q) : q \in rs} BY DEF AbortChannel
<1>2. \A q \in rs : q \in Request BY DEF NetOK
<1>3. \A q \in rs : q.page = "open" => (Touched(q) <=> q.channel = c)
  BY DEF NetOK
<1>4. ASSUME NEW q \in rs
      PROVE  /\ Image(q) \in Request
             /\ Continues(q, Image(q)) /\ Image(q).reply = q.reply
             /\ Image(q).page = "open" => Image(q) = q /\ q.channel # c
             /\ Image(q).page # "open" =>
                   Image(q).page = q.page \/ (q.channel = c /\ q.page = "open"
                                              /\ Image(q).page = "aborted")
             /\ q.page = "open" /\ q.channel # c => Image(q) = q
  <2>1. CASE Touched(q)
    <3>1. Image(q) = [q EXCEPT !.page = "aborted"] BY <2>1
    <3> HIDE DEF Image
    <3> QED BY <1>2, <1>3, <2>1, <3>1, Aborted DEF Continues
  <2>2. CASE ~Touched(q)
    <3>1. Image(q) = q BY <2>2
    <3> HIDE DEF Image
    <3> QED BY <1>2, <1>3, <2>2, <3>1 DEF Continues
  <2> QED BY <2>1, <2>2
<1> HIDE DEF Image, Touched
<1> QED BY <1>1, <1>4

\* A request sent in channel c.
NewIn(q, n, g, s) ==
    /\ q \in Request /\ q.id = n + 1 /\ q.page = "open" /\ q.reply = None
    /\ q.generation = g /\ q.scope = s /\ Carries(q)

LEMMA SendKeepsNet ==
    ASSUME NEW rs, NEW chs, NEW n \in Nat, NEW g, NEW s, NetOK(rs, chs, n, g, s),
           NEW new, NewIn(new, n, g, s)
    PROVE  NetOK(AbortChannel(rs, chs, new.channel) \cup {new},
                 With(chs, new.channel, new.id), n + 1, g, s)
<1> DEFINE c == new.channel
           old == AbortChannel(rs, chs, c)
           later == With(chs, c, new.id)
<1>0. /\ DOMAIN later = DOMAIN chs \cup {c} /\ later[c] = new.id
      /\ \A d \in DOMAIN chs : d # c => later[d] = chs[d]
  BY DEF With
<1>1. /\ old \subseteq Request
      /\ \A r \in old : \E q \in rs :
                 /\ Continues(q, r) /\ r.reply = q.reply
                 /\ r.page = "open" => r = q /\ q.channel # c
                 /\ r.page # "open" => r.page = q.page \/ (q.channel = c /\ q.page = "open"
                                                        /\ r.page = "aborted")
      /\ \A q \in rs : q.page = "open" /\ q.channel # c => q \in old
  BY AbortEffect
<1>2. \A q \in rs : q.id \in Nat /\ q.id <= n BY DEF NetOK, Request, Ids
<1>3. \A r \in old : r.id \in Nat /\ r.id <= n /\ r.id # new.id
  BY <1>1, <1>2 DEF Continues, NewIn
<1> HIDE DEF c, old, later
<1>4. \A r \in old : Carries(r)
  BY <1>1 DEF Continues, Carries, NetOK
<1>5. \A q, r \in old : q.id = r.id => q = r
  <2> SUFFICES ASSUME NEW q \in old, NEW r \in old, q.id = r.id PROVE q = r OBVIOUS
  <2>1. PICK p \in rs : /\ Continues(p, q) /\ q.reply = p.reply
                        /\ q.page = "open" => q = p /\ p.channel # c
                        /\ q.page # "open" => q.page = p.page \/ (p.channel = c
                              /\ p.page = "open" /\ q.page = "aborted")
    BY <1>1
  <2>2. PICK o \in rs : /\ Continues(o, r) /\ r.reply = o.reply
                        /\ r.page = "open" => r = o /\ o.channel # c
                        /\ r.page # "open" => r.page = o.page \/ (o.channel = c
                              /\ o.page = "open" /\ r.page = "aborted")
    BY <1>1
  <2>0. \A a, b \in rs : a.id = b.id => a = b BY DEF NetOK
  <2>3. p = o BY ONLY <2>0, <2>1, <2>2, q.id = r.id DEF Continues
  <2>4. q.page = r.page BY <2>1, <2>2, <2>3
  <2>5. q \in Request /\ r \in Request BY <1>1
  <2> QED BY <2>1, <2>2, <2>3, <2>4, <2>5 DEF Request, Continues
<1>6. \A d \in DOMAIN later : \E q \in old \cup {new} :
          q.id = later[d] /\ q.channel = d /\ q.page = "open"
  <2> SUFFICES ASSUME NEW d \in DOMAIN later
               PROVE  \E q \in old \cup {new} :
                          q.id = later[d] /\ q.channel = d /\ q.page = "open"
    OBVIOUS
  <2>1. CASE d = c BY <1>0, <2>1 DEF NewIn, c
  <2>2. CASE d # c
    <3>1. d \in DOMAIN chs /\ later[d] = chs[d] BY <1>0, <2>2
    <3>2. PICK q \in rs : q.id = chs[d] /\ q.channel = d /\ q.page = "open"
      BY <3>1 DEF NetOK
    <3> QED BY <1>1, <2>2, <3>1, <3>2
  <2> QED BY <2>1, <2>2
<1>7. \A q \in old \cup {new} : q.page = "open" =>
          /\ q.channel \in DOMAIN later /\ later[q.channel] = q.id
          /\ q.generation = g /\ q.scope = s
  <2>1. \A q \in old : q.page = "open" => q \in rs /\ q.channel # c BY <1>1
  <2> QED BY <1>0, <2>1 DEF NewIn, NetOK, c
<1>8. NetOK(old \cup {new}, later, n + 1, g, s)
  <2>1. old \cup {new} \subseteq Request BY <1>1 DEF NewIn
  <2>2. \A q \in old \cup {new} : q.id <= n + 1 /\ Carries(q) BY <1>3, <1>4 DEF NewIn
  <2>3. \A q, r \in old \cup {new} : q.id = r.id => q = r BY <1>3, <1>5
  <2> QED BY <1>6, <1>7, <2>1, <2>2, <2>3 DEF NetOK
<1> QED BY <1>8 DEF old, later, c

\* The end of a call.
LEMMA EndKeepsNet ==
    ASSUME NEW q \in requests, NEW n, NEW g, NEW s, NetOK(requests, channels, n, g, s)
    PROVE  /\ NetOK(Gone(q), ReleasedBy(q), n, g, s)
           /\ \A r \in Gone(q) : \E p \in requests :
                 /\ Continues(p, r) /\ r.reply = p.reply
                 /\ r.page # "gone" => r = p /\ p # q
           /\ \A r \in requests : r # q => r \in Gone(q)
           /\ q.page = "open" => /\ DOMAIN ReleasedBy(q) = DOMAIN channels \ {q.channel}
                                 /\ q.channel \in DOMAIN channels
           /\ q.page # "open" => ReleasedBy(q) = channels
<1> DEFINE late == [q EXCEPT !.page = "gone"]
<1>1. /\ q \in Request
      /\ late \in Request /\ late.page = "gone" /\ Continues(q, late) /\ late.reply = q.reply
      /\ Carries(q)
  BY DEF NetOK, Request, Continues
<1>2. Left(q) = IF q.key # 0 /\ q.reply = None THEN {late} ELSE {} BY DEF Left
<1> HIDE DEF late
<1>3. \A r \in Gone(q) :
          (r \in requests /\ r # q) \/ (r = late /\ q.key # 0 /\ q.reply = None)
  BY <1>2 DEF Gone
<1>4. \A r \in requests : r # q => r \in Gone(q) BY DEF Gone
<1>5. \A a, b \in requests : a.id = b.id => a = b BY DEF NetOK
<1>6. \A a, b \in Gone(q) : a.id = b.id => a = b
  BY <1>1, <1>3, <1>5 DEF Continues
<1>7. Gone(q) \subseteq Request /\ \A r \in Gone(q) : r.id <= n /\ Carries(r)
  <2>1. ASSUME NEW r \in requests PROVE r \in Request /\ r.id <= n /\ Carries(r) BY DEF NetOK
  <2>2. q.key # 0 /\ q.reply = None => late.id <= n /\ Carries(late)
    BY <1>1, <2>1 DEF Continues, Carries
  <2> QED BY <1>1, <1>3, <2>1, <2>2
<1>8. q.page = "open" => q.channel \in DOMAIN channels /\ channels[q.channel] = q.id
  BY DEF NetOK
<1>9. q.page # "open" => ReleasedBy(q) = channels
  <2>1. q.channel \in DOMAIN channels /\ channels[q.channel] = q.id => q.page = "open"
    BY <1>5 DEF NetOK
  <2> QED BY <2>1 DEF ReleasedBy
<1>10. q.page = "open" => /\ DOMAIN ReleasedBy(q) = DOMAIN channels \ {q.channel}
                         /\ \A c \in DOMAIN channels \ {q.channel} :
                                ReleasedBy(q)[c] = channels[c]
  BY <1>8 DEF ReleasedBy, Without
<1>11. \A c \in DOMAIN ReleasedBy(q) : \E r \in Gone(q) :
           r.id = ReleasedBy(q)[c] /\ r.channel = c /\ r.page = "open"
  <2> SUFFICES ASSUME NEW c \in DOMAIN ReleasedBy(q)
               PROVE  \E r \in Gone(q) :
                          r.id = ReleasedBy(q)[c] /\ r.channel = c /\ r.page = "open"
    OBVIOUS
  <2>1. /\ c \in DOMAIN channels /\ ReleasedBy(q)[c] = channels[c]
        /\ q.page = "open" => c # q.channel
    BY <1>9, <1>10
  <2>2. PICK r \in requests : r.id = channels[c] /\ r.channel = c /\ r.page = "open"
    BY <2>1 DEF NetOK
  <2>3. r # q BY <2>1, <2>2
  <2> QED BY <1>4, <2>1, <2>2, <2>3
<1>12. \A r \in Gone(q) : r.page = "open" =>
           /\ r.channel \in DOMAIN ReleasedBy(q) /\ ReleasedBy(q)[r.channel] = r.id
           /\ r.generation = g /\ r.scope = s
  <2> SUFFICES ASSUME NEW r \in Gone(q), r.page = "open"
               PROVE  /\ r.channel \in DOMAIN ReleasedBy(q)
                      /\ ReleasedBy(q)[r.channel] = r.id
                      /\ r.generation = g /\ r.scope = s
    OBVIOUS
  <2>1. r \in requests /\ r # q BY <1>1, <1>3
  <2>2. /\ r.channel \in DOMAIN channels /\ channels[r.channel] = r.id
        /\ r.generation = g /\ r.scope = s
    BY <2>1 DEF NetOK
  <2>3. q.page = "open" => r.channel # q.channel BY <1>5, <1>8, <2>1, <2>2
  <2> QED BY <1>9, <1>10, <2>2, <2>3
<1>13. NetOK(Gone(q), ReleasedBy(q), n, g, s)
  BY <1>6, <1>7, <1>11, <1>12 DEF NetOK
<1>14. \A r \in Gone(q) : \E p \in requests :
           /\ Continues(p, r) /\ r.reply = p.reply
           /\ r.page # "gone" => r = p /\ p # q
  <2>1. \A p \in requests : Continues(p, p) BY DEF Continues
  <2> QED BY <1>1, <1>3, <2>1
<1> QED BY <1>4, <1>8, <1>9, <1>10, <1>13, <1>14

\* A change of scope, and a reload.
LEMMA LeaveKeepsNet ==
    ASSUME NEW n, NEW g, NEW s, NEW h, NEW t, NetOK(requests, channels, n, g, s)
    PROVE  LET aborted == AbortAll(requests)
               left == UNION {Left(q) : q \in requests}
           IN  /\ NetOK(aborted, << >>, n, h, t) /\ NetOK(left, << >>, n, h, t)
               /\ \A r \in aborted \cup left : \E q \in requests :
                      Continues(q, r) /\ r.reply = q.reply /\ r.page # "open"
<1> DEFINE Image(q) == IF q.page = "open" THEN [q EXCEPT !.page = "aborted"] ELSE q
           Late(q) == [q EXCEPT !.page = "gone"]
<1>1. /\ requests \subseteq Request /\ \A q \in requests : q.id <= n /\ Carries(q)
      /\ \A a, b \in requests : a.id = b.id => a = b
  BY DEF NetOK
<1>2. ASSUME NEW q \in requests
      PROVE  /\ Image(q) \in Request /\ Continues(q, Image(q)) /\ Image(q).reply = q.reply
             /\ Image(q).page # "open" /\ Carries(Image(q))
  <2>1. CASE q.page = "open"
    <3>1. Image(q) = [q EXCEPT !.page = "aborted"] BY <2>1
    <3> HIDE DEF Image
    <3> QED BY <1>1, <2>1, <3>1, Aborted DEF Continues, Carries
  <2>2. CASE q.page # "open" BY <1>1, <2>2 DEF Continues
  <2> QED BY <2>1, <2>2
<1>3. ASSUME NEW q \in requests, q.key # 0, q.reply = None
      PROVE  /\ Late(q) \in Request /\ Continues(q, Late(q)) /\ Late(q).reply = q.reply
             /\ Late(q).page = "gone" /\ Carries(Late(q))
  BY <1>1, <1>3 DEF Request, Continues, Carries
<1>4. AbortAll(requests) = {Image(q) : q \in requests} BY DEF AbortAll
<1>5. \A r : r \in UNION {Left(q) : q \in requests} <=>
          \E q \in requests : q.key # 0 /\ q.reply = None /\ r = Late(q)
  BY DEF Left
<1> HIDE DEF Image, Late
<1>6. ASSUME NEW rs, rs \subseteq Request, \A r \in rs : Carries(r) /\ r.page # "open" /\
             \E q \in requests : Continues(q, r), \A a, b \in rs : a.id = b.id => a = b
      PROVE  NetOK(rs, << >>, n, h, t)
  <2>1. \A r \in rs : r.id <= n BY <1>1, <1>6 DEF Continues
  <2> QED BY <1>6, <2>1 DEF NetOK
<1>7. NetOK(AbortAll(requests), << >>, n, h, t)
  <2>1. \A a, b \in AbortAll(requests) : a.id = b.id => a = b
    BY <1>1, <1>2, <1>4 DEF Continues
  <2> QED BY <1>2, <1>4, <1>6, <2>1
<1>8. NetOK(UNION {Left(q) : q \in requests}, << >>, n, h, t)
  <2> DEFINE left == UNION {Left(q) : q \in requests}
  <2>1. \A a, b \in left : a.id = b.id => a = b
    BY <1>1, <1>3, <1>5 DEF Continues
  <2>2. /\ left \subseteq Request
        /\ \A r \in left : Carries(r) /\ r.page # "open" /\ \E q \in requests : Continues(q, r)
    BY <1>3, <1>5
  <2> HIDE DEF left
  <2>3. NetOK(left, << >>, n, h, t) BY <1>6, <2>1, <2>2
  <2> QED BY <2>3 DEF left
<1>9. \A r \in AbortAll(requests) \cup UNION {Left(q) : q \in requests} : \E q \in requests :
          Continues(q, r) /\ r.reply = q.reply /\ r.page # "open"
  BY <1>2, <1>3, <1>4, <1>5
<1> QED BY <1>7, <1>8, <1>9

\* The history dialog says that it waits for what r asks for.
AsksFor(r) == history'.record = r.body.record /\ history'.version = 0

\* Every request after a step is a new one, an old one, or one the API answers.
Follows ==
    \A r \in requests' :
        \/ /\ r.id = sent + 1 /\ r.reply = None /\ r.page = "open"
           /\ r.key # 0 => Entry(r) \in Pending'
           /\ r.channel = History => AsksFor(r)
        \/ \E q \in requests :
              /\ Continues(q, r)
              /\ r.reply = q.reply \/ (Serve(q) /\ r.reply = versions'[q.scope])

NetStep == NetOK(requests, channels, sent, generation, scope)' /\ Follows

LEMMA StillFollows ==
    ASSUME \A r \in requests' : \E q \in requests : Continues(q, r) /\ r.reply = q.reply
    PROVE  Follows
  BY DEF Follows

LEMMA SendStep ==
    ASSUME sent \in Nat, NEW rs, NEW chs, NEW g, NEW s, NetOK(rs, chs, sent, g, s),
           \A r \in rs : \E q \in requests : Continues(q, r) /\ r.reply = q.reply,
           NEW new, NewIn(new, sent, g, s), SendFrom(rs, chs, new),
           generation' = g, scope' = s, new.key # 0 => Entry(new) \in Pending',
           new.channel = History => AsksFor(new)
    PROVE  NetStep
<1>1. /\ requests' = AbortChannel(rs, chs, new.channel) \cup {new}
      /\ channels' = With(chs, new.channel, new.id) /\ sent' = sent + 1
  BY DEF SendFrom
<1>2. NetOK(requests', channels', sent', generation', scope')
  BY <1>1, SendKeepsNet
<1>3. \A r \in AbortChannel(rs, chs, new.channel) : \E p \in rs :
          Continues(p, r) /\ r.reply = p.reply
  BY AbortEffect
<1>4. \A r \in AbortChannel(rs, chs, new.channel) : \E q \in requests :
          Continues(q, r) /\ r.reply = q.reply
  BY <1>3 DEF Continues
<1>5. Follows
  <2>1. new.id = sent + 1 /\ new.reply = None /\ new.page = "open" BY DEF NewIn
  <2> QED BY <1>1, <1>4, <2>1 DEF Follows
<1> QED BY <1>2, <1>5 DEF NetStep

LEMMA NewRequestIsNew ==
    ASSUME sent \in Nat, sent < MaxRequests, NEW c \in Channels, NEW s \in Scopes,
           NEW g \in Nat, NEW body \in Body, NEW key \in 0..MaxRequests,
           key # 0 <=> c[1] \in Commanding,
           c[1] \in Commanding \cup {"history"} => body.record \in Records
    PROVE  /\ NewIn(NewRequest(c, s, g, body, key), sent, g, s)
           /\ NewRequest(c, s, g, body, key).channel = c
           /\ NewRequest(c, s, g, body, key).key = key
           /\ Entry(NewRequest(c, s, g, body, key)) =
                 [channel |-> c, scope |-> s, body |-> body, key |-> key]
<1>1. sent + 1 \in Ids BY BoundAssumption DEF Ids
<1>2. NewRequest(c, s, g, body, key) \in Request BY <1>1 DEF NewRequest, Request
<1> QED BY <1>2 DEF NewRequest, NewIn, Carries, Entry

LEMMA NoBodyIsBody == NoBody \in Body /\ 0 \in 0..MaxRequests
  BY BoundAssumption DEF NoBody, Body

\* Reading the list again.
LEMMA LoadStep ==
    ASSUME sent \in Nat, NEW rs, NEW chs, NEW g \in Nat, NEW s \in Scopes,
           NetOK(rs, chs, sent, g, s),
           \A r \in rs : \E q \in requests : Continues(q, r) /\ r.reply = q.reply,
           LoadFrom(rs, chs, s, g), generation' = g, scope' = s
    PROVE  NetStep /\ DOMAIN channels' = DOMAIN chs \cup {Memories}
<1>1. SendFrom(rs, chs, NewRequest(Memories, s, g, NoBody, 0)) BY DEF LoadFrom
<1>2. sent < MaxRequests BY <1>1 DEF SendFrom
<1>3. /\ NewIn(NewRequest(Memories, s, g, NoBody, 0), sent, g, s)
      /\ NewRequest(Memories, s, g, NoBody, 0).channel = Memories
      /\ NewRequest(Memories, s, g, NoBody, 0).key = 0
  BY <1>2, NewRequestIsNew, NoBodyIsBody, ChannelKinds DEF Commanding
<1>4. Memories # History BY ChannelKinds
<1>5. NetStep BY <1>1, <1>3, <1>4, SendStep
<1> QED BY <1>1, <1>3, <1>5 DEF SendFrom, With

\* The facts each part of the proof takes from the invariant.
LEMMA NetFacts ==
    ASSUME Inv
    PROVE  /\ NetOK(requests, channels, sent, generation, scope)
           /\ sent \in Nat /\ sent <= MaxRequests /\ MaxRequests \in Nat
           /\ generation \in Nat /\ scope \in Scopes
           /\ drafted \in Seq(Scopes)
           /\ typed \in Nat /\ typed <= MaxDrafts /\ MaxDrafts \in Nat
           /\ \A q \in requests : q \in Request /\ Continues(q, q)
<1>1. drafted \in Seq(Scopes) BY DEF Inv, TypeOK
<1>2. typed \in Nat BY <1>1 DEF typed
<1> QED BY <1>1, <1>2, BoundAssumption DEF Inv, TypeOK, NetOK, Continues

\* A new draft is numbered after the others, which stay as they are.
LEMMA DraftedGrows ==
    ASSUME Inv, drafted' = Append(drafted, scope)
    PROVE  /\ typed' = typed + 1 /\ drafted' \in Seq(Scopes)
           /\ drafted'[typed + 1] = scope
           /\ \A n \in 1..typed : drafted'[n] = drafted[n]
<1>1. drafted \in Seq(Scopes) /\ scope \in Scopes BY NetFacts
<1> QED BY <1>1 DEF typed

\* The key a submission carries.
LEMMA KeyEffect ==
    ASSUME Inv, NEW c \in Channels, NEW body
    PROVE  LET key == IdempotencyKeyFor(c, body)
           IN  /\ key \in 1..(sent + 1)
               /\ \/ key = sent + 1
                  \/ c \in DOMAIN operations /\ operations[c].body = body
                     /\ operations[c].key = key
<1>1. c \in DOMAIN operations => operations[c].key \in 1..sent
  <2> SUFFICES ASSUME c \in DOMAIN operations PROVE operations[c].key \in 1..sent OBVIOUS
  <2> DEFINE a == [channel |-> c, scope |-> scope, body |-> operations[c].body,
                   key |-> operations[c].key]
  <2>1. a \in Commands BY DEF Commands, Pending
  <2>2. a.key \in 1..sent BY <2>1 DEF Inv, CommandsOK
  <2> QED BY <2>2
<1> QED BY <1>1, NetFacts DEF IdempotencyKeyFor

\* A submission.
LEMMA SubmitStep ==
    ASSUME Inv, NEW c \in Channels, c[1] \in Commanding, NEW body \in Body,
           body.record \in Records, SubmitCommand(c, body),
           generation' = generation, scope' = scope
    PROVE  NetStep /\ DOMAIN channels' = DOMAIN channels \cup {c}
<1> DEFINE key == IdempotencyKeyFor(c, body)
           new == NewRequest(c, scope, generation, body, key)
<1>1. /\ SendFrom(requests, channels, new)
      /\ operations' = With(operations, c, [body |-> body, key |-> key])
  BY DEF SubmitCommand, Send
<1>2. key \in 1..(sent + 1) BY KeyEffect
<1>3. sent < MaxRequests BY <1>1 DEF SendFrom
<1>4. key \in 0..MaxRequests /\ key # 0 BY <1>2, <1>3, NetFacts
<1>5. /\ NewIn(new, sent, generation, scope) /\ new.channel = c /\ new.key = key
      /\ Entry(new) = [channel |-> c, scope |-> scope, body |-> body, key |-> key]
  BY <1>3, <1>4, NetFacts, NewRequestIsNew
<1>6. c \in DOMAIN operations' /\ operations'[c].body = body /\ operations'[c].key = key
  BY <1>1 DEF With
<1>7. Entry(new) \in Pending' BY <1>5, <1>6 DEF Pending
<1> HIDE DEF new, key
<1>8. c # History BY ChannelKinds DEF Commanding
<1>9. NetStep BY <1>1, <1>5, <1>7, <1>8, NetFacts, SendStep
<1> QED BY <1>1, <1>5, <1>9 DEF SendFrom, With

\* A stretch that sends nothing and ends no call.
LEMMA SameNet ==
    ASSUME Inv, UNCHANGED <<requests, channels, sent, generation, scope>>
    PROVE  NetStep
  BY NetFacts DEF NetStep, Follows

LEMMA EndStep ==
    ASSUME Inv, NEW q \in requests, requests' = Gone(q), channels' = ReleasedBy(q),
           UNCHANGED <<sent, generation, scope>>
    PROVE  NetStep
<1>1. /\ NetOK(Gone(q), ReleasedBy(q), sent, generation, scope)
      /\ \A r \in Gone(q) : \E p \in requests : Continues(p, r) /\ r.reply = p.reply
  BY NetFacts, EndKeepsNet
<1>2. NetOK(requests', channels', sent', generation', scope') BY <1>1
<1>3. Follows BY <1>1, StillFollows
<1> QED BY <1>2, <1>3 DEF NetStep

LEMMA SavedStep ==
    ASSUME Inv, NEW q \in requests, Saved(q)
    PROVE  NetStep /\ DOMAIN channels' = DOMAIN ReleasedBy(q) \cup {Memories}
<1>1. /\ LoadFrom(Gone(q), ReleasedBy(q), scope, generation)
      /\ generation' = generation /\ scope' = scope
  BY DEF Saved
<1>2. /\ NetOK(Gone(q), ReleasedBy(q), sent, generation, scope)
      /\ \A r \in Gone(q) : \E p \in requests : Continues(p, r) /\ r.reply = p.reply
  BY NetFacts, EndKeepsNet
<1> QED BY <1>1, <1>2, NetFacts, LoadStep

\* Another scope or a reload: what is left is the list's request.
LEMMA LeaveStep ==
    ASSUME Inv, (\E s \in Scopes : ApplyScope(s)) \/ Reload
    PROVE  NetStep /\ DOMAIN channels' = {Memories}
<1> DEFINE aborted == AbortAll(requests)
           left == UNION {Left(q) : q \in requests}
<1>1. ASSUME NEW h, NEW t
      PROVE  /\ NetOK(aborted, << >>, sent, h, t) /\ NetOK(left, << >>, sent, h, t)
             /\ \A r \in aborted \cup left : \E q \in requests :
                    Continues(q, r) /\ r.reply = q.reply
  BY NetFacts, LeaveKeepsNet
<1> HIDE DEF aborted, left
<1>2. DOMAIN << >> = {} OBVIOUS
<1>3. CASE \E s \in Scopes : ApplyScope(s)
  <2>1. PICK s \in Scopes : ApplyScope(s) BY <1>3
  <2>2. /\ LoadFrom(aborted, << >>, s, generation + 1)
        /\ generation' = generation + 1 /\ scope' = s
    BY <2>1 DEF ApplyScope, aborted
  <2>3. generation + 1 \in Nat /\ sent \in Nat BY NetFacts
  <2>4. NetOK(aborted, << >>, sent, generation + 1, s) BY <1>1
  <2>5. \A r \in aborted : \E q \in requests : Continues(q, r) /\ r.reply = q.reply
    BY <1>1
  <2>6. NetStep /\ DOMAIN channels' = DOMAIN << >> \cup {Memories}
    BY <2>2, <2>3, <2>4, <2>5, LoadStep
  <2> QED BY <1>2, <2>6
<1>4. CASE Reload
  <2>1. LoadFrom(left, << >>, scope, 0) /\ generation' = 0 /\ scope' = scope
    BY <1>4 DEF Reload, left
  <2> QED BY <1>1, <1>2, <2>1, NetFacts, LoadStep
<1> QED BY <1>3, <1>4

\* What the API answers a request with.
LEMMA ReplyEffect ==
    ASSUME NEW q \in Request, NEW reply \in Versions
    PROVE  LET r == [q EXCEPT !.reply = reply]
           IN  r \in Request /\ Continues(q, r) /\ r.reply = reply /\ r.page = q.page
  BY DEF Request, Continues

LEMMA RepliedStep ==
    ASSUME Inv, NEW q \in requests, NEW reply \in Versions, Replied(q, reply),
           Serve(q), reply = versions'[q.scope]
    PROVE  NetStep
<1> DEFINE later == [q EXCEPT !.reply = reply]
<1>1. /\ later \in Request /\ Continues(q, later) /\ later.reply = reply
      /\ later.page = q.page
  BY NetFacts, ReplyEffect
<1>2. requests' = (requests \ {q}) \cup (IF q.page = "gone" THEN {} ELSE {later})
  BY DEF Replied
<1> HIDE DEF later
<1>3. UNCHANGED <<channels, sent, generation, scope>> BY DEF Serve, page
<1>4. \A r \in requests' : (r \in requests /\ r # q) \/ (r = later /\ q.page # "gone")
  BY <1>2
<1>5. /\ requests \subseteq Request
      /\ \A r \in requests : r.id <= sent /\ Carries(r)
      /\ \A a, b \in requests : a.id = b.id => a = b
  BY NetFacts DEF NetOK
<1>6. later.id = q.id /\ later.channel = q.channel /\ (q.page # "gone" => Carries(later))
      /\ later.generation = q.generation /\ later.scope = q.scope
  BY <1>1, <1>5 DEF Continues, Carries
<1>7. \A a, b \in requests' : a.id = b.id => a = b BY <1>4, <1>5, <1>6
<1>8. requests' \subseteq Request /\ \A r \in requests' : r.id <= sent /\ Carries(r)
  BY <1>1, <1>4, <1>5, <1>6
<1>9. \A c \in DOMAIN channels : \E r \in requests' :
          r.id = channels[c] /\ r.channel = c /\ r.page = "open"
  <2> SUFFICES ASSUME NEW c \in DOMAIN channels
               PROVE  \E r \in requests' :
                          r.id = channels[c] /\ r.channel = c /\ r.page = "open"
    OBVIOUS
  <2>1. PICK r \in requests : r.id = channels[c] /\ r.channel = c /\ r.page = "open"
    BY NetFacts DEF NetOK
  <2>2. CASE r = q
    <3>1. later \in requests' BY <1>2, <2>1, <2>2
    <3> QED BY <1>1, <1>6, <2>1, <2>2, <3>1
  <2>3. CASE r # q
    <3>1. r \in requests' BY <1>2, <2>3
    <3> QED BY <2>1, <3>1
  <2> QED BY <2>2, <2>3
<1>10. \A r \in requests' : r.page = "open" =>
           /\ r.channel \in DOMAIN channels /\ channels[r.channel] = r.id
           /\ r.generation = generation /\ r.scope = scope
  <2>1. \A r \in requests : r.page = "open" =>
           /\ r.channel \in DOMAIN channels /\ channels[r.channel] = r.id
           /\ r.generation = generation /\ r.scope = scope
    BY NetFacts DEF NetOK
  <2> QED BY <1>1, <1>4, <1>6, <2>1
<1>11. NetOK(requests', channels', sent', generation', scope')
  BY <1>3, <1>7, <1>8, <1>9, <1>10 DEF NetOK
<1>12. Follows BY <1>1, <1>4, NetFacts DEF Follows
<1> QED BY <1>11, <1>12 DEF NetStep

\* What the forms and the cards submit.
LEMMA Bodies ==
    ASSUME Inv
    PROVE  /\ form # None => form \in Body /\ form.record \in Records
           /\ dialog # None => /\ dialog \in Body /\ dialog.record \in Records
                               /\ Correction(dialog.record) \in Channels
           /\ \A m \in Records : [NoBody EXCEPT !.record = m] \in Body
                                /\ [NoBody EXCEPT !.record = m].record = m
           /\ \A m \in Records, k \in Kinds :
                  LET body == [NoBody EXCEPT !.record = m, !.kind = k]
                  IN  body \in Body /\ body.record = m /\ body.draft = 0
           /\ results # None => results.trace \in Ids
<1>1. /\ form # None => form \in Body /\ form.record \in Records
      /\ dialog # None => dialog \in Body /\ dialog.record \in Records
  BY DEF Inv, TypeOK, FormsOK, OwnDraft
<1>2. results # None => results.trace \in Ids BY DEF Inv, ShownOK
<1> QED BY <1>1, <1>2, NoBodyIsBody, ChannelKinds DEF NoBody, Body

LEMMA UserNetStep ==
    ASSUME Inv, User
    PROVE  NetStep
<1>1. CASE Refresh \/ GoToMemories
  <2>1. LoadFrom(requests, channels, scope, generation) /\ UNCHANGED <<scope, generation>>
    BY <1>1 DEF Refresh, GoToMemories, LoadMemories
  <2> QED BY <2>1, NetFacts, LoadStep
<1>2. CASE LeaveMemories \/ Type \/ \E m \in Records : OpenCorrection(m)
  <2>1. UNCHANGED <<requests, channels, sent, generation, scope>>
    BY <1>2 DEF LeaveMemories, Type, OpenCorrection
  <2> QED BY <2>1, SameNet
<1>3. CASE SubmitMemory
  <2>1. form # None /\ SubmitCommand(Write, form) /\ UNCHANGED <<scope, generation>>
    BY <1>3 DEF SubmitMemory
  <2> QED BY <2>1, Bodies, ChannelKinds, SubmitStep DEF Commanding
<1>4. CASE SubmitCorrection
  <2>1. /\ dialog # None /\ SubmitCommand(Correction(dialog.record), dialog)
        /\ UNCHANGED <<scope, generation>>
    BY <1>4 DEF SubmitCorrection
  <2> QED BY <2>1, Bodies, ChannelKinds, SubmitStep DEF Commanding
<1>5. ASSUME NEW m \in Records, NEW kind \in Kinds, RecordOutcome(m, kind)
      PROVE  NetStep
  <2> DEFINE body == [NoBody EXCEPT !.record = m, !.kind = kind]
  <2>1. /\ results # None /\ SubmitCommand(Card(m, results.trace), body)
        /\ UNCHANGED <<scope, generation>>
    BY <1>5 DEF RecordOutcome
  <2>2. body \in Body /\ body.record \in Records BY Bodies
  <2> HIDE DEF body
  <2> QED BY <2>1, <2>2, Bodies, ChannelKinds, SubmitStep DEF Commanding
<1>6. CASE SubmitRecall
  <2>1. /\ SendFrom(requests, channels, NewRequest(Recall, scope, generation, NoBody, 0))
        /\ UNCHANGED <<scope, generation>>
    BY <1>6 DEF SubmitRecall, Send
  <2>2. sent < MaxRequests BY <2>1 DEF SendFrom
  <2>3. /\ NewIn(NewRequest(Recall, scope, generation, NoBody, 0), sent, generation, scope)
        /\ NewRequest(Recall, scope, generation, NoBody, 0).key = 0
        /\ NewRequest(Recall, scope, generation, NoBody, 0).channel # History
    BY <2>2, NetFacts, NewRequestIsNew, NoBodyIsBody, ChannelKinds DEF Commanding
  <2> QED BY <2>1, <2>3, NetFacts, SendStep
<1>7. ASSUME NEW m \in Records, OpenHistory(m)
      PROVE  NetStep
  <2> DEFINE body == [NoBody EXCEPT !.record = m]
  <2>1. /\ SendFrom(requests, channels, NewRequest(History, scope, generation, body, 0))
        /\ UNCHANGED <<scope, generation>>
        /\ history' = [scope |-> scope, record |-> m, version |-> 0]
    BY <1>7 DEF OpenHistory, Send
  <2>2. sent < MaxRequests BY <2>1 DEF SendFrom
  <2>3. body \in Body /\ body.record \in Records /\ body.record = m BY Bodies
  <2> HIDE DEF body
  <2>4. /\ NewIn(NewRequest(History, scope, generation, body, 0), sent, generation, scope)
        /\ NewRequest(History, scope, generation, body, 0).key = 0
    <3>1. History \in Channels /\ ~(History[1] \in Commanding) /\ 0 \in 0..MaxRequests
      BY ChannelKinds, NoBodyIsBody DEF Commanding
    <3>2. sent \in Nat /\ scope \in Scopes /\ generation \in Nat BY NetFacts
    <3> QED BY <2>2, <2>3, <3>1, <3>2, NewRequestIsNew
  <2>5. AsksFor(NewRequest(History, scope, generation, body, 0))
    BY <2>1, <2>3 DEF AsksFor, NewRequest
  <2> QED BY <2>1, <2>4, <2>5, NetFacts, SendStep
<1>8. CASE (\E s \in Scopes : ApplyScope(s)) \/ Reload BY <1>8, LeaveStep
<1> QED BY <1>1, <1>2, <1>3, <1>4, <1>5, <1>6, <1>7, <1>8 DEF User

\* What the API does to its tables.
LEMMA ServeEffect ==
    ASSUME Inv, NEW q \in requests, Serve(q)
    PROVE  /\ q.reply = None /\ UNCHANGED <<page, stored, sent, bounds>>
           /\ q.scope \in Scopes /\ Replied(q, versions'[q.scope])
           /\ versions \in [Scopes -> Versions]
           /\ \/ /\ q.key = 0 /\ UNCHANGED <<versions, applied>>
                 /\ recalled' = IF q.channel = Recall THEN recalled \cup {q.scope} ELSE recalled
              \/ q.key # 0 /\ Done(q) /\ UNCHANGED server
              \/ /\ q.key # 0 /\ ~Done(q) /\ applied' = applied \cup {Entry(q)}
                 /\ q.body.record \in Records /\ recalled' = recalled
                 /\ versions' = IF q.channel[1] = "outcome" THEN versions
                        ELSE [versions EXCEPT ![q.scope][q.body.record] = @ + 1]
<1>1. /\ Carries(q) /\ q \in Request /\ versions \in [Scopes -> Versions]
  BY NetFacts DEF NetOK, Inv, TypeOK
<1>2. q.scope \in Scopes BY <1>1 DEF Request
<1>3. CASE ServeRead(q)
  <2>1. q.key = 0 BY <1>1, <1>3 DEF ServeRead, Carries, Commanding
  <2> QED BY <1>1, <1>2, <1>3, <2>1 DEF ServeRead, Serve
<1>4. CASE ServeReplay(q)
  BY <1>1, <1>2, <1>4 DEF ServeReplay, Serve, server
<1>5. CASE ServeCommand(q)
  <2>1. q.body.record \in Records BY <1>1, <1>5 DEF ServeCommand, Carries
  <2> QED BY <1>1, <1>2, <1>5, <2>1 DEF ServeCommand, Serve
<1> QED BY <1>3, <1>4, <1>5 DEF Serve

\* Every command asked for or done has a key of its own among those given out.
LEMMA CommandFacts ==
    ASSUME Inv
    PROVE  /\ \A a \in Commands : a.key \in 1..sent /\ a.body.draft \in 0..typed
           /\ \A a, b \in Commands : a.key = b.key => a = b
           /\ applied \subseteq Commands
           /\ \A q \in requests : q.key # 0 => Entry(q) \in Commands /\ Entry(q).key = q.key
                 /\ Entry(q).scope = q.scope /\ Entry(q).channel = q.channel
                 /\ Entry(q).body = q.body
  BY DEF Inv, CommandsOK, Commands, Asked, Entry

LEMMA KeysAreFinite ==
    ASSUME Inv
    PROVE  IsFiniteSet(1..sent) /\ Cardinality(1..sent) = sent
<1>1. sent \in Nat BY NetFacts
<1> QED BY ONLY <1>1, FS_Interval

\* The revisions of a record are counted by the keys that made them, so there are no
\* more than requests.
LEMMA VersionsCounted ==
    ASSUME Inv, NEW q \in requests, Serve(q)
    PROVE  /\ versions' \in [Scopes -> Versions]
           /\ \A s \in Scopes, m \in Records :
                  /\ versions'[s][m] = Cardinality(KeysRecording(s, m)')
                  /\ versions'[s][m] >= versions[s][m]
<1>1. /\ versions \in [Scopes -> Versions] /\ q.scope \in Scopes
      /\ \A s \in Scopes, m \in Records :
             versions[s][m] = Cardinality(KeysRecording(s, m)) /\ versions[s][m] \in Nat
  <2>1. versions \in [Scopes -> Versions] /\ q.scope \in Scopes BY ServeEffect
  <2>2. \A s \in Scopes, m \in Records : versions[s][m] = Cardinality(KeysRecording(s, m))
    BY DEF Inv, ServerOK
  <2>3. \A s \in Scopes, m \in Records : versions[s][m] \in Nat
    BY <2>1, NetFacts DEF Versions
  <2> QED BY <2>1, <2>2, <2>3
<1>2. CASE UNCHANGED <<versions, applied>>
  <2>1. \A s, m : KeysRecording(s, m)' = KeysRecording(s, m)
    BY <1>2 DEF KeysRecording, Recording
  <2>2. versions' = versions BY <1>2
  <2> QED BY <1>1, <2>1, <2>2
<1>3. CASE /\ q.key # 0 /\ ~Done(q) /\ applied' = applied \cup {Entry(q)}
           /\ q.body.record \in Records
           /\ versions' = IF q.channel[1] = "outcome" THEN versions
                  ELSE [versions EXCEPT ![q.scope][q.body.record] = @ + 1]
  <2>1. /\ Entry(q).key = q.key /\ q.key \in 1..sent /\ Entry(q).scope = q.scope
        /\ Entry(q).channel = q.channel /\ Entry(q).body = q.body
    BY <1>3, CommandFacts
  <2>2. \A s, m : KeysRecording(s, m)' =
            IF s = q.scope /\ m = q.body.record /\ q.channel[1] # "outcome"
            THEN KeysRecording(s, m) \cup {q.key} ELSE KeysRecording(s, m)
    BY <1>3, <2>1 DEF KeysRecording, Recording
  <2>3. CASE q.channel[1] = "outcome"
    <3>1. \A s, m : KeysRecording(s, m)' = KeysRecording(s, m) BY <2>2, <2>3
    <3> QED BY <1>1, <1>3, <2>3, <3>1
  <2>4. CASE q.channel[1] # "outcome"
    <3> DEFINE m == q.body.record
               keys == KeysRecording(q.scope, m)
    <3>1. PICK old : old = keys OBVIOUS
    <3>2. old \subseteq 1..sent /\ q.key \notin old
      BY <1>3, <3>1, CommandFacts DEF KeysRecording, Recording, Done
    <3>3. IsFiniteSet(1..sent) /\ Cardinality(1..sent) = sent BY KeysAreFinite
    <3>4. IsFiniteSet(old) /\ Cardinality(old \cup {q.key}) = Cardinality(old) + 1
      BY <3>2, <3>3, FS_Subset, FS_AddElement
    <3>5. old \cup {q.key} \subseteq 1..sent BY <2>1, <3>2
    <3>6. Cardinality(old \cup {q.key}) <= sent BY <3>3, <3>5, FS_Subset
    <3>7. /\ versions[q.scope][m] = Cardinality(old) /\ versions[q.scope][m] \in Nat
      BY <1>1, <1>3, <3>1
    <3>8. versions[q.scope][m] + 1 \in 0..MaxRequests
      BY <3>4, <3>6, <3>7, NetFacts
    <3>9. /\ versions' \in [Scopes -> Versions]
          /\ \A s \in Scopes, x \in Records : versions'[s][x] =
                 IF s = q.scope /\ x = m THEN versions[s][x] + 1 ELSE versions[s][x]
      BY <1>1, <1>3, <2>4, <3>8 DEF Versions
    <3>10. \A s, x : KeysRecording(s, x)' =
               IF s = q.scope /\ x = m THEN old \cup {q.key} ELSE KeysRecording(s, x)
      BY <2>2, <2>4, <3>1
    <3> HIDE DEF m, keys
    <3> SUFFICES ASSUME NEW s \in Scopes, NEW x \in Records
                 PROVE  /\ versions'[s][x] = Cardinality(KeysRecording(s, x)')
                        /\ versions'[s][x] >= versions[s][x]
      BY <3>9
    <3>11. versions[s][x] = Cardinality(KeysRecording(s, x)) /\ versions[s][x] \in Nat
      BY <1>1
    <3>12. CASE s = q.scope /\ x = m
      <4>1. KeysRecording(s, x)' = old \cup {q.key} BY <3>10, <3>12
      <4>2. versions'[s][x] = versions[s][x] + 1 /\ versions[s][x] = Cardinality(old)
        BY <3>7, <3>9, <3>12
      <4>3. Cardinality(KeysRecording(s, x)') = Cardinality(old) + 1 BY <3>4, <4>1
      <4> QED BY <3>11, <4>2, <4>3
    <3>13. CASE ~(s = q.scope /\ x = m)
      <4>1. versions'[s][x] = versions[s][x] /\ KeysRecording(s, x)' = KeysRecording(s, x)
        BY <3>9, <3>10, <3>13
      <4> QED BY <3>11, <4>1
    <3> QED BY <3>12, <3>13
  <2> QED BY <2>3, <2>4
<1> QED BY <1>2, <1>3, ServeEffect DEF server

LEMMA ServeNetStep ==
    ASSUME Inv, NEW q \in requests, Serve(q)
    PROVE  NetStep
<1>1. q.scope \in Scopes /\ Replied(q, versions'[q.scope]) BY ServeEffect
<1>2. versions'[q.scope] \in Versions BY <1>1, VersionsCounted
<1> QED BY <1>1, <1>2, RepliedStep

\* The end of a call, Saved apart.
Ended(q) ==
    \/ Cancelled(q) \/ Failed(q) \/ ListRead(q)
    \/ RecallRead(q) \/ OutcomeSaved(q) \/ HistoryRead(q)

LEMMA EndedEffect ==
    ASSUME NEW q, Ended(q)
    PROVE  /\ requests' = Gone(q) /\ channels' = ReleasedBy(q)
           /\ UNCHANGED <<sent, generation, scope, view, operations, form, dialog, bounds, server>>
  BY DEF Ended, Cancelled, Failed, ListRead, RecallRead, OutcomeSaved, HistoryRead

LEMMA NextNetStep ==
    ASSUME Inv, [Next]_vars
    PROVE  NetStep
<1>1. CASE UNCHANGED vars BY <1>1, SameNet DEF vars, page
<1>2. CASE User BY <1>2, UserNetStep
<1>3. ASSUME NEW q \in requests, Serve(q) PROVE NetStep BY <1>3, ServeNetStep
<1>4. ASSUME NEW q \in requests, Ended(q) PROVE NetStep BY <1>4, EndedEffect, EndStep
<1>5. ASSUME NEW q \in requests, Saved(q) PROVE NetStep BY <1>5, SavedStep
<1> QED BY <1>1, <1>2, <1>3, <1>4, <1>5 DEF Next, Settle, Ended

-----------------------------------------------------------------------------
(* Commands: a key and a draft stand for one command.                      *)

\* Nothing but a submission brings a command about.
LEMMA CommandsFrom ==
    ASSUME Inv, NetStep,
           applied' \subseteq applied \cup Asked
    PROVE  Commands' \subseteq Commands \cup Pending'
<1>1. Asked' \subseteq Asked \cup Pending'
  <2> SUFFICES ASSUME NEW r \in requests', r.key # 0
               PROVE  Entry(r) \in Asked \cup Pending'
    BY DEF Asked, Entry
  <2>1. CASE Entry(r) \in Pending' BY <2>1
  <2>2. CASE \E q \in requests : Continues(q, r)
    <3>1. PICK q \in requests : Continues(q, r) BY <2>2
    <3>2. Entry(r) = Entry(q) /\ q.key # 0 BY <3>1 DEF Continues, Entry
    <3> QED BY <3>2 DEF Asked
  <2> QED BY <2>1, <2>2 DEF NetStep, Follows
<1> QED BY <1>1 DEF Commands

LEMMA CommandsFrame ==
    ASSUME Inv, Commands' \subseteq Commands, sent' \in Nat, sent <= sent',
           typed' \in Nat, typed <= typed'
    PROVE  CommandsOK'
<1> SUFFICES ASSUME NEW a \in Commands', NEW b \in Commands'
             PROVE  /\ a.key \in 1..sent' /\ a.body.draft \in 0..typed'
                    /\ a.key = b.key => a = b
                    /\ a.body.draft # 0 /\ a.body.draft = b.body.draft => a = b
  BY DEF CommandsOK
<1>1. a \in Commands /\ b \in Commands OBVIOUS
<1>2. /\ a.key \in 1..sent /\ a.body.draft \in 0..typed
      /\ a.key = b.key => a = b
      /\ a.body.draft # 0 /\ a.body.draft = b.body.draft => a = b
  BY <1>1 DEF Inv, CommandsOK
<1> QED BY <1>2, NetFacts

\* A draft stays with the form it was typed into.
LEMMA DraftKept ==
    ASSUME Inv, Commands' \subseteq Commands, typed' \in Nat, typed <= typed',
           NEW content, NEW c, OwnDraft(content, c),
           \A a \in Pending : a.channel = c => a \in Pending'
    PROVE  OwnDraft(content, c)'
  BY NetFacts DEF OwnDraft

LEMMA DraftTyped ==
    ASSUME Inv, Commands' \subseteq Commands, typed' = typed + 1,
           NEW content, NEW c, content.record \in Records, content.draft = typed + 1
    PROVE  OwnDraft(content, c)'
<1>1. \A a \in Commands' : a.body.draft \in 0..typed BY CommandFacts
<1>2. \A a \in Commands' : a.body.draft # content.draft BY <1>1, NetFacts
<1> QED BY <1>2, NetFacts DEF OwnDraft

\* A submission repeats a pending operation or gets the next key.
LEMMA SubmitKeeps ==
    ASSUME Inv, NetStep, NEW c \in Channels, NEW body \in Body, SubmitCommand(c, body),
           body.draft # 0 => OwnDraft(body, c),
           UNCHANGED <<scope, applied, typed>>
    PROVE  /\ CommandsOK'
           /\ \A content, d :
                 /\ OwnDraft(content, d)
                 /\ (content = body /\ d = c) \/ (content.draft # body.draft /\ d # c)
                 => OwnDraft(content, d)'
<1>1. PICK key : key = IdempotencyKeyFor(c, body) OBVIOUS
<1> DEFINE new == [channel |-> c, scope |-> scope, body |-> body, key |-> key]
<1>2. operations' = With(operations, c, [body |-> body, key |-> key]) /\ sent' = sent + 1
  BY <1>1 DEF SubmitCommand, Send, SendFrom
<1>3. /\ DOMAIN operations' = DOMAIN operations \cup {c}
      /\ operations'[c].body = body /\ operations'[c].key = key
      /\ \A d \in DOMAIN operations : d # c => operations'[d] = operations[d]
  BY <1>2 DEF With
<1>4. /\ \A a \in Pending' : a = new \/ a \in Pending
      /\ new \in Pending'
      /\ \A a \in Pending : a.channel # c => a \in Pending'
  BY <1>3 DEF Pending
<1>5. \A a \in Commands' : a = new \/ a \in Commands
  BY <1>4, CommandsFrom DEF Commands
<1>6. \A a \in Pending : a.channel = c => c \in DOMAIN operations /\ a.scope = scope
                         /\ a.body = operations[c].body /\ a.key = operations[c].key
                         /\ a = [channel |-> c, scope |-> scope,
                                 body |-> operations[c].body, key |-> operations[c].key]
  BY DEF Pending
<1>7. /\ key \in 1..(sent + 1)
      /\ key = sent + 1 \/ (c \in DOMAIN operations /\ operations[c].body = body
                           /\ operations[c].key = key)
  BY <1>1, KeyEffect
<1>8. new.key = key /\ new.body = body /\ new.channel = c OBVIOUS
<1>9. CASE c \in DOMAIN operations /\ operations[c].body = body /\ operations[c].key = key
  <2>1. new \in Pending BY <1>9 DEF Pending
  <2> HIDE DEF new
  <2>2. Commands' \subseteq Commands BY <1>5, <2>1 DEF Commands
  <2>3. \A a \in Pending : a \in Pending'
    <3>1. \A a \in Pending : a.channel = c => a = new BY <1>6, <1>9 DEF new
    <3> QED BY <1>4, <3>1
  <2>4. CommandsOK' BY <1>2, <2>2, NetFacts, CommandsFrame
  <2>5. \A content, d : OwnDraft(content, d) => OwnDraft(content, d)'
    BY <2>2, <2>3, NetFacts, DraftKept
  <2> QED BY <2>4, <2>5
<1>10. CASE ~(c \in DOMAIN operations /\ operations[c].body = body)
  <2>1. key = sent + 1
    BY <1>7, <1>10
  <2> HIDE DEF new
  <2>2. body.draft # 0 => \A a \in Commands : a.body.draft # body.draft
    BY <1>6, <1>10 DEF OwnDraft
  <2>3. body.draft \in 0..typed
    <3>1. body.draft \in Nat BY NetFacts DEF Body
    <3> QED BY <3>1, NetFacts DEF OwnDraft
  <2>4. /\ \A a \in Commands : a.key \in 1..sent /\ a.body.draft \in 0..typed
        /\ \A a, b \in Commands : a.key = b.key => a = b
        /\ \A a, b \in Commands : a.body.draft # 0 /\ a.body.draft = b.body.draft => a = b
    BY DEF Inv, CommandsOK
  <2>5. CommandsOK'
    <3> SUFFICES ASSUME NEW a \in Commands', NEW b \in Commands'
                 PROVE  /\ a.key \in 1..sent' /\ a.body.draft \in 0..typed'
                        /\ a.key = b.key => a = b
                        /\ a.body.draft # 0 /\ a.body.draft = b.body.draft => a = b
      BY DEF CommandsOK
    <3>1. a = new \/ a \in Commands BY <1>5
    <3>2. b = new \/ b \in Commands BY <1>5
    <3>3. a.key \in 1..sent' /\ a.body.draft \in 0..typed'
      BY <1>2, <1>8, <2>1, <2>3, <2>4, <3>1, NetFacts
    <3>4. a.key = b.key => a = b
      BY <1>8, <2>1, <2>4, <3>1, <3>2, NetFacts
    <3>5. a.body.draft # 0 /\ a.body.draft = b.body.draft => a = b
      BY <1>8, <2>2, <2>4, <3>1, <3>2
    <3> QED BY <3>3, <3>4, <3>5
  <2>6. ASSUME NEW content, NEW d, OwnDraft(content, d),
               (content = body /\ d = c) \/ (content.draft # body.draft /\ d # c)
        PROVE  OwnDraft(content, d)'
    <3>1. /\ content.record \in Records /\ content.draft \in 1..typed'
          /\ \A a \in Commands : a.body.draft = content.draft =>
                a \in Pending /\ a.channel = d /\ a.body = content
      BY <2>6 DEF OwnDraft
    <3>2. CASE content = body /\ d = c
      <4>1. content.draft # 0 BY <3>1, NetFacts
      <4>2. \A a \in Commands' : a.body.draft = content.draft => a = new
        BY <1>5, <2>2, <3>2, <4>1
      <4> QED BY <1>4, <1>8, <3>1, <3>2, <4>2 DEF OwnDraft
    <3>3. CASE content.draft # body.draft /\ d # c
      <4>1. \A a \in Commands' : a.body.draft = content.draft =>
                a \in Pending' /\ a.channel = d /\ a.body = content
        BY <1>4, <1>5, <1>8, <3>1, <3>3
      <4> QED BY <3>1, <4>1 DEF OwnDraft
    <3> QED BY <2>6, <3>2, <3>3
  <2> QED BY <2>5, <2>6
<1>11. c \in DOMAIN operations /\ operations[c].body = body => operations[c].key = key
  BY <1>1 DEF IdempotencyKeyFor
<1> QED BY <1>9, <1>10, <1>11

LEMMA DraftsAreNumbered ==
    ASSUME Inv
    PROVE  \A content, c : OwnDraft(content, c) => content.draft # 0
<1>1. typed \in Nat BY NetFacts
<1> QED BY ONLY <1>1 DEF OwnDraft

FormsPart == CommandsOK /\ FormsOK

\* A step that submits nothing: operations stay or are forgotten, and so does what
\* the forms hold.
LEMMA FormsFrame ==
    ASSUME Inv, NetStep, applied' \subseteq applied \cup Asked,
           sent' \in Nat, sent <= sent', typed' = typed, Pending' \subseteq Pending,
           form' = None \/ (form' = form /\ Pending' = Pending),
           dialog' = None \/ (dialog' = dialog /\ Pending' = Pending)
    PROVE  FormsPart'
<1>1. Commands' \subseteq Commands BY CommandsFrom DEF Commands
<1>2. CommandsOK' BY <1>1, NetFacts, CommandsFrame
<1>3. ASSUME NEW content, NEW c, OwnDraft(content, c), Pending' = Pending
      PROVE  OwnDraft(content, c)'
  BY <1>1, <1>3, NetFacts, DraftKept
<1>4. PICK f : f = form OBVIOUS
<1>5. PICK d : d = dialog OBVIOUS
<1>6. /\ f # None => OwnDraft(f, Write)
      /\ d # None => OwnDraft(d, Correction(d.record))
      /\ f # None /\ d # None => f.draft # d.draft
  BY <1>4, <1>5 DEF Inv, FormsOK
<1>7. form' # None => form' = f /\ OwnDraft(f, Write)' BY <1>3, <1>4, <1>6
<1>8. dialog' # None => dialog' = d /\ OwnDraft(d, Correction(d.record))'
  BY <1>3, <1>5, <1>6
<1> QED BY <1>2, <1>6, <1>7, <1>8 DEF FormsPart, FormsOK

LEMMA SamePending ==
    ASSUME operations' = operations, scope' = scope
    PROVE  Pending' = Pending
  BY DEF Pending

LEMMA NoPending ==
    ASSUME operations' = << >>
    PROVE  Pending' = {}
  BY DEF Pending

LEMMA SubmitForms ==
    ASSUME Inv, NetStep, UNCHANGED <<scope, applied, typed, form, dialog>>,
           \/ form # None /\ SubmitCommand(Write, form)
           \/ dialog # None /\ SubmitCommand(Correction(dialog.record), dialog)
           \/ \E m \in Records, k \in Kinds : results # None /\
                SubmitCommand(Card(m, results.trace), [NoBody EXCEPT !.record = m, !.kind = k])
    PROVE  FormsPart'
<1>1. PICK f : f = form OBVIOUS
<1>2. PICK d : d = dialog OBVIOUS
<1>3. /\ f # None => /\ OwnDraft(f, Write) /\ f \in Body /\ f.draft # 0
      /\ d # None => /\ OwnDraft(d, Correction(d.record)) /\ d \in Body /\ d.draft # 0
                     /\ Correction(d.record) \in Channels /\ Correction(d.record) # Write
      /\ f # None /\ d # None => f.draft # d.draft
  <2>1. /\ f # None => OwnDraft(f, Write) /\ f \in Body
        /\ d # None => /\ OwnDraft(d, Correction(d.record)) /\ d \in Body
                       /\ d.record \in Records
        /\ f # None /\ d # None => f.draft # d.draft
    BY <1>1, <1>2, Bodies DEF Inv, FormsOK
  <2>2. \A m \in Records : Correction(m) \in Channels /\ Correction(m) # Write
    BY ChannelKinds
  <2>3. \A content, c : OwnDraft(content, c) => content.draft # 0 BY DraftsAreNumbered
  <2> QED BY <2>1, <2>2, <2>3
<1>4. /\ form' = f /\ dialog' = d BY <1>1, <1>2
<1> SUFFICES /\ CommandsOK'
             /\ f # None => OwnDraft(f, Write)'
             /\ d # None => OwnDraft(d, Correction(d.record))'
  BY <1>3, <1>4 DEF FormsPart, FormsOK
<1>5. CASE form # None /\ SubmitCommand(Write, form)
  <2>1. f # None /\ SubmitCommand(Write, f) BY <1>1, <1>5
  <2> QED BY <1>3, <2>1, ChannelKinds, SubmitKeeps
<1>6. CASE dialog # None /\ SubmitCommand(Correction(dialog.record), dialog)
  <2>1. d # None /\ SubmitCommand(Correction(d.record), d) BY <1>2, <1>6
  <2> QED BY <1>3, <2>1, ChannelKinds, SubmitKeeps
<1>7. ASSUME NEW m \in Records, NEW k \in Kinds, results # None,
             SubmitCommand(Card(m, results.trace), [NoBody EXCEPT !.record = m, !.kind = k])
      PROVE  /\ CommandsOK'
             /\ f # None => OwnDraft(f, Write)'
             /\ d # None => OwnDraft(d, Correction(d.record))'
  <2>1. PICK c : c = Card(m, results.trace) OBVIOUS
  <2>2. PICK body : body = [NoBody EXCEPT !.record = m, !.kind = k] OBVIOUS
  <2>3. c \in Channels /\ c[1] = "outcome" BY <1>7, <2>1, Bodies, ChannelKinds
  <2>4. body \in Body /\ body.draft = 0 BY <2>2, Bodies
  <2>5. c # Write /\ \A r \in Records : c # Correction(r) BY <2>3, ChannelKinds
  <2>6. SubmitCommand(c, body) BY <1>7, <2>1, <2>2
  <2>7. /\ CommandsOK'
        /\ \A content, e :
              OwnDraft(content, e) /\ content.draft # body.draft /\ e # c
              => OwnDraft(content, e)'
    BY <2>3, <2>4, <2>6, SubmitKeeps
  <2>8. d # None => d.record \in Records BY <1>2, Bodies
  <2> QED BY <1>3, <2>4, <2>5, <2>7, <2>8
<1> QED BY <1>5, <1>6, <1>7

LEMMA ServedWasAsked ==
    ASSUME Inv, NEW q \in requests, Serve(q)
    PROVE  applied' \subseteq applied \cup Asked
<1>1. \A x \in applied' : x \in applied \/ (x = Entry(q) /\ q.key # 0)
  BY ServeEffect DEF server
<1> QED BY <1>1 DEF Asked

LEMMA CommandsStep ==
    ASSUME Inv, [Next]_vars
    PROVE  FormsPart'
<1>0. NetStep /\ sent \in Nat /\ typed \in Nat BY NextNetStep, NetFacts
<1>1. ASSUME UNCHANGED <<applied, typed, form, dialog, operations, scope>>,
             sent' \in Nat, sent <= sent'
      PROVE  FormsPart'
  BY <1>0, <1>1, SamePending, FormsFrame
<1>2. CASE UNCHANGED vars
  <2>1. UNCHANGED <<applied, typed, form, dialog, operations, scope>> /\ sent' = sent
    BY <1>2 DEF vars, page, bounds, server, typed
  <2> QED BY <1>0, <1>1, <2>1
<1>3. CASE Refresh \/ GoToMemories \/ LeaveMemories \/ SubmitRecall
           \/ \E m \in Records : OpenHistory(m)
  <2>1. UNCHANGED <<applied, typed, form, dialog, operations, scope>>
    BY <1>3 DEF Refresh, GoToMemories, LeaveMemories, SubmitRecall, OpenHistory, bounds, server,
                typed
  <2>2. sent' = sent \/ sent' = sent + 1
    BY <1>3 DEF Refresh, GoToMemories, LeaveMemories, SubmitRecall, OpenHistory, LoadMemories,
                LoadFrom, Send, SendFrom
  <2> QED BY <1>0, <1>1, <2>1, <2>2
<1>4. CASE \/ SubmitMemory \/ SubmitCorrection
           \/ \E m \in Records, k \in Kinds : RecordOutcome(m, k)
  <2>1. UNCHANGED <<scope, applied, typed, form, dialog>>
    BY <1>4 DEF SubmitMemory, SubmitCorrection, RecordOutcome, bounds, server, typed
  <2>2. \/ form # None /\ SubmitCommand(Write, form)
        \/ dialog # None /\ SubmitCommand(Correction(dialog.record), dialog)
        \/ \E m \in Records, k \in Kinds : results # None /\
             SubmitCommand(Card(m, results.trace), [NoBody EXCEPT !.record = m, !.kind = k])
    BY <1>4 DEF SubmitMemory, SubmitCorrection, RecordOutcome
  <2> QED BY <1>0, <2>1, <2>2, SubmitForms
<1>5. CASE Type
  <2>1. PICK m \in Records : form' = [NoBody EXCEPT !.record = m, !.draft = typed + 1]
    BY <1>5 DEF Type
  <2>2. /\ typed' = typed + 1 /\ sent' = sent /\ dialog' = dialog /\ applied' = applied
        /\ Pending' = Pending
    BY <1>5, SamePending, DraftedGrows DEF Type, server
  <2>3. form'.record = m /\ form'.draft = typed + 1 BY <2>1 DEF NoBody
  <2>4. Commands' \subseteq Commands BY <1>0, <2>2, CommandsFrom DEF Commands
  <2>5. CommandsOK' BY <1>0, <2>2, <2>4, CommandsFrame
  <2>6. PICK f : f = form' OBVIOUS
  <2>7. OwnDraft(f, Write)' BY <2>2, <2>3, <2>4, <2>6, DraftTyped
  <2>8. PICK d : d = dialog OBVIOUS
  <2>9. d # None => OwnDraft(d, Correction(d.record)) /\ d.draft \in 1..typed
    BY <2>8 DEF Inv, FormsOK, OwnDraft
  <2>10. d # None => OwnDraft(d, Correction(d.record))'
    BY <1>0, <2>2, <2>4, <2>9, DraftKept
  <2>11. d # None => f.draft # d.draft BY <1>0, <2>3, <2>6, <2>9
  <2> QED BY <2>2, <2>5, <2>6, <2>7, <2>8, <2>10, <2>11 DEF FormsPart, FormsOK
<1>6. ASSUME NEW m \in Records, OpenCorrection(m) PROVE FormsPart'
  <2>1. PICK base : dialog' = [NoBody EXCEPT !.record = m, !.draft = typed + 1, !.base = base]
    BY <1>6 DEF OpenCorrection
  <2>2. /\ typed' = typed + 1 /\ sent' = sent /\ form' = form /\ applied' = applied
        /\ operations' = Without(operations, Correction(m)) /\ scope' = scope
    BY <1>6, DraftedGrows DEF OpenCorrection, server
  <2>3. Pending' \subseteq Pending
        /\ \A a \in Pending : a.channel = Write => a \in Pending'
    <3>1. Write # Correction(m) BY ChannelKinds
    <3> QED BY <2>2, <3>1 DEF Pending, Without
  <2>4. dialog'.record = m /\ dialog'.draft = typed + 1 BY <2>1 DEF NoBody
  <2>5. Commands' \subseteq Commands BY <1>0, <2>2, <2>3, CommandsFrom DEF Commands
  <2>6. CommandsOK' BY <1>0, <2>2, <2>5, CommandsFrame
  <2>7. PICK d : d = dialog' OBVIOUS
  <2>8. OwnDraft(d, Correction(d.record))' BY <2>2, <2>4, <2>5, <2>7, DraftTyped
  <2>9. PICK f : f = form OBVIOUS
  <2>10. f # None => OwnDraft(f, Write) /\ f.draft \in 1..typed
    BY <2>9 DEF Inv, FormsOK, OwnDraft
  <2>11. f # None => OwnDraft(f, Write)'
    BY <1>0, <2>2, <2>3, <2>5, <2>10, DraftKept
  <2>12. f # None => f.draft # d.draft BY <1>0, <2>4, <2>7, <2>10
  <2> QED BY <2>2, <2>6, <2>7, <2>8, <2>9, <2>11, <2>12 DEF FormsPart, FormsOK
<1>7. CASE (\E s \in Scopes : ApplyScope(s)) \/ Reload
  <2>1. Blank /\ typed' = typed /\ applied' = applied
    BY <1>7 DEF ApplyScope, Reload, bounds, server, typed
  <2>2. sent' = sent + 1 BY <1>7 DEF ApplyScope, Reload, LoadFrom, SendFrom
  <2>3. form' = None /\ dialog' = None /\ Pending' = {} BY <2>1, NoPending DEF Blank
  <2> QED BY <1>0, <2>1, <2>2, <2>3, FormsFrame
<1>8. ASSUME NEW q \in requests, Serve(q) PROVE FormsPart'
  <2>1. UNCHANGED <<operations, scope, form, dialog, typed, sent>>
    BY <1>8 DEF Serve, page, bounds, typed
  <2>2. applied' \subseteq applied \cup Asked BY <1>8, ServedWasAsked
  <2> QED BY <1>0, <2>1, <2>2, SamePending, FormsFrame
<1>9. ASSUME NEW q \in requests, Ended(q) PROVE FormsPart'
  <2>1. UNCHANGED <<applied, typed, form, dialog, operations, scope, sent>>
    BY <1>9, EndedEffect DEF bounds, server, typed
  <2> QED BY <1>0, <1>1, <2>1
<1>10. ASSUME NEW q \in requests, Saved(q) PROVE FormsPart'
  <2>1. /\ UNCHANGED <<applied, typed, form, operations, scope>>
        /\ sent' = sent + 1 /\ dialog' \in {None, dialog}
    BY <1>10 DEF Saved, LoadFrom, SendFrom, bounds, server, typed
  <2> QED BY <1>0, <2>1, SamePending, FormsFrame
<1> QED BY <1>2, <1>3, <1>4, <1>5, <1>6, <1>7, <1>8, <1>9, <1>10
        DEF Next, User, Settle, Ended

-----------------------------------------------------------------------------
(* The API's tables, and what they entitle the page to.                    *)

\* What the API holds only grows.
Grows ==
    /\ applied \subseteq applied' /\ recalled \subseteq recalled'
    /\ \A s \in Scopes, m \in Records :
           versions[s][m] \in Nat /\ versions'[s][m] \in Nat /\ versions[s][m] <= versions'[s][m]

LEMMA VersionsAreNat ==
    ASSUME Inv
    PROVE  \A s \in Scopes, m \in Records : versions[s][m] \in Nat
<1>1. versions \in [Scopes -> Versions] BY DEF Inv, TypeOK
<1> QED BY <1>1, NetFacts DEF Versions

\* Only the API changes its tables.
LEMMA PageKeepsServer ==
    ASSUME Inv, [Next]_vars
    PROVE  UNCHANGED server \/ \E q \in requests : Serve(q)
<1>1. CASE UNCHANGED vars BY <1>1 DEF vars
<1>2. CASE User
  BY <1>2 DEF User, Refresh, GoToMemories, LeaveMemories, Type, SubmitMemory, SubmitRecall,
              RecordOutcome, OpenHistory, OpenCorrection, SubmitCorrection, ApplyScope, Reload
<1>3. ASSUME NEW q \in requests, Settle(q) PROVE UNCHANGED server
  <2>1. CASE Saved(q) BY <2>1 DEF Saved
  <2>2. CASE Ended(q) BY <2>2, EndedEffect
  <2> QED BY <1>3, <2>1, <2>2 DEF Settle, Ended
<1> QED BY <1>1, <1>2, <1>3 DEF Next

LEMMA ServerGrows ==
    ASSUME Inv, [Next]_vars
    PROVE  Grows
<1>1. CASE UNCHANGED server
  <2>1. versions' = versions /\ applied' = applied /\ recalled' = recalled
    BY <1>1 DEF server
  <2> QED BY <2>1, VersionsAreNat DEF Grows
<1>2. ASSUME NEW q \in requests, Serve(q) PROVE Grows
  <2>1. applied \subseteq applied' /\ recalled \subseteq recalled'
    BY <1>2, ServeEffect DEF server
  <2>2. /\ versions' \in [Scopes -> Versions]
        /\ \A s \in Scopes, m \in Records : versions'[s][m] >= versions[s][m]
    BY <1>2, VersionsCounted
  <2>3. \A s \in Scopes, m \in Records : versions'[s][m] \in Nat
    BY <2>2, NetFacts DEF Versions
  <2> QED BY <2>1, <2>2, <2>3, VersionsAreNat DEF Grows
<1> QED BY <1>1, <1>2, PageKeepsServer

LEMMA TruthfulStep ==
    ASSUME Inv, [Next]_vars, NEW r \in requests'
    PROVE  Truthful(r)'
<1> SUFFICES ASSUME r.reply # None
             PROVE  /\ \A m \in Records : r.reply[m] <= versions'[r.scope][m]
                    /\ r.channel = Recall => r.scope \in recalled'
                    /\ r.key # 0 => Done(r)'
  BY DEF Truthful
<1>1. PICK q \in requests :
          Continues(q, r) /\ (r.reply = q.reply \/ (Serve(q) /\ r.reply = versions'[q.scope]))
  BY NextNetStep DEF NetStep, Follows
<1>2. /\ r.scope = q.scope /\ r.channel = q.channel /\ r.key = q.key /\ q.scope \in Scopes
      /\ q.reply # None => q.reply \in Versions
  BY <1>1, NetFacts DEF Continues, Request
<1>3. Grows BY ServerGrows
<1>4. CASE r.reply = q.reply
  <2>1. /\ \A m \in Records : q.reply[m] <= versions[q.scope][m]
        /\ q.channel = Recall => q.scope \in recalled
        /\ q.key # 0 => Done(q)
    BY <1>4 DEF Inv, ServerOK, Truthful
  <2>2. \A m \in Records : q.reply[m] \in Nat BY <1>2, <1>4, NetFacts DEF Versions
  <2>3. \A m \in Records : r.reply[m] <= versions'[r.scope][m]
    BY <1>2, <1>3, <1>4, <2>1, <2>2 DEF Grows
  <2>4. r.key # 0 => Done(r)' BY <1>2, <1>3, <2>1 DEF Done, Grows
  <2> QED BY <1>2, <1>3, <2>1, <2>3, <2>4 DEF Grows
<1>5. CASE Serve(q) /\ r.reply = versions'[q.scope]
  <2>1. \A m \in Records : r.reply[m] <= versions'[r.scope][m]
    BY <1>2, <1>3, <1>5 DEF Grows
  <2>2. r.channel = Recall => r.scope \in recalled'
    <3>1. Carries(q) BY NetFacts DEF NetOK
    <3>2. q.channel = Recall => q.key = 0 BY <3>1, ChannelKinds DEF Carries, Commanding
    <3> QED BY <1>2, <1>5, <3>2, ServeEffect
  <2>3. r.key # 0 => Done(r)'
    <3>1. q.key # 0 => \E a \in applied' : a.scope = q.scope /\ a.key = q.key
      <4>1. q.key # 0 => Done(q) \/ Entry(q) \in applied' BY <1>5, ServeEffect
      <4>2. Entry(q).scope = q.scope /\ Entry(q).key = q.key BY DEF Entry
      <4> QED BY <1>3, <4>1, <4>2 DEF Done, Grows
    <3> QED BY <1>2, <3>1 DEF Done
  <2> QED BY <2>1, <2>2, <2>3
<1> QED BY <1>1, <1>4, <1>5

LEMMA ServerStep ==
    ASSUME Inv, [Next]_vars
    PROVE  ServerOK'
<1>1. \A r \in requests' : Truthful(r)' BY TruthfulStep
<1>2. /\ \A a \in applied : a.channel[1] \in Commanding /\ a.body.record \in Records
      /\ \A s \in Scopes, m \in Records :
           versions[s][m] = Cardinality(KeysRecording(s, m))
  BY DEF Inv, ServerOK
<1>3. CASE UNCHANGED server
  <2>1. \A s, m : KeysRecording(s, m)' = KeysRecording(s, m)
    BY <1>3 DEF KeysRecording, Recording, server
  <2>2. versions' = versions /\ applied' = applied BY <1>3 DEF server
  <2>3. \A s \in Scopes, m \in Records : versions'[s][m] = Cardinality(KeysRecording(s, m)')
    BY <1>2, <2>1, <2>2
  <2> QED BY <1>1, <1>2, <2>2, <2>3 DEF ServerOK
<1>4. ASSUME NEW q \in requests, Serve(q) PROVE ServerOK'
  <2>1. \A a \in applied' : a \in applied \/ (a = Entry(q) /\ q.key # 0)
    BY <1>4, ServeEffect DEF server
  <2>2. Carries(q) BY NetFacts DEF NetOK
  <2>3. q.key # 0 => Entry(q).channel[1] \in Commanding /\ Entry(q).body.record \in Records
    BY <2>2 DEF Carries, Entry
  <2>4. \A s \in Scopes, m \in Records : versions'[s][m] = Cardinality(KeysRecording(s, m)')
    BY <1>4, VersionsCounted
  <2> QED BY <1>1, <1>2, <2>1, <2>3, <2>4 DEF ServerOK
<1> QED BY <1>3, <1>4, PageKeepsServer

\* The steps a scope is entitled to.
Earned(s, steps) ==
    /\ "write" \in steps => \E m \in Records : versions[s][m] > 0
    /\ "view" \in steps => "write" \in steps
    /\ "recall" \in steps => s \in recalled
    /\ "outcome" \in steps => \E a \in applied : a.scope = s /\ a.channel[1] = "outcome"

LEMMA EarnedStays ==
    ASSUME Grows, NEW s \in Scopes, NEW steps, Earned(s, steps)
    PROVE  Earned(s, steps)'
<1>1. \A m \in Records : versions[s][m] > 0 => versions'[s][m] > 0 BY DEF Grows
<1> QED BY <1>1 DEF Earned, Grows

LEMMA JourneyFrame ==
    ASSUME Inv, [Next]_vars, UNCHANGED <<journey, stored, scope>>
    PROVE  JourneyOK'
<1>1. Grows BY ServerGrows
<1>2. \A s \in Scopes : Earned(s, stored[s])
  BY DEF Inv, JourneyOK, JourneyIsEarned, Earned
<1>3. \A s \in Scopes : Earned(s, stored[s])'
  <2> SUFFICES ASSUME NEW s \in Scopes PROVE Earned(s, stored[s])' OBVIOUS
  <2>1. PICK steps : steps = stored[s] OBVIOUS
  <2>2. Earned(s, steps)' BY <1>1, <1>2, <2>1, EarnedStays
  <2> QED BY <2>1, <2>2
<1> QED BY <1>3 DEF Inv, JourneyOK, JourneyIsEarned, Earned

LEMMA JourneyUpdate ==
    ASSUME Inv, [Next]_vars, scope' = scope, NEW steps, UpdateJourney(steps),
           Earned(scope, steps)
    PROVE  JourneyOK'
<1>1. Grows /\ scope \in Scopes BY ServerGrows, NetFacts
<1>2. \A s \in Scopes : Earned(s, stored[s])
  BY DEF Inv, JourneyOK, JourneyIsEarned, Earned
<1>3. /\ journey' = steps /\ stored'[scope] = steps
      /\ \A s \in Scopes : s # scope => stored'[s] = stored[s]
  BY <1>1 DEF Inv, TypeOK, UpdateJourney
<1>4. \A s \in Scopes : Earned(s, stored[s])'
  <2> SUFFICES ASSUME NEW s \in Scopes PROVE Earned(s, stored[s])' OBVIOUS
  <2>1. PICK t : t = stored'[s] OBVIOUS
  <2>2. PICK here : here = scope OBVIOUS
  <2>3. Earned(s, t)
    <3>1. CASE s = here
      <4>1. t = steps BY <1>3, <2>1, <2>2, <3>1
      <4> QED BY <2>2, <3>1, <4>1
    <3>2. CASE s # here BY <1>2, <1>3, <2>1, <2>2, <3>2
    <3> QED BY <3>1, <3>2
  <2>4. Earned(s, t)' BY <1>1, <2>3, EarnedStays
  <2> QED BY <2>1, <2>4
<1> QED BY <1>3, <1>4 DEF JourneyOK, JourneyIsEarned, Earned

\* What an answer proves of its scope.
LEMMA AnswerEarns ==
    ASSUME Inv, NEW q \in requests, Answered(q)
    PROVE  /\ q.scope = scope /\ q.page = "open" /\ q.reply \in Versions
           /\ \A m \in Records : /\ q.reply[m] \in Nat /\ versions[scope][m] \in Nat
                                /\ q.reply[m] <= versions[scope][m]
           /\ q.channel[1] \in {"write", "correction"} =>
                  \E m \in Records : versions[scope][m] > 0
           /\ q.channel = Recall => scope \in recalled
           /\ q.channel[1] = "outcome" =>
                  \E a \in applied : a.scope = scope /\ a.channel = q.channel
<1>1. /\ q.scope = scope /\ q.page = "open" /\ q.reply # None /\ q \in Request /\ Carries(q)
      /\ scope \in Scopes
  BY NetFacts DEF Answered, Fresh, NetOK
<1>2. q.reply \in Versions BY <1>1 DEF Request
<1>3. /\ \A m \in Records : q.reply[m] <= versions[scope][m]
      /\ q.channel = Recall => scope \in recalled
      /\ q.key # 0 => Done(q)
  BY <1>1 DEF Inv, ServerOK, Truthful
<1>4. q.channel[1] \in Commanding =>
          \E a \in applied : a.scope = scope /\ a.channel = q.channel
  <2> SUFFICES ASSUME q.channel[1] \in Commanding
               PROVE  \E a \in applied : a.scope = scope /\ a.channel = q.channel
    OBVIOUS
  <2>1. q.key # 0 BY <1>1 DEF Carries
  <2>2. PICK a \in applied : a.scope = q.scope /\ a.key = q.key BY <1>3, <2>1 DEF Done
  <2>3. a = Entry(q) BY <2>1, <2>2, CommandFacts
  <2> QED BY <1>1, <2>1, <2>2, <2>3, CommandFacts
<1>5. q.channel[1] \in {"write", "correction"} => \E m \in Records : versions[scope][m] > 0
  <2> SUFFICES ASSUME q.channel[1] \in {"write", "correction"}
               PROVE  \E m \in Records : versions[scope][m] > 0
    OBVIOUS
  <2>1. PICK a \in applied : a.scope = scope /\ a.channel = q.channel
    BY <1>4 DEF Commanding
  <2>2. PICK m \in Records : m = a.body.record BY DEF Inv, ServerOK
  <2>3. a \in Recording(scope, m) BY <2>1, <2>2 DEF Recording
  <2>4. PICK keys : keys = KeysRecording(scope, m) OBVIOUS
  <2>5. a.key \in keys BY <2>3, <2>4 DEF KeysRecording
  <2>6. keys \subseteq 1..sent BY <2>4, CommandFacts DEF KeysRecording, Recording
  <2>7. IsFiniteSet(keys) BY <2>6, KeysAreFinite, FS_Subset
  <2>8. Cardinality(keys) # 0 BY <2>5, <2>7, FS_EmptySet
  <2>9. versions[scope][m] = Cardinality(keys) BY <1>1, <2>4 DEF Inv, ServerOK
  <2>10. versions[scope][m] \in Nat BY <1>1, VersionsAreNat
  <2>11. versions[scope][m] > 0 BY <2>8, <2>9, <2>10
  <2> QED BY <2>11
<1>6. \A m \in Records : q.reply[m] \in Nat /\ versions[scope][m] \in Nat
  BY <1>1, <1>2, NetFacts, VersionsAreNat DEF Versions
<1> QED BY <1>1, <1>2, <1>3, <1>4, <1>5, <1>6 DEF Commanding

LEMMA JourneyStep ==
    ASSUME Inv, [Next]_vars
    PROVE  JourneyOK'
<1>0. Earned(scope, journey)
  <2>1. journey = stored[scope] /\ scope \in Scopes BY NetFacts DEF Inv, JourneyOK
  <2> QED BY <2>1 DEF Inv, JourneyOK, JourneyIsEarned, Earned
<1>1. CASE UNCHANGED vars BY <1>1, JourneyFrame DEF vars, page
<1>2. CASE GoToMemories
  <2>1. CASE "write" \in journey
    <3>1. UpdateJourney(journey \cup {"view"}) /\ scope' = scope BY <1>2, <2>1 DEF GoToMemories
    <3>2. Earned(scope, journey \cup {"view"}) BY <1>0, <2>1 DEF Earned
    <3> QED BY <3>1, <3>2, JourneyUpdate
  <2>2. CASE "write" \notin journey
    BY <1>2, <2>2, JourneyFrame DEF GoToMemories
  <2> QED BY <2>1, <2>2
<1>3. CASE Refresh \/ LeaveMemories \/ Type \/ SubmitMemory \/ SubmitRecall \/ SubmitCorrection
           \/ \E m \in Records : \/ \E kind \in Kinds : RecordOutcome(m, kind)
                                \/ OpenHistory(m) \/ OpenCorrection(m)
  <2>1. UNCHANGED <<journey, stored, scope>>
    BY <1>3 DEF Refresh, LeaveMemories, Type, SubmitMemory, SubmitRecall, SubmitCorrection,
                RecordOutcome, OpenHistory, OpenCorrection
  <2> QED BY <2>1, JourneyFrame
<1>4. CASE (\E s \in Scopes : ApplyScope(s)) \/ Reload
  <2>1. journey' = stored[scope'] /\ stored' = stored /\ UNCHANGED server
    BY <1>4 DEF ApplyScope, Reload
  <2> QED BY <2>1 DEF Inv, JourneyOK, JourneyIsEarned, server
<1>5. ASSUME NEW q \in requests, Serve(q) PROVE JourneyOK'
  BY <1>5, JourneyFrame DEF Serve, page
<1>6. ASSUME NEW q \in requests, Settle(q) PROVE JourneyOK'
  <2>1. CASE Cancelled(q) \/ Failed(q) \/ HistoryRead(q)
    BY <2>1, JourneyFrame DEF Cancelled, Failed, HistoryRead
  <2>2. CASE ListRead(q)
    <3>1. /\ Answered(q) /\ scope' = scope
          /\ UpdateJourney(IF \A m \in Records : q.reply[m] = 0 THEN {}
                           ELSE journey \cup {"write"} \cup (IF view THEN {"view"} ELSE {}))
      BY <2>2 DEF ListRead
    <3>2. \A m \in Records : /\ q.reply[m] \in Nat /\ versions[scope][m] \in Nat
                            /\ q.reply[m] <= versions[scope][m]
      BY <3>1, AnswerEarns
    <3>3. CASE \A m \in Records : q.reply[m] = 0
      <4>1. Earned(scope, {}) BY DEF Earned
      <4> QED BY <3>1, <3>3, <4>1, JourneyUpdate
    <3>4. CASE ~ \A m \in Records : q.reply[m] = 0
      <4>1. PICK steps : steps = journey \cup {"write"} \cup (IF view THEN {"view"} ELSE {})
        OBVIOUS
      <4>2. \E m \in Records : versions[scope][m] > 0 BY <3>2, <3>4
      <4>3. Earned(scope, steps) BY <1>0, <4>1, <4>2 DEF Earned
      <4> QED BY <3>1, <3>4, <4>1, <4>3, JourneyUpdate
    <3> QED BY <3>3, <3>4
  <2>3. CASE Saved(q)
    <3>1. /\ Answered(q) /\ q.channel[1] \in {"write", "correction"} /\ scope' = scope
          /\ UpdateJourney(journey \cup {"write"})
      BY <2>3 DEF Saved
    <3>2. Earned(scope, journey \cup {"write"}) BY <1>0, <3>1, AnswerEarns DEF Earned
    <3> QED BY <3>1, <3>2, JourneyUpdate
  <2>4. CASE RecallRead(q)
    <3>1. /\ Answered(q) /\ q.channel = Recall /\ scope' = scope
          /\ UpdateJourney(journey \cup {"recall"})
      BY <2>4 DEF RecallRead
    <3>2. Earned(scope, journey \cup {"recall"}) BY <1>0, <3>1, AnswerEarns DEF Earned
    <3> QED BY <3>1, <3>2, JourneyUpdate
  <2>5. CASE OutcomeSaved(q)
    <3>1. /\ Answered(q) /\ q.channel[1] = "outcome" /\ scope' = scope
          /\ UpdateJourney(journey \cup {"outcome"})
      BY <2>5 DEF OutcomeSaved
    <3>2. \E a \in applied : a.scope = scope /\ a.channel[1] = "outcome" BY <3>1, AnswerEarns
    <3>3. Earned(scope, journey \cup {"outcome"}) BY <1>0, <3>2 DEF Earned
    <3> QED BY <3>1, <3>3, JourneyUpdate
  <2> QED BY <1>6, <2>1, <2>2, <2>3, <2>4, <2>5 DEF Settle
<1> QED BY <1>1, <1>2, <1>3, <1>4, <1>5, <1>6 DEF Next, User

-----------------------------------------------------------------------------
(* What is shown.                                                          *)

\* How the library, the recall results and the history dialog change.
LEMMA ShownChanges ==
    ASSUME [Next]_vars
    PROVE  /\ \/ list' = None \/ (list' = list /\ scope' = scope)
              \/ \E q \in requests : ListRead(q)
           /\ \/ results' = None \/ (results' = results /\ scope' = scope)
              \/ \E q \in requests : RecallRead(q)
           /\ \/ history' = None \/ (history' = history /\ scope' = scope)
              \/ \E m \in Records : OpenHistory(m)
              \/ \E q \in requests : HistoryRead(q)
<1>1. CASE UNCHANGED vars BY <1>1 DEF vars, page
<1>2. CASE Refresh \/ GoToMemories \/ LeaveMemories \/ Type \/ SubmitMemory \/ SubmitRecall
           \/ SubmitCorrection
           \/ \E m \in Records : OpenCorrection(m) \/ \E k \in Kinds : RecordOutcome(m, k)
  BY <1>2 DEF Refresh, GoToMemories, LeaveMemories, Type, SubmitMemory, SubmitRecall,
              SubmitCorrection, OpenCorrection, RecordOutcome
<1>3. ASSUME NEW m \in Records, OpenHistory(m) PROVE UNCHANGED <<list, results, scope>>
  BY <1>3 DEF OpenHistory
<1>4. CASE (\E s \in Scopes : ApplyScope(s)) \/ Reload
  BY <1>4 DEF ApplyScope, Reload, Blank
<1>5. ASSUME NEW q, Serve(q) PROVE UNCHANGED <<list, results, history, scope>>
  BY <1>5 DEF Serve, page
<1>6. ASSUME NEW q \in requests, Settle(q)
      PROVE  /\ scope' = scope
             /\ list' = None \/ list' = list \/ ListRead(q)
             /\ results' = results \/ RecallRead(q)
             /\ history' = None \/ history' = history \/ HistoryRead(q)
  BY <1>6 DEF Settle, Cancelled, Failed, ListRead, Saved, RecallRead, OutcomeSaved, HistoryRead
<1> QED BY <1>1, <1>2, <1>3, <1>4, <1>5, <1>6 DEF Next, User

\* An open request after a step is new, or was open before.
LEMMA OpenAfter ==
    ASSUME Inv, [Next]_vars, NEW r \in requests', r.page = "open"
    PROVE  \/ r.id = sent + 1 /\ r.reply = None /\ (r.channel = History => AsksFor(r))
           \/ \E q \in requests :
                 /\ q.page = "open" /\ Continues(q, r) /\ q.scope = scope /\ q.id <= sent
                 /\ r.reply = q.reply \/ r.reply = versions'[q.scope]
<1>1. \A q \in requests : q.id <= sent /\ (q.page = "open" => q.scope = scope)
  BY NetFacts DEF NetOK
<1> QED BY <1>1, NextNetStep DEF NetStep, Follows, Continues

\* Who has read the answer of its channel was the only one to wait for it.
LEMMA OnlyOneWaits ==
    ASSUME Inv, NEW q \in requests, q.page = "open", NEW r \in Gone(q), r.page = "open"
    PROVE  r.channel # q.channel
<1>1. r \in requests /\ r # q
  <2>1. NetOK(requests, channels, sent, generation, scope) BY NetFacts
  <2>2. \A x \in Gone(q) : \E p \in requests :
            /\ Continues(p, x) /\ x.reply = p.reply
            /\ x.page # "gone" => x = p /\ p # q
    BY <2>1, EndKeepsNet
  <2> QED BY <2>2
<1>2. /\ \A a, b \in requests : a.id = b.id => a = b
      /\ \A a \in requests : a.page = "open" => channels[a.channel] = a.id
  BY NetFacts DEF NetOK
<1> QED BY <1>1, <1>2

ListBefore ==
    /\ list # None => \A m \in Records : list.versions[m] <= versions[list.scope][m]
    /\ \A q \in requests : q.page = "open" /\ q.channel = Memories /\ q.reply # None /\ list # None =>
           \A m \in Records : list.versions[m] <= q.reply[m]

HistoryBefore ==
    \A q \in requests : q.page = "open" /\ q.channel = History /\ history # None =>
        history.record = q.body.record /\ history.version = 0

LEMMA BeforeParts == ShownBefore <=> ListBefore /\ HistoryBefore
  BY DEF ShownBefore, ListBefore, HistoryBefore

LEMMA ListStep ==
    ASSUME Inv, [Next]_vars
    PROVE  ListBefore'
<1>0. ListBefore /\ Grows BY BeforeParts, ServerGrows DEF Inv
<1>1. CASE list' = None BY <1>1 DEF ListBefore
<1>2. CASE list # None /\ list' = list /\ scope' = scope
  <2>1. list.scope = scope /\ scope \in Scopes /\ list.versions \in Versions
    BY <1>2, NetFacts DEF Inv, ShownOK, ShownIsOfScope
  <2>2. \A m \in Records : list.versions[m] \in Nat BY <2>1, NetFacts DEF Versions
  <2>3. \A m \in Records : list.versions[m] <= versions'[scope][m]
    BY <1>0, <1>2, <2>1, <2>2 DEF ListBefore, Grows
  <2>4. ASSUME NEW r \in requests', r.page = "open", r.channel = Memories, r.reply # None
        PROVE  \A m \in Records : list.versions[m] <= r.reply[m]
    <3>1. PICK q \in requests :
              /\ q.page = "open" /\ Continues(q, r) /\ q.scope = scope
              /\ r.reply = q.reply \/ r.reply = versions'[q.scope]
      BY <2>4, OpenAfter
    <3>2. q.channel = Memories BY <2>4, <3>1 DEF Continues
    <3> QED BY <1>0, <1>2, <2>3, <2>4, <3>1, <3>2 DEF ListBefore
  <2> QED BY <1>2, <2>1, <2>3, <2>4 DEF ListBefore
<1>3. ASSUME NEW q \in requests, ListRead(q) PROVE ListBefore'
  <2>1. /\ Answered(q) /\ q.channel = Memories /\ requests' = Gone(q)
        /\ list' = [scope |-> q.scope, versions |-> q.reply]
    BY <1>3 DEF ListRead
  <2>2. /\ q.page = "open" /\ q.scope = scope /\ scope \in Scopes
        /\ \A m \in Records : /\ q.reply[m] \in Nat /\ versions[scope][m] \in Nat
                             /\ q.reply[m] <= versions[scope][m]
    BY <2>1, AnswerEarns, NetFacts
  <2>3. \A m \in Records : q.reply[m] <= versions'[scope][m] BY <1>0, <2>2 DEF Grows
  <2>4. \A r \in requests' : r.page = "open" => r.channel # Memories
    BY <2>1, <2>2, OnlyOneWaits
  <2> QED BY <2>1, <2>2, <2>3, <2>4 DEF ListBefore
<1> QED BY <1>1, <1>2, <1>3, ShownChanges

LEMMA HistoryStep ==
    ASSUME Inv, [Next]_vars
    PROVE  HistoryBefore'
<1>1. CASE history' = None BY <1>1 DEF HistoryBefore
<1>2. CASE history' = history /\ scope' = scope
  <2>1. ASSUME NEW r \in requests', r.page = "open", r.channel = History, history # None
        PROVE  history'.record = r.body.record /\ history'.version = 0
    <3>1. CASE AsksFor(r) BY <3>1 DEF AsksFor
    <3>2. ASSUME NEW q \in requests, q.page = "open", Continues(q, r)
          PROVE  history'.record = r.body.record /\ history'.version = 0
      <4>1. q.channel = History /\ q.body = r.body BY <2>1, <3>2 DEF Continues
      <4> QED BY <1>2, <2>1, <3>2, <4>1, BeforeParts DEF Inv, HistoryBefore
    <3> QED BY <2>1, <3>1, <3>2, OpenAfter
  <2> QED BY <1>2, <2>1 DEF HistoryBefore
<1>3. ASSUME NEW m \in Records, OpenHistory(m) PROVE HistoryBefore'
  <2>1. channels' = With(channels, History, sent + 1)
    BY <1>3 DEF OpenHistory, Send, SendFrom, NewRequest
  <2>2. channels'[History] = sent + 1 BY <2>1 DEF With
  <2>3. ASSUME NEW r \in requests', r.page = "open", r.channel = History PROVE AsksFor(r)
    <3>1. r.id = sent + 1 BY <2>2, <2>3, NextNetStep DEF NetStep, NetOK
    <3>2. ~ (r.id <= sent) BY <3>1, NetFacts
    <3> QED BY <2>3, <3>2, OpenAfter DEF Continues
  <2> QED BY <2>3 DEF HistoryBefore, AsksFor
<1>4. ASSUME NEW q \in requests, HistoryRead(q) PROVE HistoryBefore'
  <2>1. Answered(q) /\ q.channel = History /\ requests' = Gone(q) BY <1>4 DEF HistoryRead
  <2>2. q.page = "open" BY <2>1, AnswerEarns
  <2>3. \A r \in requests' : r.page = "open" => r.channel # History
    BY <2>1, <2>2, OnlyOneWaits
  <2> QED BY <2>3 DEF HistoryBefore
<1> QED BY <1>1, <1>2, <1>3, <1>4, ShownChanges

\* What the three places show is well-formed and of the scope in use.
AnswersOfScope ==
    /\ list # None => list.scope = scope
    /\ results # None => results.scope = scope
    /\ history # None => history.scope = scope

LEMMA AnswersStep ==
    ASSUME Inv, [Next]_vars
    PROVE  ShownOK' /\ AnswersOfScope'
<1>0. ShownOK /\ ShownIsOfScope BY DEF Inv
<1>1. ASSUME NEW q \in requests, Answered(q)
      PROVE  /\ q.scope = scope /\ scope \in Scopes /\ q.reply \in Versions /\ q.id \in Ids
             /\ q.channel = History => q.body.record \in Records
                                     /\ q.reply[q.body.record] \in 0..MaxRequests
  <2>1. /\ q.scope = scope /\ scope \in Scopes /\ q.reply \in Versions /\ q.id \in Ids
        /\ Carries(q)
    BY <1>1, AnswerEarns, NetFacts DEF Request, NetOK
  <2>2. q.channel = History => q.body.record \in Records BY <2>1, ChannelKinds DEF Carries
  <2> QED BY <2>1, <2>2 DEF Versions
<1>2. /\ list' \in [scope : Scopes, versions : Versions] \cup {None}
      /\ list' # None => list'.scope = scope'
  <2>1. ASSUME NEW q \in requests, ListRead(q)
        PROVE  list' \in [scope : Scopes, versions : Versions] /\ list'.scope = scope'
    BY <1>1, <2>1 DEF ListRead
  <2> QED BY <1>0, <2>1, ShownChanges DEF ShownOK, ShownIsOfScope
<1>3. /\ results' \in [scope : Scopes, trace : Ids, versions : Versions] \cup {None}
      /\ results' # None => results'.scope = scope'
  <2>1. ASSUME NEW q \in requests, RecallRead(q)
        PROVE  /\ results' \in [scope : Scopes, trace : Ids, versions : Versions]
               /\ results'.scope = scope'
    BY <1>1, <2>1 DEF RecallRead
  <2> QED BY <1>0, <2>1, ShownChanges DEF ShownOK, ShownIsOfScope
<1>4. /\ history' \in [scope : Scopes, record : Records, version : 0..MaxRequests] \cup {None}
      /\ history' # None => history'.scope = scope'
  <2>1. ASSUME NEW q \in requests, HistoryRead(q)
        PROVE  /\ history' \in [scope : Scopes, record : Records, version : 0..MaxRequests]
               /\ history'.scope = scope'
    BY <1>1, <2>1 DEF HistoryRead
  <2>2. ASSUME NEW m \in Records, OpenHistory(m)
        PROVE  /\ history' \in [scope : Scopes, record : Records, version : 0..MaxRequests]
               /\ history'.scope = scope'
    BY <2>2, NetFacts, NoBodyIsBody DEF OpenHistory
  <2> QED BY <1>0, <2>1, <2>2, ShownChanges DEF ShownOK, ShownIsOfScope
<1> QED BY <1>2, <1>3, <1>4 DEF ShownOK, AnswersOfScope

-----------------------------------------------------------------------------
(* Where drafts go.                                                        *)

\* Bodies a submission may carry: what a form holds, or a verdict.
Submittable(body) ==
    \/ body.draft = 0
    \/ form # None /\ body = form
    \/ dialog # None /\ body = dialog

LEMMA OperationsChange ==
    ASSUME Next
    PROVE  \/ operations' = operations /\ scope' = scope
           \/ operations' = << >>
           \/ scope' = scope /\ \E m \in Records :
                  operations' = Without(operations, Correction(m))
           \/ scope' = scope /\ \E c, body, key : Submittable(body)
                  /\ operations' = With(operations, c, [body |-> body, key |-> key])
<1>1. CASE Refresh \/ GoToMemories \/ LeaveMemories \/ Type \/ SubmitRecall
           \/ \E m \in Records : OpenHistory(m)
  BY <1>1 DEF Refresh, GoToMemories, LeaveMemories, Type, SubmitRecall, OpenHistory
<1>2. CASE \E m \in Records : OpenCorrection(m) BY <1>2 DEF OpenCorrection
<1>3. CASE (\E s \in Scopes : ApplyScope(s)) \/ Reload
  BY <1>3 DEF ApplyScope, Reload, Blank
<1>4. CASE SubmitMemory BY <1>4 DEF SubmitMemory, SubmitCommand, Submittable
<1>5. CASE SubmitCorrection BY <1>5 DEF SubmitCorrection, SubmitCommand, Submittable
<1>6. ASSUME NEW m \in Records, NEW k \in Kinds, RecordOutcome(m, k)
      PROVE  scope' = scope /\ \E c, body, key : Submittable(body)
                 /\ operations' = With(operations, c, [body |-> body, key |-> key])
  <2>1. PICK body : body = [NoBody EXCEPT !.record = m, !.kind = k] OBVIOUS
  <2>2. body.draft = 0 BY <2>1 DEF NoBody
  <2> QED BY <1>6, <2>1, <2>2 DEF RecordOutcome, SubmitCommand, Submittable
<1>7. ASSUME NEW q, Serve(q) PROVE UNCHANGED <<operations, scope>> BY <1>7 DEF Serve, page
<1>8. ASSUME NEW q, Settle(q) PROVE UNCHANGED <<operations, scope>>
  BY <1>8 DEF Settle, Cancelled, Failed, ListRead, Saved, RecallRead, OutcomeSaved, HistoryRead
<1> QED BY <1>1, <1>2, <1>3, <1>4, <1>5, <1>6, <1>7, <1>8 DEF Next, User

\* A command is older than the step, or what the user submits now.
LEMMA CommandsAfter ==
    ASSUME Inv, Next
    PROVE  \A a \in Commands' : a \in Commands \/ (a.scope = scope /\ Submittable(a.body))
<1>1. \A a \in Pending' : a \in Pending \/ (a.scope = scope /\ Submittable(a.body))
  <2>1. CASE operations' = operations /\ scope' = scope BY <2>1, SamePending
  <2>2. CASE operations' = << >> BY <2>2, NoPending
  <2>3. CASE scope' = scope /\ \E m \in Records :
                 operations' = Without(operations, Correction(m))
    BY <2>3 DEF Pending, Without
  <2>4. ASSUME scope' = scope, NEW c, NEW body, NEW key, Submittable(body),
               operations' = With(operations, c, [body |-> body, key |-> key])
        PROVE  \A a \in Pending' : a \in Pending \/ (a.scope = scope /\ Submittable(a.body))
    <3>1. /\ DOMAIN operations' = DOMAIN operations \cup {c}
          /\ operations'[c].body = body
          /\ \A d \in DOMAIN operations : d # c => operations'[d] = operations[d]
      BY <2>4 DEF With
    <3>2. ASSUME NEW d \in DOMAIN operations'
          PROVE  LET a == [channel |-> d, scope |-> scope, body |-> operations'[d].body,
                           key |-> operations'[d].key]
                 IN  a \in Pending \/ (a.scope = scope /\ Submittable(a.body))
      <4>1. CASE d = c BY <2>4, <3>1, <4>1
      <4>2. CASE d # c BY <3>1, <3>2, <4>2 DEF Pending
      <4> QED BY <4>1, <4>2
    <3> QED BY <2>4, <3>2 DEF Pending
  <2> QED BY <2>1, <2>2, <2>3, <2>4, OperationsChange
<1>2. applied' \subseteq applied \cup Asked
  <2>1. CASE UNCHANGED server BY <2>1 DEF server
  <2>2. ASSUME NEW q \in requests, Serve(q) PROVE applied' \subseteq applied \cup Asked
    BY <2>2, ServedWasAsked
  <2>3. UNCHANGED server \/ \E q \in requests : Serve(q) BY PageKeepsServer
  <2> QED BY <2>1, <2>2, <2>3
<1>3. Commands' \subseteq Commands \cup Pending' BY <1>2, NextNetStep, CommandsFrom
<1>4. Pending \subseteq Commands BY DEF Commands
<1> QED BY ONLY <1>1, <1>3, <1>4

LEMMA FormsChange ==
    ASSUME [Next]_vars
    PROVE  \/ form' = None /\ dialog' = None /\ drafted' = drafted
           \/ scope' = scope /\ form' = form /\ dialog' \in {dialog, None} /\ drafted' = drafted
           \/ /\ scope' = scope /\ drafted' = Append(drafted, scope)
              /\ \/ form'.draft = typed + 1 /\ dialog' = dialog
                 \/ form' = form /\ dialog'.draft = typed + 1
<1>1. CASE Refresh \/ GoToMemories \/ LeaveMemories \/ SubmitRecall \/ SubmitMemory
           \/ SubmitCorrection
           \/ \E m \in Records : OpenHistory(m) \/ \E k \in Kinds : RecordOutcome(m, k)
  BY <1>1 DEF Refresh, GoToMemories, LeaveMemories, SubmitRecall, SubmitMemory,
              SubmitCorrection, OpenHistory, RecordOutcome, bounds
<1>2. CASE Type
  <2>1. PICK m \in Records : form' = [NoBody EXCEPT !.record = m, !.draft = typed + 1]
    BY <1>2 DEF Type
  <2>2. form'.draft = typed + 1 BY <2>1 DEF NoBody
  <2> QED BY <1>2, <2>2 DEF Type
<1>3. ASSUME NEW m \in Records, OpenCorrection(m)
      PROVE  /\ scope' = scope /\ drafted' = Append(drafted, scope)
             /\ form' = form /\ dialog'.draft = typed + 1
  <2>1. PICK base \in Shown(m) :
            dialog' = [NoBody EXCEPT !.record = m, !.draft = typed + 1, !.base = base]
    BY <1>3 DEF OpenCorrection
  <2>2. dialog'.draft = typed + 1 BY <2>1 DEF NoBody
  <2> QED BY <1>3, <2>2 DEF OpenCorrection
<1>4. CASE (\E s \in Scopes : ApplyScope(s)) \/ Reload
  BY <1>4 DEF ApplyScope, Reload, Blank, bounds
<1>5. CASE UNCHANGED vars BY <1>5 DEF vars, page, bounds
<1>6. ASSUME NEW q, Serve(q) PROVE UNCHANGED <<scope, form, dialog, drafted>>
  BY <1>6 DEF Serve, page, bounds
<1>7. ASSUME NEW q, Settle(q)
      PROVE  UNCHANGED <<scope, form, drafted>> /\ dialog' \in {dialog, None}
  BY <1>7 DEF Settle, Cancelled, Failed, ListRead, Saved, RecallRead, OutcomeSaved,
              HistoryRead, bounds
<1> QED BY <1>1, <1>2, <1>3, <1>4, <1>5, <1>6, <1>7 DEF Next, User

LEMMA DraftsStep ==
    ASSUME Inv, [Next]_vars
    PROVE  DraftsOK'
<1>0. /\ typed \in Nat
      /\ form # None => form.draft \in 1..typed /\ drafted[form.draft] = scope
      /\ dialog # None => dialog.draft \in 1..typed /\ drafted[dialog.draft] = scope
  BY NetFacts DEF Inv, FormsOK, OwnDraft, DraftsOK
<1>1. \A n \in 1..typed : drafted'[n] = drafted[n]
  BY FormsChange, DraftedGrows
<1>2. form' # None => drafted'[form'.draft] = scope'
  BY <1>0, <1>1, FormsChange, DraftedGrows
<1>3. dialog' # None => drafted'[dialog'.draft] = scope'
  BY <1>0, <1>1, FormsChange, DraftedGrows
<1>4. ASSUME NEW a \in Commands', a.body.draft # 0
      PROVE  drafted'[a.body.draft] = a.scope
  <2>1. CASE a \in Commands
    <3>1. a.body.draft \in 1..typed BY <1>0, <1>4, <2>1, CommandFacts
    <3>2. drafted[a.body.draft] = a.scope BY <1>4, <2>1 DEF Inv, DraftsOK
    <3> QED BY <1>1, <3>1, <3>2
  <2>2. CASE a.scope = scope /\ Submittable(a.body)
    BY <1>0, <1>1, <1>4, <2>2 DEF Submittable
  <2>3. CASE UNCHANGED vars
    <3>1. Commands' = Commands
      BY <2>3 DEF vars, page, server, Commands, Asked, Pending, Entry
    <3> QED BY <1>4, <2>1, <3>1
  <2> QED BY <1>4, <2>1, <2>2, <2>3, CommandsAfter
<1> QED BY <1>2, <1>3, <1>4 DEF DraftsOK

LEMMA ShownStep ==
    ASSUME Inv, [Next]_vars
    PROVE  ShownIsOfScope'
<1>1. AnswersOfScope' /\ DraftsOK' BY AnswersStep, DraftsStep
<1>2. \A a \in applied' : a.body.draft # 0 => drafted'[a.body.draft] = a.scope
  BY <1>1 DEF DraftsOK, Commands
<1> QED BY <1>1, <1>2 DEF AnswersOfScope, DraftsOK, ShownIsOfScope

-----------------------------------------------------------------------------
(* What is busy.                                                           *)

LEMMA ControlShared ==
    /\ \A c \in Channels : c[1] # "correction" => Control(c) = c
    /\ \A c \in Channels : c[1] = "correction" => Control(c) = Correction(None)
    /\ Correction(None)[1] = "correction" /\ \A c \in Channels : Control(c)[1] = c[1]
    /\ \A c, d \in Channels : c[1] # "correction" /\ Control(c) = Control(d) => c = d
<1>1. Correction(None)[1] = "correction" BY DEF Correction
<1>2. \A c \in Channels : Control(c) = IF c[1] = "correction" THEN Correction(None) ELSE c
  BY DEF Control
<1> QED BY <1>1, <1>2

LEMMA AloneFrame ==
    ASSUME Inv, \A r \in requests' : \E q \in requests : Continues(q, r)
    PROVE  Alone'
<1> SUFFICES ASSUME NEW a \in requests', NEW b \in requests', a.page # "gone", b.page = "open",
                    Control(a.channel) = Control(b.channel)
             PROVE  a.channel = b.channel
  BY DEF Alone
<1>1. PICK q \in requests : Continues(q, a) OBVIOUS
<1>2. PICK r \in requests : Continues(r, b) OBVIOUS
<1>3. q.page # "gone" /\ r.page = "open" /\ q.channel = a.channel /\ r.channel = b.channel
  <2>1. q \in Request /\ r \in Request BY NetFacts
  <2>2. q.page \in {"open", "aborted", "gone"} /\ r.page \in {"open", "aborted", "gone"}
    BY <2>1 DEF Request
  <2>3. q.channel = a.channel /\ r.channel = b.channel BY <1>1, <1>2 DEF Continues
  <2>4. q.page # "gone" /\ r.page = "open" BY <1>1, <1>2, <2>2 DEF Continues
  <2> QED BY <2>3, <2>4
<1> QED BY <1>3 DEF Inv, Alone

LEMMA AloneSend ==
    ASSUME Inv, NEW rs, NEW chs, NEW g, NEW s, NetOK(rs, chs, sent, g, s),
           \A r \in rs : \E q \in requests : Continues(q, r),
           NEW new, new.channel \in Channels, SendFrom(rs, chs, new),
           \A q \in requests : q.page # "gone" /\ Control(q.channel) = Control(new.channel)
               => q.channel = new.channel
    PROVE  Alone'
<1> SUFFICES ASSUME NEW a \in requests', NEW b \in requests', a.page # "gone", b.page = "open",
                    Control(a.channel) = Control(b.channel)
             PROVE  a.channel = b.channel
  BY DEF Alone
<1>1. \A r \in requests' : r = new \/ \E q \in requests : Continues(q, r)
  <2>1. requests' = AbortChannel(rs, chs, new.channel) \cup {new} BY DEF SendFrom
  <2>2. \A r \in AbortChannel(rs, chs, new.channel) : \E p \in rs : Continues(p, r)
    BY AbortEffect
  <2>3. \A r \in AbortChannel(rs, chs, new.channel) : \E q \in requests : Continues(q, r)
    BY <2>2 DEF Continues
  <2> QED BY <2>1, <2>3
<1>2. ASSUME NEW q \in requests, NEW r, Continues(q, r)
      PROVE  /\ q.channel = r.channel /\ (r.page # "gone" => q.page # "gone")
             /\ (r.page = "open" => q.page = "open")
  BY <1>2 DEF Continues
<1>3. CASE a = new /\ b = new BY <1>3
<1>4. ASSUME NEW q \in requests, Continues(q, a), b = new PROVE a.channel = b.channel
  BY <1>2, <1>4
<1>5. ASSUME NEW r \in requests, Continues(r, b), a = new PROVE a.channel = b.channel
  BY <1>2, <1>5
<1>6. ASSUME NEW q \in requests, Continues(q, a), NEW r \in requests, Continues(r, b)
      PROVE  a.channel = b.channel
  <2>1. /\ q.page # "gone" /\ r.page = "open" /\ Control(q.channel) = Control(r.channel)
        /\ q.channel = a.channel /\ r.channel = b.channel
    BY <1>2, <1>6
  <2> QED BY <2>1 DEF Inv, Alone
<1> QED BY <1>1, <1>3, <1>4, <1>5, <1>6

LEMMA AloneStep ==
    ASSUME Inv, [Next]_vars
    PROVE  Alone'
<1>0. /\ \A q \in requests : q \in Request /\ q.channel \in Channels /\ Continues(q, q)
      /\ NetOK(requests, channels, sent, generation, scope)
  BY NetFacts DEF Request
<1>1. ASSUME NEW rs, NEW chs, NEW g, NEW s, NetOK(rs, chs, sent, g, s),
             \A r \in rs : \E q \in requests : Continues(q, r), LoadFrom(rs, chs, s, g)
      PROVE  Alone'
  <2>1. PICK new : new = NewRequest(Memories, s, g, NoBody, 0) OBVIOUS
  <2>2. SendFrom(rs, chs, new) /\ new.channel = Memories BY <1>1, <2>1 DEF LoadFrom, NewRequest
  <2>3. Memories \in Channels /\ Memories[1] # "correction" BY ChannelKinds
  <2>4. \A q \in requests : Control(q.channel) = Control(Memories) => q.channel = Memories
    BY <1>0, <2>3, ControlShared
  <2> QED BY <1>1, <2>2, <2>3, <2>4, AloneSend
<1>2. ASSUME NEW c \in Channels, NEW body, NEW key, Send(c, body, key),
             \A q \in requests : q.page # "gone" /\ Control(q.channel) = Control(c)
                 => q.channel = c
      PROVE  Alone'
  <2>1. PICK new : new = NewRequest(c, scope, generation, body, key) OBVIOUS
  <2>2. SendFrom(requests, channels, new) /\ new.channel = c
    BY <1>2, <2>1 DEF Send, NewRequest
  <2> QED BY <1>0, <1>2, <2>2, AloneSend
<1>3. \A c \in Channels : c[1] # "correction" =>
          \A q \in requests : Control(q.channel) = Control(c) => q.channel = c
  BY <1>0, ControlShared
<1>4. CASE UNCHANGED requests BY <1>0, <1>4, AloneFrame
<1>5. CASE Refresh \/ GoToMemories
  BY <1>0, <1>1, <1>5 DEF Refresh, GoToMemories, LoadMemories
<1>6. CASE LeaveMemories \/ Type \/ (\E m \in Records : OpenCorrection(m)) \/ UNCHANGED vars
  BY <1>4, <1>6 DEF LeaveMemories, Type, OpenCorrection, vars
<1>7. CASE SubmitMemory
  BY <1>2, <1>3, <1>7, ChannelKinds DEF SubmitMemory, SubmitCommand
<1>8. CASE SubmitRecall
  BY <1>2, <1>3, <1>8, ChannelKinds DEF SubmitRecall
<1>9. ASSUME NEW m \in Records, OpenHistory(m) PROVE Alone'
  BY <1>2, <1>3, <1>9, ChannelKinds DEF OpenHistory
<1>10. ASSUME NEW m \in Records, NEW kind \in Kinds, RecordOutcome(m, kind) PROVE Alone'
  <2>1. results # None /\ Card(m, results.trace) \in Channels
        /\ Card(m, results.trace)[1] # "correction"
    BY <1>10, Bodies, ChannelKinds DEF RecordOutcome
  <2> QED BY <1>2, <1>3, <1>10, <2>1 DEF RecordOutcome, SubmitCommand
<1>11. CASE Quiet /\ SubmitCorrection
  <2>1. PICK c : c = Correction(dialog.record) OBVIOUS
  <2>2. /\ c \in Channels /\ Correction(None) \notin busy /\ Control(c) = Correction(None)
        /\ Send(c, dialog, IdempotencyKeyFor(c, dialog))
    BY <1>11, <2>1, Bodies, ChannelKinds, ControlShared DEF SubmitCorrection, SubmitCommand
  <2>3. \A d \in DOMAIN channels : Control(d) # Correction(None)
    BY <2>2 DEF Inv, BusyOK, BusyFor
  <2>4. ASSUME NEW q \in requests, q.page # "gone" PROVE Control(q.channel) # Correction(None)
    <3>1. q.page = "open" BY <1>0, <1>11, <2>4 DEF Quiet, Request
    <3>2. q.channel \in DOMAIN channels BY <1>0, <3>1 DEF NetOK
    <3> QED BY <2>3, <3>2
  <2> QED BY <1>2, <2>2, <2>4
<1>12. CASE (\E s \in Scopes : ApplyScope(s)) \/ Reload
  <2>1. ASSUME NEW h, NEW t
        PROVE  /\ NetOK(AbortAll(requests), << >>, sent, h, t)
               /\ NetOK(UNION {Left(q) : q \in requests}, << >>, sent, h, t)
               /\ \A r \in AbortAll(requests) : \E q \in requests : Continues(q, r)
               /\ \A r \in UNION {Left(q) : q \in requests} : \E q \in requests : Continues(q, r)
    BY NetFacts, LeaveKeepsNet
  <2>2. ASSUME NEW s \in Scopes, ApplyScope(s) PROVE Alone'
    <3>1. LoadFrom(AbortAll(requests), << >>, s, generation + 1) BY <2>2 DEF ApplyScope
    <3> QED BY <1>1, <2>1, <3>1
  <2>3. CASE Reload
    <3>1. LoadFrom(UNION {Left(q) : q \in requests}, << >>, scope, 0) BY <2>3 DEF Reload
    <3>2. PICK left : left = UNION {Left(q) : q \in requests} OBVIOUS
    <3> QED BY <1>1, <2>1, <3>1, <3>2
  <2> QED BY <1>12, <2>2, <2>3
<1>13. ASSUME NEW q \in requests, Serve(q) PROVE Alone'
  <2>1. PICK reply : reply = versions'[q.scope] OBVIOUS
  <2>2. reply \in Versions /\ Replied(q, reply)
    BY <1>13, <2>1, ServeEffect, VersionsCounted
  <2>3. Continues(q, [q EXCEPT !.reply = reply]) BY <1>0, <2>2, ReplyEffect
  <2>4. \A r \in requests' : r \in requests \/ r = [q EXCEPT !.reply = reply]
    BY <2>2 DEF Replied
  <2> QED BY <1>0, <2>3, <2>4, AloneFrame
<1>14. ASSUME NEW q \in requests
       PROVE  /\ NetOK(Gone(q), ReleasedBy(q), sent, generation, scope)
              /\ \A r \in Gone(q) : \E p \in requests : Continues(p, r)
  BY <1>0, EndKeepsNet
<1>15. ASSUME NEW q \in requests, Ended(q) PROVE Alone'
  BY <1>14, <1>15, EndedEffect, AloneFrame
<1>16. ASSUME NEW q \in requests, Saved(q) PROVE Alone'
  BY <1>1, <1>14, <1>16 DEF Saved
<1> QED BY <1>5, <1>6, <1>7, <1>8, <1>9, <1>10, <1>11, <1>12, <1>13, <1>15, <1>16
        DEF Next, User, Settle, Ended

\* A channel in use is one some open request waits on, alone.
LEMMA UsedFacts ==
    ASSUME Inv
    PROVE  /\ DOMAIN channels \subseteq Channels
           /\ \A q \in requests : q.page # "gone" =>
                 \A d \in DOMAIN channels : Control(d) = Control(q.channel) => d = q.channel
           /\ {q.channel : q \in {r \in requests : r.page = "open"}} = DOMAIN channels
<1>1. /\ \A c \in DOMAIN channels : \E q \in requests :
             q.id = channels[c] /\ q.channel = c /\ q.page = "open"
      /\ \A q \in requests : q.page = "open" => q.channel \in DOMAIN channels
      /\ \A q \in requests : q.channel \in Channels
  BY NetFacts DEF NetOK, Request
<1>2. ASSUME NEW q \in requests, q.page # "gone", NEW d \in DOMAIN channels,
             Control(d) = Control(q.channel)
      PROVE  d = q.channel
  <2>1. PICK r \in requests : r.channel = d /\ r.page = "open" BY <1>1
  <2> QED BY <1>2, <2>1 DEF Inv, Alone
<1>3. DOMAIN channels \subseteq Channels BY <1>1
<1>4. {q.channel : q \in {r \in requests : r.page = "open"}} = DOMAIN channels
  <2>1. \A c \in DOMAIN channels : c \in {q.channel : q \in {r \in requests : r.page = "open"}}
    BY <1>1
  <2>2. \A q \in {r \in requests : r.page = "open"} : q.channel \in DOMAIN channels BY <1>1
  <2> QED BY <2>1, <2>2
<1> QED BY <1>2, <1>3, <1>4

LEMMA BusyUsed ==
    ASSUME Inv, NEW b, NEW used, used \subseteq Channels, BusyFor(b, used), NEW c \in Channels
    PROVE  BusyFor(b \cup {Control(c)}, used \cup {c})
  BY ControlShared DEF BusyFor

LEMMA BusyFreed ==
    ASSUME Inv, NEW b, NEW used, used \subseteq Channels, BusyFor(b, used), NEW c \in Channels,
           \A d \in used : Control(d) = Control(c) => d = c
    PROVE  BusyFor(b \ {Control(c)}, used \ {c})
  BY ControlShared DEF BusyFor

LEMMA BusyGrows ==
    ASSUME NEW b, NEW used, BusyFor(b, used), applied \subseteq applied'
    PROVE  BusyFor(b, used)'
  BY DEF BusyFor

\* History has no control, and neither has a card whose verdict is recorded.
LEMMA BusyElse ==
    ASSUME Inv, NEW b, NEW used, used \subseteq Channels, BusyFor(b, used), NEW c \in Channels,
           c[1] = "history" \/ (c[1] = "outcome" /\ \E a \in applied : a.channel = c)
    PROVE  BusyFor(b, used \ {c})
<1>1. \A x \in {Memories, Write, Recall, Correction(None)} : x # Control(c)
  BY ControlShared, ChannelKinds
<1> QED BY <1>1 DEF BusyFor

LEMMA BusyHistory ==
    ASSUME Inv, NEW b, NEW used, used \subseteq Channels, BusyFor(b, used)
    PROVE  BusyFor(b, used \cup {History})
<1>1. \A x \in {Memories, Write, Recall, Correction(None)} : x # Control(History)
  BY ControlShared, ChannelKinds
<1>2. History[1] = "history" BY ChannelKinds
<1> QED BY <1>1, <1>2 DEF BusyFor

LEMMA FreedByOpen ==
    ASSUME Inv, NEW q \in requests, q.page = "open"
    PROVE  /\ DOMAIN ReleasedBy(q) = DOMAIN channels \ {q.channel}
           /\ FreedBy(q) = busy \ {Control(q.channel)}
           /\ BusyFor(FreedBy(q), DOMAIN ReleasedBy(q))
<1>1. DOMAIN ReleasedBy(q) = DOMAIN channels \ {q.channel} BY NetFacts, EndKeepsNet
<1>2. FreedBy(q) = busy \ {Control(q.channel)} BY <1>1 DEF FreedBy
<1>3. BusyFor(busy, DOMAIN channels) /\ q.channel \in Channels
  BY NetFacts DEF Inv, BusyOK, Request
<1>4. BusyFor(busy \ {Control(q.channel)}, DOMAIN channels \ {q.channel})
  BY <1>3, UsedFacts, BusyFreed
<1> QED BY <1>1, <1>2, <1>4

LEMMA BusyStep ==
    ASSUME Inv, [Next]_vars
    PROVE  BusyOK'
<1>0. /\ BusyFor(busy, DOMAIN channels) /\ DOMAIN channels \subseteq Channels
      /\ applied \subseteq applied'
      /\ \A q \in requests : q \in Request /\ q.channel \in Channels
  BY UsedFacts, ServerGrows, NetFacts DEF Inv, BusyOK, Grows, Request
<1> SUFFICES BusyFor(busy', DOMAIN channels')
  <2>1. PICK b : b = busy' OBVIOUS
  <2>2. PICK used : used = DOMAIN channels' OBVIOUS
  <2>3. BusyFor(b, used)' BY <1>0, <2>1, <2>2, BusyGrows
  <2> QED BY <2>1, <2>2, <2>3 DEF BusyOK
<1>1. ASSUME UNCHANGED <<busy, channels>> PROVE BusyFor(busy', DOMAIN channels')
  BY <1>0, <1>1
<1>2. ASSUME NEW c \in Channels, DOMAIN channels' = DOMAIN channels \cup {c},
             busy' = busy \cup {Control(c)}
      PROVE  BusyFor(busy', DOMAIN channels')
  BY <1>0, <1>2, BusyUsed
<1>3. \A c \in Channels : \A body, key : Send(c, body, key) =>
          DOMAIN channels' = DOMAIN channels \cup {c}
  BY DEF Send, SendFrom, NewRequest, With
<1>4. \A c \in Channels : \A body : SubmitCommand(c, body) =>
          DOMAIN channels' = DOMAIN channels \cup {c}
  BY <1>3 DEF SubmitCommand
<1>5. \A rs, chs, s, g : LoadFrom(rs, chs, s, g) => DOMAIN channels' = DOMAIN chs \cup {Memories}
  BY DEF LoadFrom, SendFrom, NewRequest, With
<1>6. /\ Memories \in Channels /\ Control(Memories) = Memories
      /\ Write \in Channels /\ Control(Write) = Write
      /\ Recall \in Channels /\ Control(Recall) = Recall
      /\ History \in Channels /\ History[1] = "history"
      /\ \A m \in Records, t \in Ids : Card(m, t) \in Channels /\ Control(Card(m, t)) = Card(m, t)
      /\ \A m \in Records : Control(Correction(m)) = Correction(None)
  BY ChannelKinds, ControlShared
<1>7. CASE Refresh \/ GoToMemories
  <2>1. LoadFrom(requests, channels, scope, generation) /\ busy' = busy \cup {Memories}
    BY <1>7 DEF Refresh, GoToMemories, LoadMemories
  <2> QED BY <1>2, <1>5, <1>6, <2>1
<1>8. CASE LeaveMemories \/ Type \/ (\E m \in Records : OpenCorrection(m)) \/ UNCHANGED vars
  BY <1>1, <1>8 DEF LeaveMemories, Type, OpenCorrection, vars, page
<1>9. CASE SubmitMemory
  <2>1. SubmitCommand(Write, form) /\ busy' = busy \cup {Write} BY <1>9 DEF SubmitMemory
  <2> QED BY <1>2, <1>4, <1>6, <2>1
<1>10. CASE SubmitRecall
  <2>1. Send(Recall, NoBody, 0) /\ busy' = busy \cup {Recall} BY <1>10 DEF SubmitRecall
  <2> QED BY <1>2, <1>3, <1>6, <2>1
<1>11. CASE SubmitCorrection
  <2>1. /\ dialog # None /\ SubmitCommand(Correction(dialog.record), dialog)
        /\ busy' = busy \cup {Correction(None)}
    BY <1>11 DEF SubmitCorrection
  <2>2. dialog.record \in Records /\ Correction(dialog.record) \in Channels BY <2>1, Bodies
  <2> QED BY <1>2, <1>4, <1>6, <2>1, <2>2
<1>12. ASSUME NEW m \in Records, NEW kind \in Kinds, RecordOutcome(m, kind)
       PROVE  BusyFor(busy', DOMAIN channels')
  <2>1. PICK c : c = Card(m, results.trace) OBVIOUS
  <2>2. /\ results # None /\ busy' = busy \cup {c}
        /\ SubmitCommand(c, [NoBody EXCEPT !.record = m, !.kind = kind])
    BY <1>12, <2>1 DEF RecordOutcome
  <2>3. c \in Channels /\ Control(c) = c BY <1>6, <2>1, <2>2, Bodies
  <2> QED BY <1>2, <1>4, <2>2, <2>3
<1>13. ASSUME NEW m \in Records, OpenHistory(m) PROVE BusyFor(busy', DOMAIN channels')
  <2>1. Send(History, [NoBody EXCEPT !.record = m], 0) /\ busy' = busy
    BY <1>13 DEF OpenHistory
  <2>2. DOMAIN channels' = DOMAIN channels \cup {History} BY <1>3, <1>6, <2>1
  <2>3. BusyFor(busy, DOMAIN channels \cup {History}) BY <1>0, BusyHistory
  <2> QED BY <2>1, <2>2, <2>3
<1>14. CASE (\E s \in Scopes : ApplyScope(s)) \/ Reload
  <2>1. busy' = {Memories} /\ DOMAIN channels' = {Memories}
    BY <1>14, LeaveStep DEF ApplyScope, Reload, Blank
  <2> QED BY <1>6, <2>1, ChannelKinds, ControlShared DEF BusyFor
<1>15. ASSUME NEW q \in requests, Serve(q) PROVE BusyFor(busy', DOMAIN channels')
  BY <1>1, <1>15 DEF Serve, page
<1>16. ASSUME NEW q \in requests, Cancelled(q) PROVE BusyFor(busy', DOMAIN channels')
  <2>1. q.page # "open" /\ q.page # "gone"
    BY <1>16, NetFacts DEF Cancelled, Fresh, NetOK
  <2>2. channels' = channels /\ ReleasedBy(q) = channels
    BY <1>16, <2>1, NetFacts, EndKeepsNet DEF Cancelled
  <2>3. busy' = busy \/ (q.channel \notin DOMAIN channels /\ busy' = busy \ {Control(q.channel)})
    BY <1>16, <2>2 DEF Cancelled, FreedBy
  <2>4. ASSUME q.channel \notin DOMAIN channels
        PROVE  BusyFor(busy \ {Control(q.channel)}, DOMAIN channels)
    <3>1. BusyFor(busy \ {Control(q.channel)}, DOMAIN channels \ {q.channel})
      BY <1>0, <2>1, UsedFacts, BusyFreed
    <3>2. DOMAIN channels \ {q.channel} = DOMAIN channels BY <2>4
    <3> QED BY <3>1, <3>2
  <2> QED BY <1>0, <2>2, <2>3, <2>4
<1>17. ASSUME NEW q \in requests, Failed(q) \/ ListRead(q) \/ RecallRead(q)
       PROVE  BusyFor(busy', DOMAIN channels')
  <2>1. /\ Fresh(q) /\ busy' = FreedBy(q) /\ channels' = ReleasedBy(q)
    BY <1>17 DEF Failed, ListRead, RecallRead, Answered
  <2> QED BY <2>1, FreedByOpen DEF Fresh
<1>18. ASSUME NEW q \in requests, Saved(q) PROVE BusyFor(busy', DOMAIN channels')
  <2>1. /\ Fresh(q) /\ busy' = FreedBy(q) \cup {Memories}
        /\ LoadFrom(Gone(q), ReleasedBy(q), scope, generation)
    BY <1>18 DEF Saved, Answered
  <2>2. BusyFor(FreedBy(q), DOMAIN ReleasedBy(q)) /\ DOMAIN ReleasedBy(q) \subseteq Channels
    BY <1>0, <2>1, FreedByOpen DEF Fresh
  <2>3. BusyFor(FreedBy(q) \cup {Control(Memories)}, DOMAIN ReleasedBy(q) \cup {Memories})
    BY <1>6, <2>2, BusyUsed
  <2> QED BY <1>5, <1>6, <2>1, <2>3
<1>19. ASSUME NEW q \in requests, OutcomeSaved(q) \/ HistoryRead(q)
       PROVE  BusyFor(busy', DOMAIN channels')
  <2>1. /\ Answered(q) /\ busy' = busy /\ channels' = ReleasedBy(q)
        /\ q.channel[1] = "outcome" \/ q.channel[1] = "history"
    BY <1>6, <1>19 DEF OutcomeSaved, HistoryRead
  <2>2. q.page = "open" /\ (q.channel[1] = "outcome" => \E a \in applied : a.channel = q.channel)
    BY <2>1, AnswerEarns
  <2>3. DOMAIN ReleasedBy(q) = DOMAIN channels \ {q.channel} BY <2>2, FreedByOpen
  <2>4. BusyFor(busy, DOMAIN channels \ {q.channel})
    BY <1>0, <2>1, <2>2, BusyElse
  <2> QED BY <2>1, <2>3, <2>4
<1> QED BY <1>7, <1>8, <1>9, <1>10, <1>11, <1>12, <1>13, <1>14, <1>15, <1>16, <1>17, <1>18,
           <1>19 DEF Next, User, Settle

-----------------------------------------------------------------------------
(* Types.                                                                  *)

CountersOK ==
    /\ scope \in Scopes /\ generation \in Nat /\ view \in BOOLEAN
    /\ sent \in 0..MaxRequests /\ reloads \in 0..MaxReloads
    /\ drafted \in Seq(Scopes) /\ typed <= MaxDrafts

StepsOK == journey \subseteq Steps /\ stored \in [Scopes -> SUBSET Steps]

OperationsOK ==
    \A c \in DOMAIN operations : c \in Channels /\ operations[c] \in [body : Body, key : Ids]

ServerTypeOK ==
    /\ versions \in [Scopes -> Versions] /\ recalled \subseteq Scopes
    /\ applied \subseteq [channel : Channels, scope : Scopes, body : Body, key : Ids]

LEMMA CountersStep ==
    ASSUME Inv, [Next]_vars
    PROVE  CountersOK'
<1>0. CountersOK BY DEF Inv, TypeOK, CountersOK
<1>1. sent' = sent \/ (sent < MaxRequests /\ sent' = sent + 1)
  <2>1. CASE UNCHANGED vars BY <2>1 DEF vars
  <2>2. CASE User
    BY <2>2 DEF User, Refresh, GoToMemories, LeaveMemories, Type, SubmitMemory, SubmitRecall,
                RecordOutcome, OpenHistory, OpenCorrection, SubmitCorrection, ApplyScope, Reload,
                SubmitCommand, Send, LoadMemories, LoadFrom, SendFrom
  <2>3. ASSUME NEW q, Serve(q) PROVE sent' = sent BY <2>3 DEF Serve
  <2>4. ASSUME NEW q, Settle(q) PROVE sent' = sent \/ (sent < MaxRequests /\ sent' = sent + 1)
    <3>1. CASE Saved(q) BY <3>1 DEF Saved, LoadFrom, SendFrom
    <3>2. CASE Ended(q) BY <3>2, EndedEffect
    <3> QED BY <2>4, <3>1, <3>2 DEF Settle, Ended
  <2> QED BY <2>1, <2>2, <2>3, <2>4 DEF Next
<1>2. /\ scope' = scope \/ scope' \in Scopes
      /\ generation' \in {generation, generation + 1, 0}
      /\ view' \in {view, TRUE, FALSE}
      /\ drafted' = drafted \/ (typed < MaxDrafts /\ drafted' = Append(drafted, scope))
      /\ reloads' = reloads \/ (reloads < MaxReloads /\ reloads' = reloads + 1)
  <2>1. CASE UNCHANGED vars BY <2>1 DEF vars, page, bounds
  <2>2. CASE User
    BY <2>2 DEF User, Refresh, GoToMemories, LeaveMemories, Type, SubmitMemory, SubmitRecall,
                RecordOutcome, OpenHistory, OpenCorrection, SubmitCorrection, ApplyScope, Reload,
                bounds
  <2>3. ASSUME NEW q, Serve(q) PROVE UNCHANGED <<scope, generation, view, drafted, reloads>>
    BY <2>3 DEF Serve, page, bounds
  <2>4. ASSUME NEW q, Settle(q) PROVE UNCHANGED <<scope, generation, view, drafted, reloads>>
    <3>1. CASE Saved(q) BY <3>1 DEF Saved, bounds
    <3>2. CASE Ended(q) BY <3>2, EndedEffect DEF bounds
    <3> QED BY <2>4, <3>1, <3>2 DEF Settle, Ended
  <2> QED BY <2>1, <2>2, <2>3, <2>4 DEF Next
<1>3. scope' \in Scopes /\ generation' \in Nat /\ view' \in BOOLEAN
  <2>1. scope \in Scopes /\ generation \in Nat /\ view \in BOOLEAN BY <1>0 DEF CountersOK
  <2>2. scope' \in Scopes BY <1>2, <2>1
  <2>3. generation' \in Nat BY <1>2, <2>1
  <2>4. view' \in BOOLEAN BY <1>2, <2>1, Zenon
  <2> QED BY <2>2, <2>3, <2>4
<1>4. MaxRequests \in Nat /\ MaxDrafts \in Nat /\ MaxReloads \in Nat BY BoundAssumption
<1>5. sent' \in 0..MaxRequests
  <2>1. sent \in 0..MaxRequests BY <1>0 DEF CountersOK
  <2> QED BY <1>1, <1>4, <2>1
<1>6. reloads' \in 0..MaxReloads
  <2>1. reloads \in 0..MaxReloads BY <1>0 DEF CountersOK
  <2>2. reloads' = reloads \/ (reloads < MaxReloads /\ reloads' = reloads + 1) BY <1>2
  <2> QED BY <1>4, <2>1, <2>2
<1>7. drafted' \in Seq(Scopes) /\ typed' <= MaxDrafts
  <2>1. CASE drafted' = drafted BY <2>1, NetFacts DEF typed
  <2>2. CASE typed < MaxDrafts /\ drafted' = Append(drafted, scope)
    BY <2>2, NetFacts, DraftedGrows
  <2> QED BY <1>2, <2>1, <2>2
<1> QED BY <1>3, <1>5, <1>6, <1>7 DEF CountersOK

LEMMA StepsStep ==
    ASSUME Inv, [Next]_vars
    PROVE  StepsOK'
<1>0. StepsOK /\ scope \in Scopes BY NetFacts DEF Inv, TypeOK, StepsOK
<1>1. ASSUME NEW steps, steps \subseteq Steps, UpdateJourney(steps) PROVE StepsOK'
  BY <1>0, <1>1 DEF StepsOK, UpdateJourney
<1>2. ASSUME UNCHANGED <<journey, stored>> PROVE StepsOK'
  BY <1>0, <1>2 DEF StepsOK
<1>3. journey \cup {"write", "view", "recall", "outcome"} \subseteq Steps
  BY <1>0 DEF StepsOK, Steps
<1>4. CASE UNCHANGED vars BY <1>2, <1>4 DEF vars, page
<1>5. CASE GoToMemories
  <2>1. UpdateJourney(journey \cup {"view"}) \/ UNCHANGED <<journey, stored>>
    BY <1>5 DEF GoToMemories
  <2> QED BY <1>1, <1>2, <1>3, <2>1
<1>6. CASE Refresh \/ LeaveMemories \/ Type \/ SubmitMemory \/ SubmitRecall \/ SubmitCorrection
           \/ \E m \in Records : \/ \E kind \in Kinds : RecordOutcome(m, kind)
                                \/ OpenHistory(m) \/ OpenCorrection(m)
  <2>1. UNCHANGED <<journey, stored>>
    BY <1>6 DEF Refresh, LeaveMemories, Type, SubmitMemory, SubmitRecall, SubmitCorrection,
                RecordOutcome, OpenHistory, OpenCorrection
  <2> QED BY <1>2, <2>1
<1>7. CASE (\E s \in Scopes : ApplyScope(s)) \/ Reload
  <2>1. /\ stored' = stored
        /\ (\E s \in Scopes : journey' = stored[s])
    BY <1>0, <1>7 DEF ApplyScope, Reload
  <2> QED BY <1>0, <2>1 DEF StepsOK
<1>8. ASSUME NEW q \in requests, Serve(q) PROVE StepsOK'
  BY <1>2, <1>8 DEF Serve, page
<1>9. ASSUME NEW q \in requests, Settle(q) PROVE StepsOK'
  <2>1. \/ UNCHANGED <<journey, stored>>
        \/ UpdateJourney({})
        \/ UpdateJourney(journey \cup {"write"} \cup (IF view THEN {"view"} ELSE {}))
        \/ UpdateJourney(journey \cup {"write"})
        \/ UpdateJourney(journey \cup {"recall"})
        \/ UpdateJourney(journey \cup {"outcome"})
    <3>1. CASE Cancelled(q) \/ Failed(q) \/ HistoryRead(q)
      BY <3>1 DEF Cancelled, Failed, HistoryRead
    <3>2. CASE ListRead(q)
      <4>1. CASE \A m \in Records : q.reply[m] = 0 BY <3>2, <4>1 DEF ListRead
      <4>2. CASE ~ \A m \in Records : q.reply[m] = 0 BY <3>2, <4>2 DEF ListRead
      <4> QED BY <4>1, <4>2
    <3>3. CASE Saved(q) BY <3>3 DEF Saved
    <3>4. CASE RecallRead(q) BY <3>4 DEF RecallRead
    <3>5. CASE OutcomeSaved(q) BY <3>5 DEF OutcomeSaved
    <3> QED BY <1>9, <3>1, <3>2, <3>3, <3>4, <3>5 DEF Settle
  <2>2. PICK more : more = journey \cup {"write"} \cup (IF view THEN {"view"} ELSE {}) OBVIOUS
  <2>3. more \subseteq Steps BY <1>3, <2>2
  <2>4. /\ {} \subseteq Steps /\ journey \cup {"write"} \subseteq Steps
        /\ journey \cup {"recall"} \subseteq Steps /\ journey \cup {"outcome"} \subseteq Steps
    BY <1>3
  <2> QED BY <1>1, <1>2, <2>1, <2>2, <2>3, <2>4
<1> QED BY <1>4, <1>5, <1>6, <1>7, <1>8, <1>9 DEF Next, User

LEMMA BusyTypeStep ==
    ASSUME Inv, [Next]_vars
    PROVE  busy' \subseteq {Control(c) : c \in Channels}
<1> DEFINE Controls == {Control(c) : c \in Channels}
<1> SUFFICES busy' \subseteq Controls OBVIOUS
<1>0. busy \subseteq Controls BY DEF Inv, TypeOK
<1>1. /\ Memories \in Controls /\ Write \in Controls /\ Recall \in Controls
      /\ \A m \in Records : Correction(None) \in Controls
      /\ \A m \in Records, t \in Ids : Card(m, t) \in Controls
  <2>1. \A c \in Channels : Control(c) \in Controls OBVIOUS
  <2> HIDE DEF Controls
  <2>2. Memories = Control(Memories) /\ Write = Control(Write) /\ Recall = Control(Recall)
    BY ChannelKinds, ControlShared
  <2>3. \A m \in Records : Correction(None) = Control(Correction(m))
    BY ChannelKinds, ControlShared
  <2>4. \A m \in Records, t \in Ids : Card(m, t) = Control(Card(m, t))
    BY ChannelKinds, ControlShared
  <2>5. /\ Memories \in Controls /\ Write \in Controls /\ Recall \in Controls
    BY <2>1, <2>2, ChannelKinds
  <2>6. \A m \in Records : Correction(None) \in Controls BY <2>1, <2>3, ChannelKinds
  <2>7. \A m \in Records, t \in Ids : Card(m, t) \in Controls BY <2>1, <2>4, ChannelKinds
  <2> QED BY <2>5, <2>6, <2>7
<1> HIDE DEF Controls
<1>2. CASE UNCHANGED vars BY <1>0, <1>2 DEF vars, page
<1>3. CASE User
  <2>1. CASE SubmitCorrection
    <3>1. dialog # None /\ busy' = busy \cup {Correction(None)} BY <2>1 DEF SubmitCorrection
    <3> QED BY <1>0, <1>1, <3>1, Bodies
  <2>2. ASSUME NEW m \in Records, NEW kind \in Kinds, RecordOutcome(m, kind)
        PROVE  busy' \subseteq Controls
    <3>1. results # None /\ busy' = busy \cup {Card(m, results.trace)}
      BY <2>2 DEF RecordOutcome
    <3> QED BY <1>0, <1>1, <3>1, Bodies
  <2>3. CASE Refresh \/ GoToMemories \/ LeaveMemories \/ Type \/ SubmitMemory \/ SubmitRecall
             \/ \E m \in Records : OpenHistory(m) \/ OpenCorrection(m)
    BY <1>0, <1>1, <2>3 DEF Refresh, GoToMemories, LeaveMemories, Type, SubmitMemory,
              SubmitRecall, OpenHistory, OpenCorrection, LoadMemories
  <2>4. CASE (\E s \in Scopes : ApplyScope(s)) \/ Reload
    BY <1>1, <2>4 DEF ApplyScope, Reload, Blank
  <2> QED BY <1>3, <2>1, <2>2, <2>3, <2>4 DEF User
<1>4. ASSUME NEW q \in requests, Serve(q) PROVE busy' \subseteq Controls
  BY <1>0, <1>4 DEF Serve, page
<1>5. ASSUME NEW q \in requests, Settle(q) PROVE busy' \subseteq Controls
  <2>1. FreedBy(q) \subseteq busy BY DEF FreedBy
  <2>2. busy' = busy \/ busy' = FreedBy(q) \/ busy' = FreedBy(q) \cup {Memories}
    BY <1>5 DEF Settle, Cancelled, Failed, ListRead, Saved, RecallRead, OutcomeSaved, HistoryRead
  <2> QED BY <1>0, <1>1, <2>1, <2>2
<1> QED BY <1>2, <1>3, <1>4, <1>5 DEF Next

LEMMA OperationsStep ==
    ASSUME Inv, [Next]_vars
    PROVE  OperationsOK'
<1>0. OperationsOK BY DEF Inv, TypeOK, OperationsOK
<1>1. CASE UNCHANGED operations BY <1>0, <1>1 DEF OperationsOK
<1>2. ASSUME NEW c \in Channels, NEW body \in Body, SubmitCommand(c, body)
      PROVE  OperationsOK'
  <2>1. PICK key : key = IdempotencyKeyFor(c, body) OBVIOUS
  <2>2. operations' = With(operations, c, [body |-> body, key |-> key]) /\ sent < MaxRequests
    BY <1>2, <2>1 DEF SubmitCommand, Send, SendFrom
  <2>3. key \in Ids
    <3>1. key \in 1..(sent + 1) BY <2>1, KeyEffect
    <3> QED BY <2>2, <3>1, NetFacts DEF Ids
  <2>4. \A d \in DOMAIN operations' :
            \/ d = c /\ operations'[d] = [body |-> body, key |-> key]
            \/ d \in DOMAIN operations /\ operations'[d] = operations[d]
    BY <2>2 DEF With
  <2> QED BY <1>0, <2>3, <2>4 DEF OperationsOK
<1>3. CASE operations' = << >> BY <1>3 DEF OperationsOK
<1>4. ASSUME NEW m, OpenCorrection(m) PROVE OperationsOK'
  <2>1. operations' = Without(operations, Correction(m)) BY <1>4 DEF OpenCorrection
  <2>2. \A d \in DOMAIN operations' : d \in DOMAIN operations /\ operations'[d] = operations[d]
    BY <2>1 DEF Without
  <2> QED BY <1>0, <2>2 DEF OperationsOK
<1>5. CASE User
  <2>1. CASE SubmitMemory
    <3>1. form # None /\ SubmitCommand(Write, form) BY <2>1 DEF SubmitMemory
    <3> QED BY <1>2, <3>1, Bodies, ChannelKinds
  <2>2. CASE SubmitCorrection
    <3>1. dialog # None /\ SubmitCommand(Correction(dialog.record), dialog)
      BY <2>2 DEF SubmitCorrection
    <3> QED BY <1>2, <3>1, Bodies
  <2>3. ASSUME NEW m \in Records, NEW kind \in Kinds, RecordOutcome(m, kind)
        PROVE  OperationsOK'
    <3>1. /\ results # None
          /\ SubmitCommand(Card(m, results.trace), [NoBody EXCEPT !.record = m, !.kind = kind])
      BY <2>3 DEF RecordOutcome
    <3>2. /\ Card(m, results.trace) \in Channels
          /\ [NoBody EXCEPT !.record = m, !.kind = kind] \in Body
      BY <3>1, Bodies, ChannelKinds
    <3> QED BY <1>2, <3>1, <3>2
  <2>4. CASE Refresh \/ GoToMemories \/ LeaveMemories \/ Type \/ SubmitRecall
             \/ \E m \in Records : OpenHistory(m)
    <3>1. UNCHANGED operations
      BY <2>4 DEF Refresh, GoToMemories, LeaveMemories, Type, SubmitRecall, OpenHistory
    <3> QED BY <1>1, <3>1
  <2>5. CASE (\E s \in Scopes : ApplyScope(s)) \/ Reload
    BY <1>3, <2>5 DEF ApplyScope, Reload, Blank
  <2> QED BY <1>4, <1>5, <2>1, <2>2, <2>3, <2>4, <2>5 DEF User
<1>6. CASE UNCHANGED vars BY <1>1, <1>6 DEF vars, page
<1>7. ASSUME NEW q, Serve(q) PROVE OperationsOK' BY <1>1, <1>7 DEF Serve, page
<1>8. ASSUME NEW q, Settle(q) PROVE OperationsOK'
  <2>1. UNCHANGED operations
    BY <1>8 DEF Settle, Cancelled, Failed, ListRead, Saved, RecallRead, OutcomeSaved, HistoryRead
  <2> QED BY <1>1, <2>1
<1> QED BY <1>5, <1>6, <1>7, <1>8 DEF Next

LEMMA FormTypeStep ==
    ASSUME Inv, [Next]_vars
    PROVE  form' \in Body \cup {None} /\ dialog' \in Body \cup {None}
<1>0. form \in Body \cup {None} /\ dialog \in Body \cup {None} BY DEF Inv, TypeOK
<1>1. typed < MaxDrafts => typed + 1 \in 0..MaxDrafts BY NetFacts
<1>2. ASSUME NEW m \in Records, NEW base \in Shown(m) PROVE base \in 0..MaxRequests
  <2>1. PICK s \in {list, results} \ {None} : base = s.versions[m] BY DEF Shown
  <2>2. s.versions \in Versions BY <2>1 DEF Inv, ShownOK
  <2> QED BY <2>1, <2>2 DEF Versions
<1>3. CASE Type
  <2>1. /\ typed < MaxDrafts /\ dialog' = dialog
        /\ \E m \in Records : form' = [NoBody EXCEPT !.record = m, !.draft = typed + 1]
    BY <1>3 DEF Type
  <2> QED BY <1>0, <1>1, <2>1, NoBodyIsBody DEF NoBody, Body
<1>4. ASSUME NEW m \in Records, OpenCorrection(m)
      PROVE  form' \in Body \cup {None} /\ dialog' \in Body \cup {None}
  <2>1. typed < MaxDrafts /\ form' = form BY <1>4 DEF OpenCorrection
  <2>2. PICK base \in Shown(m) :
            dialog' = [NoBody EXCEPT !.record = m, !.draft = typed + 1, !.base = base]
    BY <1>4 DEF OpenCorrection
  <2>3. base \in 0..MaxRequests BY <1>2
  <2> QED BY <1>0, <1>1, <2>1, <2>2, <2>3, NoBodyIsBody DEF NoBody, Body
<1>5. CASE Refresh \/ GoToMemories \/ LeaveMemories \/ SubmitMemory \/ SubmitRecall
           \/ SubmitCorrection
           \/ \E m \in Records : OpenHistory(m) \/ \E k \in Kinds : RecordOutcome(m, k)
  <2>1. UNCHANGED <<form, dialog>>
    BY <1>5 DEF Refresh, GoToMemories, LeaveMemories, SubmitMemory, SubmitRecall,
                SubmitCorrection, OpenHistory, RecordOutcome
  <2> QED BY <1>0, <2>1
<1>6. CASE (\E s \in Scopes : ApplyScope(s)) \/ Reload
  BY <1>6 DEF ApplyScope, Reload, Blank
<1>7. CASE UNCHANGED vars BY <1>0, <1>7 DEF vars, page
<1>8. ASSUME NEW q, Serve(q) PROVE UNCHANGED <<form, dialog>> BY <1>8 DEF Serve, page
<1>9. ASSUME NEW q, Settle(q) PROVE form' = form /\ (dialog' = dialog \/ dialog' = None)
  BY <1>9 DEF Settle, Cancelled, Failed, ListRead, Saved, RecallRead, OutcomeSaved, HistoryRead
<1> QED BY <1>0, <1>3, <1>4, <1>5, <1>6, <1>7, <1>8, <1>9 DEF Next, User

LEMMA ServerTypeStep ==
    ASSUME Inv, [Next]_vars
    PROVE  ServerTypeOK'
<1>0. ServerTypeOK BY DEF Inv, TypeOK, ServerTypeOK
<1>1. CASE UNCHANGED server BY <1>0, <1>1 DEF ServerTypeOK, server
<1>2. ASSUME NEW q \in requests, Serve(q) PROVE ServerTypeOK'
  <2>1. versions' \in [Scopes -> Versions] BY <1>2, VersionsCounted
  <2>2. recalled' \subseteq Scopes
    BY <1>0, <1>2, ServeEffect DEF ServerTypeOK, server
  <2>3. applied' = applied \/ (applied' = applied \cup {Entry(q)} /\ q.key # 0)
    BY <1>2, ServeEffect DEF server
  <2>4. q.key # 0 => Entry(q) \in [channel : Channels, scope : Scopes, body : Body, key : Ids]
    <3>1. q \in Request BY NetFacts
    <3>2. q.key \in 0..MaxRequests BY <3>1 DEF Request
    <3>3. q.key # 0 => q.key \in Ids BY <3>2, NetFacts DEF Ids
    <3> QED BY <3>1, <3>3 DEF Request, Entry
  <2> QED BY <1>0, <2>1, <2>2, <2>3, <2>4 DEF ServerTypeOK
<1> QED BY <1>1, <1>2, PageKeepsServer

LEMMA TypeStep ==
    ASSUME Inv, [Next]_vars
    PROVE  TypeOK'
<1>1. NetOK(requests', channels', sent', generation', scope') BY NextNetStep DEF NetStep
<1>2. /\ requests' \subseteq Request
      /\ \A c \in DOMAIN channels' :
             \E q \in requests' : q.id = channels'[c] /\ q.channel = c /\ q.page = "open"
  BY <1>1 DEF NetOK
<1>3. CountersOK' /\ StepsOK' /\ OperationsOK' /\ ServerTypeOK'
  BY CountersStep, StepsStep, OperationsStep, ServerTypeStep
<1>4. busy' \subseteq {Control(c) : c \in Channels} BY BusyTypeStep
<1>5. form' \in Body \cup {None} /\ dialog' \in Body \cup {None} BY FormTypeStep
<1> QED BY <1>2, <1>3, <1>4, <1>5
        DEF TypeOK, CountersOK, StepsOK, OperationsOK, ServerTypeOK

-----------------------------------------------------------------------------
(* The invariant holds.                                                    *)

LEMMA InitInv ==
    ASSUME Init
    PROVE  Inv
<1> DEFINE first == [id |-> 1, channel |-> Memories, scope |-> scope, generation |-> 0,
                     body |-> NoBody, key |-> 0, page |-> "open", reply |-> None]
<1>1. requests = {first} BY DEF Init
<1>2. /\ MaxRequests \in Nat \ {0} /\ MaxDrafts \in Nat /\ MaxReloads \in Nat
      /\ 1 \in Ids /\ 1 \in 0..MaxRequests /\ 0 \in 0..MaxRequests
      /\ 0 \in 0..MaxDrafts /\ 0 \in 0..MaxReloads
  BY BoundAssumption DEF Ids
<1>3. scope \in Scopes BY DEF Init
<1>4. first \in Request BY <1>2, <1>3, NoBodyIsBody, ChannelKinds DEF Request
<1>5. /\ first.id = 1 /\ first.channel = Memories /\ first.scope = scope
      /\ first.generation = 0 /\ first.key = 0 /\ first.page = "open" /\ first.reply = None
  OBVIOUS
<1> HIDE DEF first
<1>6. channels = [c \in {Memories} |-> 1] BY DEF Init
<1>7. DOMAIN channels = {Memories} /\ channels[Memories] = 1 BY <1>6
<1>8. NetOK(requests, channels, sent, generation, scope)
  <2>1. Carries(first) BY <1>5, ChannelKinds DEF Carries, Commanding
  <2>2. sent = 1 /\ generation = 0 BY DEF Init
  <2> QED BY <1>1, <1>4, <1>5, <1>7, <2>1, <2>2 DEF NetOK
<1>9. versions = [s \in Scopes |-> [m \in Records |-> 0]] BY DEF Init
<1>10. versions \in [Scopes -> Versions] BY <1>2, <1>9 DEF Versions
<1>11. DOMAIN operations = {} BY DEF Init
<1>12. TypeOK
  <2>1. CountersOK
    <3>1. drafted = << >> BY DEF Init
    <3>2. drafted \in Seq(Scopes) BY <3>1
    <3>3. typed = 0 BY <3>1 DEF typed
    <3>4. sent = 1 /\ generation = 0 /\ view = FALSE /\ reloads = 0 BY DEF Init
    <3>5. typed <= MaxDrafts BY <1>2, <3>3
    <3> QED BY <1>2, <1>3, <3>2, <3>4, <3>5 DEF CountersOK
  <2>2. StepsOK BY DEF Init, StepsOK
  <2>3. OperationsOK BY <1>11 DEF OperationsOK
  <2>4. ServerTypeOK BY <1>10 DEF Init, ServerTypeOK
  <2>5. busy \subseteq {Control(c) : c \in Channels}
    <3>1. Control(Memories) = Memories /\ Memories \in Channels BY ChannelKinds, ControlShared
    <3> QED BY <3>1 DEF Init
  <2>6. form \in Body \cup {None} /\ dialog \in Body \cup {None} BY DEF Init
  <2>7. /\ requests \subseteq Request
        /\ \A c \in DOMAIN channels :
               \E q \in requests : q.id = channels[c] /\ q.channel = c /\ q.page = "open"
    BY <1>8 DEF NetOK
  <2> QED BY <2>1, <2>2, <2>3, <2>4, <2>5, <2>6, <2>7
          DEF TypeOK, CountersOK, StepsOK, OperationsOK, ServerTypeOK
<1>13. ShownOK /\ ShownIsOfScope /\ ShownBefore
  BY DEF Init, ShownOK, ShownIsOfScope, ShownBefore
<1>14. Alone BY <1>1 DEF Alone
<1>15. BusyOK
  <2>1. busy = {Memories} BY DEF Init
  <2>2. Control(Memories) = Memories /\ Memories[1] = "memories"
    BY ChannelKinds, ControlShared
  <2> QED BY <1>7, <2>1, <2>2 DEF BusyOK, BusyFor
<1>16. Commands = {}
  <2>1. Asked = {} BY <1>1, <1>5 DEF Asked
  <2>2. Pending = {} BY <1>11 DEF Pending
  <2> QED BY <2>1, <2>2 DEF Commands, Init
<1>17. CommandsOK /\ FormsOK /\ DraftsOK BY <1>16 DEF CommandsOK, FormsOK, DraftsOK, Init
<1>18. ServerOK
  <2>1. applied = {} BY DEF Init
  <2>2. \A s, m : KeysRecording(s, m) = {} BY <2>1 DEF KeysRecording, Recording
  <2>3. Cardinality({}) = 0 BY FS_EmptySet
  <2>4. \A s \in Scopes, m \in Records : versions[s][m] = Cardinality(KeysRecording(s, m))
    BY <1>9, <2>2, <2>3
  <2>5. \A q \in requests : Truthful(q) BY <1>1, <1>5 DEF Truthful
  <2> QED BY <2>1, <2>4, <2>5 DEF ServerOK
<1>19. JourneyOK
  <2>1. stored = [s \in Scopes |-> {}] /\ journey = {} BY DEF Init
  <2> QED BY <1>3, <2>1 DEF JourneyOK, JourneyIsEarned
<1> QED BY <1>8, <1>12, <1>13, <1>14, <1>15, <1>17, <1>18, <1>19 DEF Inv

LEMMA NextInv ==
    ASSUME Inv, [Next]_vars
    PROVE  Inv'
<1>1. NetOK(requests, channels, sent, generation, scope)' BY NextNetStep DEF NetStep
<1>2. (CommandsOK /\ FormsOK)' BY CommandsStep DEF FormsPart
<1>3. ShownBefore'
  <2>1. ListBefore' /\ HistoryBefore' BY ListStep, HistoryStep
  <2> QED BY <2>1 DEF ShownBefore, ListBefore, HistoryBefore
<1> QED BY <1>1, <1>2, <1>3, TypeStep, AnswersStep, ShownStep, DraftsStep, AloneStep,
        BusyStep, ServerStep, JourneyStep
        DEF Inv

\* The inductive invariant holds of every behaviour.
THEOREM Invariance == Spec => []Inv
<1>1. Init => Inv BY InitInv
<1>2. Inv /\ [Next]_vars => Inv' BY NextInv
<1> QED BY <1>1, <1>2, PTL DEF Spec

-----------------------------------------------------------------------------
(* What it says of the page.                                               *)

\* Type correctness: the page's tables, forms and requests, and what the API keeps,
\* hold what their declarations say, however many requests are on their way.
THEOREM TypeCorrect == Spec => []TypeOK
<1>1. Inv => TypeOK BY DEF Inv
<1> QED BY <1>1, Invariance, PTL

\* No answer to a request of an earlier scope is rendered: the request is of the scope
\* and generation the page is in, or it is not open any more.  A draft is sent and
\* recorded in the scope it was typed in, however often and however late.
THEOREM ScopeCorrect == Spec => []ShownIsOfScope
<1>1. Inv => ShownIsOfScope BY DEF Inv
<1> QED BY <1>1, Invariance, PTL

\* The journey localStorage keeps for a scope names steps taken in that scope, whatever
\* was answered late, failed, or was cut off by a reload or another scope.
THEOREM JourneyCorrect == Spec => []JourneyIsEarned
<1>1. Inv => JourneyIsEarned BY DEF Inv, JourneyOK
<1> QED BY <1>1, Invariance, PTL

\* What was typed once is recorded once: the key of an operation stands for one command
\* as long as the form that would send it again is there.
THEOREM OnceCorrect == Spec => []RecordedOnce
<1>1. Inv => RecordedOnce
  <2>1. Inv => CommandsOK BY DEF Inv
  <2> QED BY <2>1 DEF CommandsOK, Commands, RecordedOnce
<1> QED BY <1>1, Invariance, PTL

\* A control is busy exactly while a request it sent is open, though the corrections of
\* all records share one button and each has a channel of its own.
THEOREM BusyCorrect == Spec => []BusyWhileAsked
<1>1. Inv => BusyWhileAsked
  <2> SUFFICES ASSUME Inv PROVE BusyWhileAsked OBVIOUS
  <2>1. {q.channel : q \in {r \in requests : r.page = "open"}} = DOMAIN channels
    BY UsedFacts
  <2>2. BusyFor(busy, DOMAIN channels) BY DEF Inv, BusyOK
  <2> QED BY <2>1, <2>2 DEF BusyFor, BusyWhileAsked
<1> QED BY <1>1, Invariance, PTL

\* ShownNeverGoesBack, of a step.
NeverBack ==
    /\ list # None /\ list' # None /\ list'.scope = list.scope =>
           \A m \in Records : list'.versions[m] >= list.versions[m]
    /\ history # None /\ history' # None /\ history' # history =>
           history'.version = 0 \/ (history'.record = history.record /\ history.version = 0)

LEMMA StepNeverBack ==
    ASSUME Inv, [Next]_vars
    PROVE  NeverBack
<1>1. ASSUME list # None, list' # None
      PROVE  \A m \in Records : list'.versions[m] >= list.versions[m]
  <2>1. CASE list' = list
    <3>1. list.versions \in Versions BY <1>1 DEF Inv, ShownOK
    <3>2. \A m \in Records : list.versions[m] \in Nat BY <3>1, NetFacts DEF Versions
    <3> QED BY <2>1, <3>2
  <2>2. ASSUME NEW q \in requests, ListRead(q)
        PROVE  \A m \in Records : list'.versions[m] >= list.versions[m]
    <3>1. /\ q.page = "open" /\ q.reply # None /\ q.channel = Memories
          /\ list' = [scope |-> q.scope, versions |-> q.reply]
      BY <2>2 DEF ListRead, Answered, Fresh
    <3>2. \A m \in Records : list.versions[m] <= q.reply[m]
      BY <1>1, <3>1 DEF Inv, ShownBefore
    <3>3. list.versions \in Versions /\ q.reply \in Versions
      BY <1>1, <3>1, NetFacts DEF Inv, ShownOK, Request
    <3>4. \A m \in Records : list.versions[m] \in Nat /\ q.reply[m] \in Nat
      BY <3>3, NetFacts DEF Versions
    <3> QED BY <3>1, <3>2, <3>4
  <2> QED BY <1>1, <2>1, <2>2, ShownChanges
<1>2. ASSUME history # None, history' # None, history' # history
      PROVE  history'.version = 0 \/ (history'.record = history.record /\ history.version = 0)
  <2>1. ASSUME NEW m \in Records, OpenHistory(m) PROVE history'.version = 0
    BY <2>1 DEF OpenHistory
  <2>2. ASSUME NEW q \in requests, HistoryRead(q)
        PROVE  history'.record = history.record /\ history.version = 0
    <3>1. q.page = "open" /\ q.channel = History /\ history'.record = q.body.record
      BY <2>2 DEF HistoryRead, Answered, Fresh
    <3> QED BY <1>2, <3>1 DEF Inv, ShownBefore
  <2> QED BY <1>2, <2>1, <2>2, ShownChanges
<1> QED BY <1>1, <1>2 DEF NeverBack

\* Nothing shown is replaced by an older answer: an answer the list waits for was given
\* after the list it shows was read, and one request at most may fill the history dialog.
THEOREM NeverBackCorrect == Spec => ShownNeverGoesBack
<1>1. Inv /\ [Next]_vars => [NeverBack]_vars BY StepNeverBack
<1>2. Spec => [][NeverBack]_vars BY <1>1, Invariance, PTL DEF Spec
<1>3. [][NeverBack]_vars <=> ShownNeverGoesBack BY DEF NeverBack, ShownNeverGoesBack
<1> QED BY <1>2, <1>3
=============================================================================
