-------------------------- MODULE ListScreen_proofs --------------------------
(***************************************************************************)
(* Proofs about ListScreen: the types of its state, when the page is       *)
(* blocked, the listeners of $$digest and the search form, for any groups, *)
(* rows of a page and number of requests.                                  *)
(***************************************************************************)
EXTENDS ListScreen, FiniteSetTheorems, TLAPS

USE ListAssumption DEF InFlight

-----------------------------------------------------------------------------
(* The backdrop *)

\* BlockInv of a state b of the backdrop.
Good(b) ==
    /\ b.offline => b.backdrop
    /\ b.backdrop => b.offline \/ b.onLoad
    /\ b.backdrop => b.spinner \/ b.notice
    /\ b.notice => b.offline
    /\ b.spinner => b.onLoad

\* ListenersMatch of b, when n requests are under way.
Match(b, n, missed) ==
    /\ b.listeners >= n
    /\ b.flag => b.listeners > n
    /\ ~missed => b.listeners = n /\ ~b.flag

\* The fields that turning the backdrop on, or off, changes and those it keeps.
LEMMA TurnOn ==
    ASSUME NEW b \in Block
    PROVE  /\ TurnBackdrop(b, TRUE) \in Block
           /\ TurnBackdrop(b, TRUE).backdrop
           /\ TurnBackdrop(b, TRUE).offline = b.offline
           /\ TurnBackdrop(b, TRUE).onLoad = b.onLoad
           /\ TurnBackdrop(b, TRUE).flag = b.flag
           /\ TurnBackdrop(b, TRUE).listeners = b.listeners
           /\ TurnBackdrop(b, TRUE).notice = b.notice
           /\ b.backdrop => TurnBackdrop(b, TRUE) = b
  BY DEF Block, TurnBackdrop

\* The flag is lowered while a listener is registered, or taken off.
LEMMA Lowered ==
    ASSUME NEW b \in Block, NEW n \in Nat
    PROVE  /\ [b EXCEPT !.flag = FALSE, !.listeners = n] \in Block
           /\ ~[b EXCEPT !.flag = FALSE, !.listeners = n].flag
           /\ [b EXCEPT !.flag = FALSE, !.listeners = n].listeners = n
           /\ [b EXCEPT !.flag = FALSE, !.listeners = n].backdrop = b.backdrop
           /\ [b EXCEPT !.flag = FALSE, !.listeners = n].offline = b.offline
           /\ [b EXCEPT !.flag = FALSE, !.listeners = n].notice = b.notice
           /\ [b EXCEPT !.flag = FALSE, !.listeners = n].spinner = b.spinner
           /\ [b EXCEPT !.flag = FALSE, !.listeners = n].onLoad = b.onLoad
<1> DEFINE d == [b EXCEPT !.flag = FALSE]
<1>1. [b EXCEPT !.flag = FALSE, !.listeners = n] = [d EXCEPT !.listeners = n]
  BY Zenon DEF Block
<1>2. /\ d \in Block
      /\ ~d.flag
      /\ d.backdrop = b.backdrop
      /\ d.offline = b.offline
      /\ d.notice = b.notice
      /\ d.spinner = b.spinner
      /\ d.onLoad = b.onLoad
  BY DEF Block
<1> HIDE DEF d
<1> QED
  BY <1>1, <1>2 DEF Block

\* The same of turning it off.
LEMMA TurnOff ==
    ASSUME NEW b \in Block
    PROVE  /\ TurnBackdrop(b, FALSE) \in Block
           /\ ~TurnBackdrop(b, FALSE).backdrop
           /\ TurnBackdrop(b, FALSE).offline = b.offline
           /\ TurnBackdrop(b, FALSE).onLoad = b.onLoad
           /\ TurnBackdrop(b, FALSE).flag = b.flag
           /\ TurnBackdrop(b, FALSE).listeners = b.listeners
           /\ TurnBackdrop(b, FALSE).notice = b.notice
           /\ TurnBackdrop(b, FALSE).spinner => b.spinner /\ ~b.backdrop
  BY DEF Block, TurnBackdrop

\* The state in the middle of a task: good, or with the backdrop on for the
\* digest to take off again.
Open(b) ==
    IF b.offline THEN Good(b) ELSE b.backdrop /\ ~b.notice

\* A digest begins: the page is blocked, unless the server is down.
LEMMA DigestOnOpens ==
    ASSUME NEW b \in Block, Good(b) \/ Open(b)
    PROVE  /\ DigestOn(b) \in Block
           /\ Open(DigestOn(b))
           /\ DigestOn(b).offline = b.offline
           /\ DigestOn(b).flag = b.flag
           /\ DigestOn(b).listeners = b.listeners
  BY TurnOn DEF DigestOn, Open, Good

\* post, from a callback of a digest or from a handler of the user.
LEMMA PostOpens ==
    ASSUME NEW b \in Block, Good(b) \/ Open(b)
    PROVE  /\ Post(b) \in Block
           /\ Open(Post(b))
           /\ Post(b).offline = b.offline
           /\ ~Post(b).flag
           /\ Post(b).listeners = b.listeners + 1
<1> DEFINE t == TurnBackdrop(b, TRUE)
<1>1. /\ t \in Block
      /\ t.backdrop
      /\ t.offline = b.offline
      /\ t.notice = b.notice
      /\ t.listeners = b.listeners
      /\ b.backdrop => t = b
  BY TurnOn
<1> HIDE DEF t
<1> DEFINE p == [t EXCEPT !.flag = FALSE, !.listeners = @ + 1]
<1>2. Post(b) = p
  BY DEF Post, t
<1>3. t.listeners + 1 \in Nat
  BY <1>1 DEF Block
<1>4. /\ p \in Block
      /\ ~p.flag
      /\ p.listeners = t.listeners + 1
      /\ p.backdrop = t.backdrop
      /\ p.offline = t.offline
      /\ p.notice = t.notice
      /\ p.spinner = t.spinner
      /\ p.onLoad = t.onLoad
  BY <1>1, <1>3, Lowered
<1> HIDE DEF p
<1>5. Open(p)
  <2>1. CASE ~b.offline
    BY <1>1, <1>4, <2>1 DEF Good, Open
  <2>2. CASE b.offline
    <3>1. Good(b) /\ t = b
      BY <1>1, <2>2 DEF Good, Open
    <3> QED
      BY <1>4, <2>2, <3>1 DEF Good, Open
  <2> QED
    BY <2>1, <2>2
<1> QED
  BY <1>1, <1>2, <1>4, <1>5

\* An answer raises the flag, and nothing else.
LEMMA RaiseOpens ==
    ASSUME NEW b \in Block, Open(b)
    PROVE  /\ Raise(b) \in Block
           /\ Open(Raise(b))
           /\ Raise(b).offline = b.offline
           /\ Raise(b).flag
           /\ Raise(b).listeners = b.listeners
  BY DEF Raise, Block, Good, Open

\* After a digest the page is free, unless the server is down; a flag that is
\* up has been taken by a listener.
LEMMA DigestOffCloses ==
    ASSUME NEW b \in Block, Open(b)
    PROVE  /\ DigestOff(b) \in Block
           /\ Good(DigestOff(b))
           /\ DigestOff(b).offline = b.offline
           /\ b.offline => DigestOff(b) = b
           /\ ~b.offline /\ b.flag /\ b.listeners > 0 =>
                 DigestOff(b).listeners = b.listeners - 1 /\ ~DigestOff(b).flag
           /\ ~(b.flag /\ b.listeners > 0) =>
                 DigestOff(b).listeners = b.listeners /\ DigestOff(b).flag = b.flag
<1>1. CASE b.offline
  BY <1>1 DEF DigestOff, Open
<1>2. CASE ~b.offline
  <2> DEFINE h == Heard(b)
             t == TurnBackdrop(h, FALSE)
  <2>1. /\ h \in Block
        /\ ~h.offline
        /\ ~h.notice
        /\ h.backdrop \/ ~h.spinner
        /\ b.flag /\ b.listeners > 0 => h.listeners = b.listeners - 1 /\ ~h.flag
        /\ ~(b.flag /\ b.listeners > 0) => h = b
    <3>1. CASE b.flag /\ b.listeners > 0
      <4> DEFINE c == [b EXCEPT !.flag = FALSE, !.listeners = @ - 1]
      <4>0. b.listeners - 1 \in Nat
        BY <3>1 DEF Block
      <4>1. /\ c \in Block
            /\ ~c.flag
            /\ c.listeners = b.listeners - 1
            /\ c.backdrop = b.backdrop
            /\ c.offline = b.offline
            /\ c.notice = b.notice
        BY <4>0, Lowered, Zenon
      <4>2. c.backdrop /\ ~c.offline /\ ~c.notice
        BY <1>2, <4>1 DEF Open
      <4>3. h = TurnBackdrop(c, FALSE)
        BY <3>1 DEF Heard
      <4> HIDE DEF c, h
      <4> QED
        BY <3>1, <4>1, <4>2, <4>3, TurnOff
    <3>2. CASE ~(b.flag /\ b.listeners > 0)
      BY <1>2, <3>2 DEF Heard, Open
    <3> QED
      BY <3>1, <3>2
  <2>2. DigestOff(b) = [t EXCEPT !.onLoad = FALSE]
    BY <1>2 DEF DigestOff
  <2> HIDE DEF h
  <2>3. /\ t \in Block
        /\ ~t.offline
        /\ ~t.notice
        /\ ~t.backdrop
        /\ ~t.spinner
        /\ t.flag = h.flag
        /\ t.listeners = h.listeners
    BY <2>1, TurnOff
  <2> HIDE DEF t
  <2>4. /\ DigestOff(b) \in Block
        /\ Good(DigestOff(b))
        /\ ~DigestOff(b).offline
        /\ DigestOff(b).flag = h.flag
        /\ DigestOff(b).listeners = h.listeners
    BY <2>2, <2>3 DEF Block, Good
  <2> QED
    BY <1>2, <2>1, <2>4 DEF Block
<1> QED
  BY <1>1, <1>2

\* A digest that posts and answers nothing.
LEMMA DigestKeeps ==
    ASSUME NEW b \in Block, Good(b) \/ Open(b), NEW n \in Nat, NEW missed \in BOOLEAN,
           Match(b, n, missed)
    PROVE  /\ Digest(b) \in Block
           /\ Good(Digest(b))
           /\ Match(Digest(b), n, missed)
<1>1. /\ DigestOn(b) \in Block
      /\ Open(DigestOn(b))
      /\ DigestOn(b).flag = b.flag
      /\ DigestOn(b).listeners = b.listeners
  BY DigestOnOpens
<1>2. b.listeners \in Nat /\ DigestOff(DigestOn(b)).listeners \in Nat
  BY <1>1, DigestOffCloses DEF Block
<1> QED
  BY <1>1, <1>2, DigestOffCloses DEF Digest, Match

\* A task of the user that posts a request, and one that posts none.
LEMMA UserPosts ==
    ASSUME NEW b \in Block, Good(b), NEW n \in Nat, NEW missed \in BOOLEAN,
           Match(b, n, missed)
    PROVE  /\ Digest(Post(b)) \in Block
           /\ Good(Digest(Post(b)))
           /\ Match(Digest(Post(b)), n + 1, missed)
<1>1. Match(Post(b), n + 1, missed)
  BY PostOpens DEF Match, Block
<1> QED
  BY <1>1, PostOpens, DigestKeeps

\* A task that brings an answer.
LEMMA AnswerTakes ==
    ASSUME NEW b \in Block, Good(b), NEW n \in Nat, NEW missed \in BOOLEAN,
           Match(b, n + 1, missed)
    PROVE  /\ DigestOff(Raise(DigestOn(b))) \in Block
           /\ Good(DigestOff(Raise(DigestOn(b))))
           /\ Match(DigestOff(Raise(DigestOn(b))), n, missed \/ b.offline)
<1> DEFINE c == Raise(DigestOn(b))
<1>1. /\ c \in Block
      /\ Open(c)
      /\ c.offline = b.offline
      /\ c.flag
      /\ c.listeners = b.listeners
  BY DigestOnOpens, RaiseOpens
<1>2. b.listeners \in Nat /\ b.listeners >= n + 1
  BY DEF Match, Block
<1> HIDE DEF c
<1> QED
  BY <1>1, <1>2, DigestOffCloses DEF Match, c

\* A task that brings an answer, and posts the next request.
LEMMA AnswerPosts ==
    ASSUME NEW b \in Block, Good(b), NEW n \in Nat, NEW missed \in BOOLEAN,
           Match(b, n, missed)
    PROVE  /\ DigestOff(Raise(Post(DigestOn(b)))) \in Block
           /\ Good(DigestOff(Raise(Post(DigestOn(b)))))
           /\ Match(DigestOff(Raise(Post(DigestOn(b)))), n, missed \/ b.offline)
<1> DEFINE c == Raise(Post(DigestOn(b)))
<1>1. /\ c \in Block
      /\ Open(c)
      /\ c.offline = b.offline
      /\ c.flag
      /\ c.listeners = b.listeners + 1
  BY DigestOnOpens, PostOpens, RaiseOpens
<1>2. b.listeners \in Nat /\ b.listeners >= n
  BY DEF Match, Block
<1> HIDE DEF c
<1> QED
  BY <1>1, <1>2, DigestOffCloses DEF Match, c

-----------------------------------------------------------------------------
(* The requests *)

\* Pending and SearchingInv, of a sequence s of requests.
PendingIn(s) == {i \in DOMAIN s : s[i].state \in InFlight}
Busy(s) == \E i \in DOMAIN s : /\ s[i].kind = "search"
                               /\ s[i].state \in InFlight \union {"garbled"}

\* There are finitely many requests, so they can be counted.
LEMMA PendingFinite ==
    ASSUME NEW s \in Seq(Ask)
    PROVE  /\ IsFiniteSet(PendingIn(s))
           /\ Cardinality(PendingIn(s)) \in Nat
<1>1. DOMAIN s = 1 .. Len(s) /\ Len(s) \in Nat
  OBVIOUS
<1>2. IsFiniteSet(1 .. Len(s))
  BY <1>1, FS_Interval
<1>3. PendingIn(s) \subseteq 1 .. Len(s)
  BY <1>1 DEF PendingIn
<1>4. IsFiniteSet(PendingIn(s))
  BY <1>2, <1>3, FS_Subset
<1> QED
  BY <1>4, FS_CardinalityType

\* One more request is under way.
LEMMA OneMore ==
    ASSUME NEW s \in Seq(Ask), NEW a \in Ask, a.state = "sent"
    PROVE  /\ Append(s, a) \in Seq(Ask)
           /\ DOMAIN s \subseteq DOMAIN Append(s, a)
           /\ Cardinality(PendingIn(Append(s, a))) = Cardinality(PendingIn(s)) + 1
           /\ Busy(s) => Busy(Append(s, a))
           /\ a.kind = "search" => Busy(Append(s, a))
<1> DEFINE t == Append(s, a)
           k == Len(s) + 1
<1>1. /\ Len(s) \in Nat
      /\ DOMAIN s = 1 .. Len(s)
      /\ t \in Seq(Ask)
      /\ DOMAIN t = 1 .. k
      /\ t[k] = a
      /\ \A i \in DOMAIN s : t[i] = s[i]
  OBVIOUS
<1> HIDE DEF t
<1>2. /\ DOMAIN t = DOMAIN s \union {k}
      /\ k \notin DOMAIN s
  BY <1>1
<1>3. /\ PendingIn(t) = PendingIn(s) \union {k}
      /\ k \notin PendingIn(s)
  BY <1>1, <1>2 DEF PendingIn
<1>4. Cardinality(PendingIn(t)) = Cardinality(PendingIn(s)) + 1
  BY <1>3, PendingFinite, FS_AddElement
<1>5. Busy(s) => Busy(t)
  BY <1>1, <1>2 DEF Busy
<1>6. a.kind = "search" => Busy(t)
  BY <1>1, <1>2 DEF Busy
<1> QED
  BY <1>1, <1>2, <1>4, <1>5, <1>6 DEF t

\* A function on 1 .. n is a sequence.
LEMMA AsSequence ==
    ASSUME NEW S, NEW n \in Nat, NEW f \in [1 .. n -> S]
    PROVE  f \in Seq(S) /\ DOMAIN f = 1 .. n
  OBVIOUS

\* What Closed makes of the requests.
LEMMA ClosedShape ==
    ASSUME asks \in Seq(Ask), NEW i \in DOMAIN asks,
           NEW state \in {"shown", "failed", "lost", "garbled"}
    PROVE  /\ Closed(i, state) \in Seq(Ask)
           /\ DOMAIN Closed(i, state) = DOMAIN asks
           /\ Closed(i, state)[i].kind = asks[i].kind
           /\ Closed(i, state)[i].of = asks[i].of
           /\ Closed(i, state)[i].state = state
           /\ \A j \in DOMAIN asks \ {i} : Closed(i, state)[j] = asks[j]
<1> DEFINE a == asks[i]
           d == [a EXCEPT !.state = state]
           c == [d EXCEPT !.answer = Nothing]
<1>1. /\ Len(asks) \in Nat
      /\ DOMAIN asks = 1 .. Len(asks)
      /\ asks \in [1 .. Len(asks) -> Ask]
      /\ a \in Ask
  OBVIOUS
<1>2. Nothing \in View
  BY DEF Nothing, View
<1>3. Closed(i, state) = [asks EXCEPT ![i] = c]
  BY Zenon DEF Closed
<1>4. c \in Ask /\ c.kind = a.kind /\ c.of = a.of /\ c.state = state
  <2> HIDE DEF a
  <2>1. d \in Ask /\ d.kind = a.kind /\ d.of = a.of /\ d.state = state
    BY <1>1 DEF Ask
  <2> HIDE DEF d
  <2>2. c \in Ask /\ c.kind = d.kind /\ c.of = d.of /\ c.state = d.state
    BY <1>2, <2>1 DEF Ask
  <2> QED
    BY <2>1, <2>2
<1> HIDE DEF c
<1>5. /\ Closed(i, state) \in [1 .. Len(asks) -> Ask]
      /\ Closed(i, state)[i] = c
      /\ \A j \in DOMAIN asks \ {i} : Closed(i, state)[j] = asks[j]
  BY <1>1, <1>3, <1>4
<1> QED
  BY <1>1, <1>4, <1>5, AsSequence

\* A request is over.
LEMMA OneLess ==
    ASSUME NEW s \in Seq(Ask), NEW t \in Seq(Ask), DOMAIN t = DOMAIN s,
           NEW i \in DOMAIN s, s[i].state \in InFlight,
           t[i].kind = s[i].kind,
           t[i].state \in {"shown", "failed", "lost", "garbled"},
           \A j \in DOMAIN s \ {i} : t[j] = s[j]
    PROVE  /\ Cardinality(PendingIn(s)) = Cardinality(PendingIn(t)) + 1
           /\ Busy(s) /\ (s[i].kind = "delete" \/ t[i].state = "garbled") => Busy(t)
<1>1. PendingIn(t) = PendingIn(s) \ {i} /\ i \in PendingIn(s)
  BY DEF PendingIn
<1>2. /\ IsFiniteSet(PendingIn(s))
      /\ Cardinality(PendingIn(s)) \in Nat
      /\ Cardinality(PendingIn(t)) \in Nat
  BY PendingFinite
<1>3. Cardinality(PendingIn(t)) = Cardinality(PendingIn(s)) - 1
  BY <1>1, <1>2, FS_RemoveElement
<1>4. Cardinality(PendingIn(s)) = Cardinality(PendingIn(t)) + 1
  BY <1>2, <1>3
<1>5. ASSUME Busy(s), s[i].kind = "delete" \/ t[i].state = "garbled"
      PROVE  Busy(t)
  BY <1>5 DEF Busy
<1> QED
  BY <1>4, <1>5

\* The server has done its part: no more and no fewer requests are under way.
LEMMA JustAsMany ==
    ASSUME NEW s \in Seq(Ask), NEW t \in Seq(Ask), DOMAIN t = DOMAIN s,
           NEW i \in DOMAIN s, t[i].kind = s[i].kind,
           s[i].state \in InFlight <=> t[i].state \in InFlight,
           s[i].kind = "delete" \/ s[i].state \in InFlight,
           \A j \in DOMAIN s \ {i} : t[j] = s[j]
    PROVE  /\ PendingIn(t) = PendingIn(s)
           /\ Busy(s) => Busy(t)
<1>1. PendingIn(t) = PendingIn(s)
  BY DEF PendingIn
<1>2. Busy(s) => Busy(t)
  BY DEF Busy
<1> QED
  BY <1>1, <1>2

-----------------------------------------------------------------------------
(* The load of the page, and the check of the server *)

\* window.onload blocks the page, with the spinner if it was free.
LEMMA LoadKeeps ==
    ASSUME NEW b \in Block, Good(b), NEW n \in Nat, NEW missed \in BOOLEAN,
           Match(b, n, missed),
           NEW c, c = TurnBackdrop([b EXCEPT !.onLoad = TRUE], TRUE)
    PROVE  c \in Block /\ Good(c) /\ Match(c, n, missed)
<1> DEFINE d == [b EXCEPT !.onLoad = TRUE]
<1>1. /\ d \in Block
      /\ d.onLoad
      /\ d.backdrop = b.backdrop
      /\ d.spinner = b.spinner
      /\ d.notice = b.notice
      /\ d.offline = b.offline
      /\ d.flag = b.flag
      /\ d.listeners = b.listeners
  BY DEF Block
<1> HIDE DEF d
<1>2. c = TurnBackdrop(d, TRUE)
  BY DEF d
<1>3. CASE b.backdrop
  <2>1. c = d
    BY <1>1, <1>2, <1>3 DEF TurnBackdrop, Block
  <2> QED
    BY <1>1, <1>3, <2>1 DEF Good, Match
<1>4. CASE ~b.backdrop
  <2>1. c = [d EXCEPT !.backdrop = TRUE, !.spinner = TRUE]
    BY <1>1, <1>2, <1>4 DEF TurnBackdrop
  <2>2. /\ c \in Block
        /\ c.backdrop
        /\ c.spinner
        /\ c.onLoad
        /\ c.notice = b.notice
        /\ c.offline = b.offline
        /\ c.flag = b.flag
        /\ c.listeners = b.listeners
    BY <1>1, <2>1 DEF Block
  <2> QED
    BY <2>2 DEF Good, Match
<1> QED
  BY <1>3, <1>4

\* The server goes down: a page that was blocked keeps its spinner.
LEMMA DownKeeps ==
    ASSUME NEW b \in Block, Good(b), NEW n \in Nat, NEW missed \in BOOLEAN,
           Match(b, n, missed),
           NEW c, c = TurnOffline([b EXCEPT !.offline = TRUE], TRUE)
    PROVE  c \in Block /\ Good(c) /\ Match(c, n, missed)
<1> DEFINE d == [b EXCEPT !.offline = TRUE]
<1>1. /\ d \in Block
      /\ d.offline
      /\ d.backdrop = b.backdrop
      /\ d.spinner = b.spinner
      /\ d.notice = b.notice
      /\ d.onLoad = b.onLoad
      /\ d.flag = b.flag
      /\ d.listeners = b.listeners
  BY DEF Block
<1> HIDE DEF d
<1>2. c = TurnOffline(d, TRUE)
  BY DEF d
<1>3. CASE b.backdrop
  <2>1. c = d
    BY <1>1, <1>2, <1>3 DEF TurnOffline, Block
  <2> QED
    BY <1>1, <1>3, <2>1 DEF Good, Match
<1>4. CASE ~b.backdrop
  <2>1. c = [d EXCEPT !.backdrop = TRUE, !.notice = TRUE]
    BY <1>1, <1>2, <1>4 DEF TurnOffline
  <2>2. /\ c \in Block
        /\ c.backdrop
        /\ c.notice
        /\ c.offline
        /\ c.spinner = b.spinner
        /\ c.onLoad = b.onLoad
        /\ c.flag = b.flag
        /\ c.listeners = b.listeners
    BY <1>1, <2>1 DEF Block
  <2> QED
    BY <2>2 DEF Good, Match
<1> QED
  BY <1>3, <1>4

\* The server comes up: a spinner that is left over is one of the load.
LEMMA UpKeeps ==
    ASSUME NEW b \in Block, Good(b), b.offline, NEW n \in Nat, NEW missed \in BOOLEAN,
           Match(b, n, missed),
           NEW c, c = TurnOffline([b EXCEPT !.offline = FALSE], FALSE)
    PROVE  c \in Block /\ Good(c) /\ Match(c, n, missed)
<1> DEFINE d == [b EXCEPT !.offline = FALSE]
<1>1. /\ d \in Block
      /\ ~d.offline
      /\ d.backdrop
      /\ d.spinner = b.spinner
      /\ d.notice = b.notice
      /\ d.onLoad = b.onLoad
      /\ d.flag = b.flag
      /\ d.listeners = b.listeners
  BY DEF Block, Good
<1> HIDE DEF d
<1>2. c = [d EXCEPT !.backdrop = FALSE, !.notice = FALSE]
  BY <1>1 DEF TurnOffline, d
<1>3. /\ c \in Block
      /\ ~c.backdrop
      /\ ~c.notice
      /\ ~c.offline
      /\ c.spinner = b.spinner
      /\ c.onLoad = b.onLoad
      /\ c.flag = b.flag
      /\ c.listeners = b.listeners
  BY <1>1, <1>2 DEF Block
<1> QED
  BY <1>3 DEF Good, Match

-----------------------------------------------------------------------------
(* The invariant *)

IInv ==
    /\ TypeOK
    /\ Good(block)
    /\ Match(block, Cardinality(PendingIn(asks)), cut)
    /\ searching => Busy(asks)

\* IInv is stronger than the three invariants of the runs.
LEMMA IInvMeans == IInv => BlockInv /\ ListenersMatch /\ SearchingInv
<1> SUFFICES ASSUME IInv
             PROVE  BlockInv /\ ListenersMatch /\ SearchingInv
  OBVIOUS
<1>1. BlockInv
  BY DEF IInv, Good, BlockInv
<1>2. Pending = PendingIn(asks)
  BY DEF Pending, UnderWay, PendingIn
<1>3. ListenersMatch
  BY <1>2 DEF IInv, Match, ListenersMatch
<1>4. SearchingInv
  BY DEF IInv, Busy, SearchingInv, IsSearch, UnderWay
<1> QED
  BY <1>1, <1>3, <1>4

\* A request as it is posted.
LEMMA NewAsk ==
    ASSUME NEW kind \in {"search", "delete"}, NEW of \in Nat
    PROVE  New(kind, of) \in Ask /\ New(kind, of).state = "sent" /\ New(kind, of).kind = kind
  BY DEF New, Ask, Nothing, View

\* What the server finds can be shown.
LEMMA FoundType ==
    ASSUME stored \in SUBSET Items, NEW p \in Nat
    PROVE  Found(p) \in View
<1>1. IsFiniteSet(stored) /\ Cardinality(stored) \in Nat
  BY FS_Subset, FS_CardinalityType
<1> QED
  BY <1>1 DEF Found, View

\* The screen's first request is posted by the bootstrap.
LEMMA InitHolds == Init => IInv
<1> SUFFICES ASSUME Init
             PROVE  IInv
  OBVIOUS
<1>1. /\ Blank \in Block
      /\ Good(Blank)
      /\ Match(Blank, 0, FALSE)
  BY DEF Blank, Block, Good, Match
<1>2. /\ block \in Block
      /\ Good(block)
      /\ Match(block, 0 + 1, FALSE)
  BY <1>1, UserPosts DEF Init
<1>3. /\ New("search", 1) \in Ask
      /\ New("search", 1).state = "sent"
      /\ New("search", 1).kind = "search"
  BY NewAsk
<1>4. /\ <<>> \in Seq(Ask)
      /\ asks = Append(<<>>, New("search", 1))
  BY <1>3 DEF Init
<1>5. /\ asks \in Seq(Ask)
      /\ Cardinality(PendingIn(asks)) = Cardinality(PendingIn(<<>>)) + 1
      /\ Busy(asks)
  BY <1>3, <1>4, OneMore
<1>6. PendingIn(<<>>) = {}
  BY DEF PendingIn
<1>7. Cardinality(PendingIn(asks)) = 0 + 1
  BY <1>5, <1>6, FS_EmptySet
<1>8. TypeOK
  BY <1>2, <1>5 DEF Init, TypeOK, PageType, View, Nothing
<1> QED
  BY <1>2, <1>5, <1>7, <1>8 DEF Init, IInv

\* What the actions that post a request, or end one, have in common.
LEMMA PostKeeps ==
    ASSUME IInv, NEW kind \in {"search", "delete"}, NEW of \in Nat,
           asks' = Append(asks, New(kind, of)),
           block' = Digest(Post(block)),
           cut' = cut,
           kind = "search" \/ searching' = searching
    PROVE  /\ block' \in Block
           /\ asks' \in Seq(Ask)
           /\ DOMAIN asks \subseteq DOMAIN asks'
           /\ Good(block')
           /\ Match(block', Cardinality(PendingIn(asks')), cut')
           /\ searching' => Busy(asks')
<1>1. /\ New(kind, of) \in Ask
      /\ New(kind, of).state = "sent"
      /\ New(kind, of).kind = kind
  BY NewAsk
<1>2. block \in Block /\ asks \in Seq(Ask) /\ cut \in BOOLEAN /\ Good(block)
  BY DEF IInv, TypeOK, PageType
<1>3. /\ asks' \in Seq(Ask)
      /\ DOMAIN asks \subseteq DOMAIN asks'
      /\ Cardinality(PendingIn(asks')) = Cardinality(PendingIn(asks)) + 1
      /\ Busy(asks) => Busy(asks')
      /\ kind = "search" => Busy(asks')
  BY <1>1, <1>2, OneMore
<1>4. Cardinality(PendingIn(asks)) \in Nat
  BY <1>2, PendingFinite
<1>5. Match(block, Cardinality(PendingIn(asks)), cut)
  BY DEF IInv
<1>6. /\ block' \in Block
      /\ Good(block')
      /\ Match(block', Cardinality(PendingIn(asks')), cut')
  BY <1>2, <1>3, <1>4, <1>5, UserPosts
<1>7. searching' => Busy(asks')
  BY <1>3 DEF IInv
<1> QED
  BY <1>3, <1>6, <1>7

\* The answer, or the error, that ends a request.
LEMMA AnswerKeeps ==
    ASSUME IInv, NEW i \in DOMAIN asks, asks[i].state \in InFlight,
           NEW state \in {"shown", "failed", "lost", "garbled"},
           asks' = Closed(i, state),
           Answered,
           \/ ~searching'
           \/ searching' = searching /\ (asks[i].kind = "delete" \/ state = "garbled")
    PROVE  /\ block' \in Block
           /\ asks' \in Seq(Ask)
           /\ DOMAIN asks' = DOMAIN asks
           /\ cut' \in BOOLEAN
           /\ Good(block')
           /\ Match(block', Cardinality(PendingIn(asks')), cut')
           /\ searching' => Busy(asks')
<1>1. block \in Block /\ asks \in Seq(Ask) /\ cut \in BOOLEAN /\ Good(block)
  BY DEF IInv, TypeOK, PageType
<1>2. /\ asks' \in Seq(Ask)
      /\ DOMAIN asks' = DOMAIN asks
      /\ asks'[i].kind = asks[i].kind
      /\ asks'[i].state = state
      /\ \A j \in DOMAIN asks \ {i} : asks'[j] = asks[j]
  BY <1>1, ClosedShape
<1>3. /\ Cardinality(PendingIn(asks)) = Cardinality(PendingIn(asks')) + 1
      /\ Busy(asks) /\ (asks[i].kind = "delete" \/ state = "garbled") => Busy(asks')
  BY <1>1, <1>2, OneLess
<1>4. Cardinality(PendingIn(asks')) \in Nat
  BY <1>2, PendingFinite
<1>5. Match(block, Cardinality(PendingIn(asks')) + 1, cut)
  BY <1>3 DEF IInv
<1>6. /\ block' \in Block
      /\ Good(block')
      /\ Match(block', Cardinality(PendingIn(asks')), cut \/ block.offline)
  BY <1>1, <1>4, <1>5, AnswerTakes DEF Answered
<1>7. searching' => Busy(asks')
  BY <1>3 DEF IInv
<1>8. cut' = (cut \/ block.offline) /\ block.offline \in BOOLEAN
  BY <1>1 DEF Answered, Block
<1>9. cut' \in BOOLEAN
  BY <1>1, <1>8
<1> QED
  BY <1>2, <1>6, <1>7, <1>8, <1>9

\* A page that is drawn, blocked or let go, with nothing posted or answered.
LEMMA PageKeeps ==
    ASSUME IInv, PageNext
    PROVE  block' \in Block /\ timer' \in {"none", "set", "over"} /\ checking' \in BOOLEAN
           /\ Good(block') /\ Match(block', Cardinality(PendingIn(asks)), cut)
<1>1. /\ block \in Block
      /\ Good(block)
      /\ timer \in {"none", "set", "over"}
      /\ checking \in BOOLEAN
      /\ cut \in BOOLEAN
      /\ Cardinality(PendingIn(asks)) \in Nat
      /\ Match(block, Cardinality(PendingIn(asks)), cut)
  BY PendingFinite DEF IInv, TypeOK, PageType
<1>2. CASE Load
  BY <1>1, <1>2, LoadKeeps DEF Load
<1>3. CASE Tooltips
  BY <1>1, <1>3, DigestKeeps DEF Tooltips
<1>4. CASE Check
  BY <1>1, <1>4, DigestKeeps DEF Check
<1>5. CASE Down
  BY <1>1, <1>5, DownKeeps DEF Down
<1>6. CASE Up
  BY <1>1, <1>6, UpKeeps DEF Up
<1> QED
  BY <1>2, <1>3, <1>4, <1>5, <1>6 DEF PageNext

\* What the server makes of a request.
Served(i) == ServerFinds(i) \/ ServerEmpties(i) \/ ServerDeletes(i)

\* It stays the same request, and it is under way if it was.
LEMMA ServerShape ==
    ASSUME asks \in Seq(Ask), stored \in SUBSET Items, NEW i \in DOMAIN asks,
           Served(i)
    PROVE  /\ asks' \in Seq(Ask)
           /\ DOMAIN asks' = DOMAIN asks
           /\ asks'[i].kind = asks[i].kind
           /\ asks'[i].of = asks[i].of
           /\ ServerFinds(i) => asks'[i].answer = Found(asks[i].of)
           /\ ServerEmpties(i) => asks[i].kind = "search" /\ asks'[i].state = "emptied"
           /\ ServerDeletes(i) => asks[i].kind = "delete" /\ asks'[i].state \in {"answered", "lost"}
           /\ asks[i].state \in InFlight <=> asks'[i].state \in InFlight
           /\ asks[i].kind = "delete" \/ asks[i].state \in InFlight
           /\ \A j \in DOMAIN asks \ {i} : asks'[j] = asks[j]
<1>1. /\ Len(asks) \in Nat
      /\ DOMAIN asks = 1 .. Len(asks)
      /\ asks \in [1 .. Len(asks) -> Ask]
      /\ asks[i] \in Ask
  OBVIOUS
<1>2. /\ asks[i].of \in Nat
      /\ asks[i].kind \in {"search", "delete"}
      /\ asks[i].answer \in View
  BY <1>1 DEF Ask
<1> DEFINE Turns(c, state, answer) ==
              /\ c \in Ask
              /\ c.kind = asks[i].kind
              /\ c.of = asks[i].of
              /\ c.state = state
              /\ c.answer = answer
<1>3. ASSUME NEW state \in {"answered", "emptied", "lost"}
      PROVE  Turns([asks[i] EXCEPT !.state = state], state, asks[i].answer)
  BY <1>1 DEF Ask
<1>4. ASSUME NEW state \in {"answered", "emptied", "lost"}, NEW answer \in View
      PROVE  Turns([[asks[i] EXCEPT !.state = state] EXCEPT !.answer = answer], state, answer)
  <2> DEFINE d == [asks[i] EXCEPT !.state = state]
  <2>1. d \in Ask /\ d.kind = asks[i].kind /\ d.of = asks[i].of /\ d.state = state
    BY <1>1 DEF Ask
  <2> HIDE DEF d
  <2>2. LET c == [d EXCEPT !.answer = answer]
        IN c \in Ask /\ c.kind = d.kind /\ c.of = d.of /\ c.state = d.state
             /\ c.answer = answer
    BY <2>1 DEF Ask
  <2> QED
    BY <2>1, <2>2 DEF d
<1> HIDE DEF Turns
<1>5. ASSUME NEW c, NEW state \in {"answered", "emptied", "lost"}, NEW answer,
             Turns(c, state, answer), asks' = [asks EXCEPT ![i] = c]
      PROVE  /\ asks' \in Seq(Ask)
             /\ DOMAIN asks' = DOMAIN asks
             /\ asks'[i].kind = asks[i].kind
             /\ asks'[i].of = asks[i].of
             /\ asks'[i].state = state
             /\ asks'[i].answer = answer
             /\ \A j \in DOMAIN asks \ {i} : asks'[j] = asks[j]
  <2>1. asks' \in [1 .. Len(asks) -> Ask] /\ asks'[i] = c
    BY <1>1, <1>5 DEF Turns
  <2> QED
    BY <1>1, <1>5, <2>1, AsSequence DEF Turns
<1>6. CASE ServerFinds(i)
  <2> DEFINE f == Found(asks[i].of)
             c == [[asks[i] EXCEPT !.state = "answered"] EXCEPT !.answer = f]
  <2>1. f \in View
    BY <1>2, FoundType
  <2>2. asks' = [asks EXCEPT ![i] = c]
    BY <1>6, Zenon DEF ServerFinds
  <2>3. Turns(c, "answered", f)
    BY <1>4, <2>1
  <2>4. asks[i].state = "sent" /\ asks[i].kind = "search"
    BY <1>6 DEF ServerFinds, IsSearch
  <2>5. ~ServerEmpties(i) /\ ~ServerDeletes(i)
    <3>1. asks'[i].state = "answered"
      BY <1>5, <2>2, <2>3
    <3>2. ServerEmpties(i) => asks'[i].state = "emptied"
      BY <1>1 DEF ServerEmpties
    <3> QED
      BY <2>4, <3>1, <3>2 DEF ServerDeletes, IsSearch
  <2> HIDE DEF c, f
  <2>6. /\ asks' \in Seq(Ask)
        /\ DOMAIN asks' = DOMAIN asks
        /\ asks'[i].kind = asks[i].kind
        /\ asks'[i].of = asks[i].of
        /\ asks'[i].state = "answered"
        /\ asks'[i].answer = f
        /\ \A j \in DOMAIN asks \ {i} : asks'[j] = asks[j]
    BY <1>5, <2>2, <2>3
  <2> QED
    BY <2>4, <2>5, <2>6 DEF f
<1>7. CASE ServerEmpties(i)
  <2> DEFINE c == [[asks[i] EXCEPT !.state = "emptied"] EXCEPT !.answer = Nothing]
  <2>1. asks' = [asks EXCEPT ![i] = c]
    BY <1>7, Zenon DEF ServerEmpties
  <2>2. Turns(c, "emptied", Nothing)
    BY <1>4 DEF Nothing, View
  <2>3. asks[i].state = "sent" /\ asks[i].kind = "search"
    BY <1>7 DEF ServerEmpties, IsSearch
  <2>4. ~ServerFinds(i) /\ ~ServerDeletes(i)
    <3>1. asks'[i].state = "emptied"
      BY <1>5, <2>1, <2>2
    <3>2. ServerFinds(i) => asks'[i].state = "answered"
      BY <1>1 DEF ServerFinds
    <3> QED
      BY <2>3, <3>1, <3>2 DEF ServerDeletes, IsSearch
  <2> HIDE DEF c
  <2> QED
    BY <1>5, <1>7, <2>1, <2>2, <2>3, <2>4
<1>8. CASE ServerDeletes(i)
  <2> DEFINE state == IF asks[i].state = "sent" THEN "answered" ELSE "lost"
             c == [asks[i] EXCEPT !.state = state]
  <2>1. asks' = [asks EXCEPT ![i] = c]
    BY <1>8, Zenon DEF ServerDeletes
  <2>2. Turns(c, state, asks[i].answer)
    BY <1>3
  <2>3. asks[i].state \in {"sent", "failed"} /\ asks[i].kind = "delete"
    BY <1>2, <1>8 DEF ServerDeletes, IsSearch
  <2>4. ~ServerFinds(i) /\ ~ServerEmpties(i)
    BY <2>3 DEF ServerFinds, ServerEmpties, IsSearch
  <2> HIDE DEF c
  <2> QED
    BY <1>5, <1>8, <2>1, <2>2, <2>3, <2>4
<1> QED
  BY <1>6, <1>7, <1>8 DEF Served

\* Every step of the page, the user and the server keeps IInv.
LEMMA StepKeeps == IInv /\ [Next]_vars => IInv'
<1> SUFFICES ASSUME IInv, [Next]_vars
             PROVE  IInv'
  OBVIOUS
<1>0. /\ block \in Block
      /\ Good(block)
      /\ timer \in {"none", "set", "over"}
      /\ checking \in BOOLEAN
      /\ view \in View
      /\ searching \in BOOLEAN
      /\ chosen \in Items \union {0}
      /\ asks \in Seq(Ask)
      /\ stored \in SUBSET Items
      /\ shown \in DOMAIN asks \union {0}
      /\ cut \in BOOLEAN
      /\ Cardinality(PendingIn(asks)) \in Nat
      /\ Match(block, Cardinality(PendingIn(asks)), cut)
      /\ searching => Busy(asks)
  BY PendingFinite DEF IInv, TypeOK, PageType
<1>1. CASE PageNext /\ UNCHANGED screen
  <2>1. /\ UNCHANGED <<view, searching, chosen, asks, stored, shown, cut>>
        /\ PageNext
    BY <1>1 DEF screen
  <2>2. /\ block' \in Block
        /\ timer' \in {"none", "set", "over"}
        /\ checking' \in BOOLEAN
        /\ Good(block')
        /\ Match(block', Cardinality(PendingIn(asks)), cut)
    BY <2>1, PageKeeps
  <2> QED
    BY <1>0, <2>1, <2>2 DEF IInv, TypeOK, PageType
<1>2. CASE Search
  BY <1>0, <1>2, PostKeeps DEF Search, OnSearch, IInv, TypeOK, PageType
<1>3. ASSUME NEW p \in 1 .. Pages(view.total), Turn(p)
      PROVE  IInv'
  <2>1. p \in Nat
    BY <1>0, <1>3 DEF Pages, View
  <2>2. view' \in View
    BY <1>0, <1>3, <2>1 DEF Turn, View
  <2> QED
    BY <1>0, <1>3, <2>1, <2>2, PostKeeps DEF Turn, OnSearch, IInv, TypeOK, PageType
<1>4. CASE (\E x \in Items : Choose(x)) \/ Cancel
  <2>1. /\ UNCHANGED <<timer, checking, view, searching, asks, stored, shown, cut>>
        /\ chosen' \in Items \union {0}
        /\ block' = Digest(block)
    BY <1>4 DEF Choose, Cancel
  <2>2. /\ block' \in Block
        /\ Good(block')
        /\ Match(block', Cardinality(PendingIn(asks)), cut)
    BY <1>0, <2>1, DigestKeeps
  <2> QED
    BY <1>0, <2>1, <2>2 DEF IInv, TypeOK, PageType
<1>5. CASE Confirm
  <2>1. chosen \in Nat
    BY <1>0, <1>5
  <2> QED
    BY <1>0, <1>5, <2>1, PostKeeps DEF Confirm, IInv, TypeOK, PageType
<1>6. ASSUME NEW i \in DOMAIN asks, Served(i)
      PROVE  IInv'
  <2>1. /\ asks' \in Seq(Ask)
        /\ DOMAIN asks' = DOMAIN asks
        /\ asks'[i].kind = asks[i].kind
        /\ asks[i].state \in InFlight <=> asks'[i].state \in InFlight
        /\ asks[i].kind = "delete" \/ asks[i].state \in InFlight
        /\ \A j \in DOMAIN asks \ {i} : asks'[j] = asks[j]
    BY <1>0, <1>6, ServerShape
  <2>2. /\ PendingIn(asks') = PendingIn(asks)
        /\ Busy(asks) => Busy(asks')
    BY <1>0, <2>1, JustAsMany
  <2>3. /\ UNCHANGED <<page, view, searching, chosen, shown, cut>>
        /\ stored' \in SUBSET Items
    BY <1>0, <1>6 DEF Served, ServerFinds, ServerEmpties, ServerDeletes
  <2> QED
    BY <1>0, <2>1, <2>2, <2>3 DEF page, IInv, TypeOK, PageType
<1>7. ASSUME NEW i \in DOMAIN asks, SearchComes(i)
      PROVE  IInv'
  <2>1. /\ block' \in Block
        /\ asks' \in Seq(Ask)
        /\ DOMAIN asks' = DOMAIN asks
        /\ cut' \in BOOLEAN
        /\ Good(block')
        /\ Match(block', Cardinality(PendingIn(asks')), cut')
        /\ searching' => Busy(asks')
    BY <1>7, AnswerKeeps DEF SearchComes
  <2>2. asks[i].answer \in View
    <3>1. asks[i] \in Ask
      BY <1>0
    <3> QED
      BY <3>1 DEF Ask
  <2>3. view' \in View
    BY <1>7, <2>2 DEF SearchComes, Shows, Nothing, View
  <2>4. /\ UNCHANGED <<timer, checking, chosen, stored>>
        /\ searching' = FALSE
        /\ shown' \in {i, 0}
    BY <1>7 DEF SearchComes, Answered
  <2> QED
    BY <1>0, <2>1, <2>3, <2>4 DEF IInv, TypeOK, PageType
<1>8. ASSUME NEW i \in DOMAIN asks,
             SearchGarbled(i) \/ SearchFails(i) \/ DeleteFails(i)
      PROVE  IInv'
  <2>1. asks[i].kind \in {"search", "delete"}
    <3>1. asks[i] \in Ask
      BY <1>0
    <3> QED
      BY <3>1 DEF Ask
  <2>2. \E state \in {"shown", "failed", "lost", "garbled"} :
           /\ asks[i].state \in InFlight
           /\ asks' = Closed(i, state)
           /\ Answered
           /\ \/ searching' = FALSE
              \/ searching' = searching /\ (asks[i].kind = "delete" \/ state = "garbled")
    BY <1>8, <2>1 DEF SearchGarbled, SearchFails, DeleteFails, Missed, IsSearch, UnderWay
  <2>3. /\ block' \in Block
        /\ asks' \in Seq(Ask)
        /\ DOMAIN asks' = DOMAIN asks
        /\ cut' \in BOOLEAN
        /\ Good(block')
        /\ Match(block', Cardinality(PendingIn(asks')), cut')
        /\ searching' => Busy(asks')
    BY <2>2, AnswerKeeps
  <2>4. /\ UNCHANGED <<timer, checking, view, chosen, stored, shown>>
        /\ searching' \in BOOLEAN
    BY <1>0, <1>8 DEF SearchGarbled, SearchFails, DeleteFails, Answered
  <2> QED
    BY <1>0, <2>3, <2>4 DEF IInv, TypeOK, PageType
<1>9. ASSUME NEW i \in DOMAIN asks, DeleteComes(i)
      PROVE  IInv'
  <2> DEFINE t == Closed(i, "shown")
  <2>1. /\ t \in Seq(Ask)
        /\ DOMAIN t = DOMAIN asks
        /\ t[i].kind = asks[i].kind
        /\ t[i].state = "shown"
        /\ \A j \in DOMAIN asks \ {i} : t[j] = asks[j]
    BY <1>0, ClosedShape
  <2>2. /\ asks[i].state = "answered"
        /\ asks' = Append(t, New("search", 1))
        /\ searching' = TRUE
        /\ block' = DigestOff(Raise(Post(DigestOn(block))))
        /\ cut' = (cut \/ block.offline)
        /\ UNCHANGED <<timer, checking, view, chosen, stored, shown>>
    BY <1>9 DEF DeleteComes, OnSearch
  <2> HIDE DEF t
  <2>3. Cardinality(PendingIn(asks)) = Cardinality(PendingIn(t)) + 1
    BY <1>0, <2>1, <2>2, OneLess
  <2>4. /\ New("search", 1) \in Ask
        /\ New("search", 1).state = "sent"
        /\ New("search", 1).kind = "search"
    BY NewAsk
  <2>5. /\ asks' \in Seq(Ask)
        /\ DOMAIN asks \subseteq DOMAIN asks'
        /\ Cardinality(PendingIn(asks')) = Cardinality(PendingIn(asks))
        /\ Busy(asks')
    BY <2>1, <2>2, <2>3, <2>4, OneMore
  <2>6. /\ block' \in Block
        /\ Good(block')
        /\ Match(block', Cardinality(PendingIn(asks')), cut \/ block.offline)
    BY <1>0, <2>2, <2>5, AnswerPosts
  <2>7. cut' \in BOOLEAN
    BY <1>0, <2>2 DEF Block
  <2> QED
    BY <1>0, <2>2, <2>5, <2>6, <2>7 DEF IInv, TypeOK, PageType
<1>10. CASE UNCHANGED vars
  BY <1>0, <1>10 DEF vars, screen, page, IInv, TypeOK, PageType
<1> QED
  BY <1>1, <1>2, <1>3, <1>4, <1>5, <1>6, <1>7, <1>8, <1>9, <1>10
  DEF Next, User, Server, Served, Ends

-----------------------------------------------------------------------------
(* The list that is shown *)

\* Found, when st is the table.
FoundIn(st, p) ==
    [rows |-> {x \in st : Cardinality({y \in st : y < x}) \div Limit = p - 1},
     number |-> p, total |-> Cardinality(st)]

\* The answer to request i of s may be out of date: a deletion is done that the
\* screen does not know of, or a later search has been posted.
Overtaken(s, i) ==
    \/ \E j \in DOMAIN s : s[j].kind = "delete" /\ s[j].state \in {"answered", "lost"}
    \/ \E k \in DOMAIN s : s[k].kind = "search" /\ k > i

\* The answers to s, and the view v that shows the answer to request n, are up
\* to date unless they are overtaken.
UpToDate(s, st, v, n) ==
    /\ \A i \in DOMAIN s :
          s[i].kind = "search" /\ s[i].state = "answered" =>
             s[i].answer = FoundIn(st, s[i].of) \/ Overtaken(s, i)
    /\ n # 0 => v = Shows(FoundIn(st, s[n].of)) \/ Overtaken(s, n)

FInv == UpToDate(asks, stored, view, shown)

\* With everything answered nothing overtakes the search that is shown.
LEMMA FInvMeans == TypeOK /\ FInv => Fresh
<1> SUFFICES ASSUME TypeOK, FInv,
                    Pending = {}, shown # 0,
                    \A i \in DOMAIN asks : IsSearch(i) => i <= shown,
                    \A i \in DOMAIN asks : ~IsSearch(i) => asks[i].state # "lost"
             PROVE  view = Shows(Found(asks[shown].of))
  BY DEF Fresh
<1>1. \A i \in DOMAIN asks : i \in Nat
  BY DEF TypeOK
<1>2. \A i \in DOMAIN asks : asks[i].state \notin InFlight
  BY DEF Pending, UnderWay
<1>3. shown \in DOMAIN asks
  BY DEF TypeOK
<1>4. ~Overtaken(asks, shown)
  BY <1>1, <1>2, <1>3 DEF Overtaken, IsSearch
<1>5. Found(asks[shown].of) = FoundIn(stored, asks[shown].of)
  BY DEF Found, FoundIn, Before
<1> QED
  BY <1>4, <1>5 DEF FInv, UpToDate

\* A search that is posted overtakes whatever is on its way, or is shown.
LEMMA NewSearch ==
    ASSUME NEW s \in Seq(Ask), NEW p \in Nat, NEW st, NEW v, NEW n \in DOMAIN s \union {0}
    PROVE  UpToDate(Append(s, New("search", p)), st, v, n)
<1> DEFINE t == Append(s, New("search", p))
           k == Len(s) + 1
<1>1. /\ New("search", p) \in Ask
      /\ New("search", p).state = "sent"
      /\ New("search", p).kind = "search"
  BY NewAsk
<1>2. /\ Len(s) \in Nat
      /\ DOMAIN s = 1 .. Len(s)
      /\ DOMAIN t = 1 .. k
      /\ t[k].state = "sent"
      /\ t[k].kind = "search"
  BY <1>1
<1> HIDE DEF t
<1>3. \A i \in 0 .. Len(s) : Overtaken(t, i)
  BY <1>2 DEF Overtaken
<1>4. \A i \in DOMAIN t : t[i].state = "answered" => i \in 0 .. Len(s)
  BY <1>2
<1>5. n \in 0 .. Len(s)
  BY <1>2
<1>6. UpToDate(t, st, v, n)
  BY <1>3, <1>4, <1>5 DEF UpToDate
<1> QED
  BY <1>6 DEF t

\* Nothing is done to the groups, and nothing known of them is forgotten.
LEMMA NothingNew ==
    ASSUME NEW s, NEW t, NEW st, NEW v, NEW n \in DOMAIN s \union {0},
           UpToDate(s, st, v, n),
           DOMAIN s \subseteq DOMAIN t,
           \A j \in DOMAIN s :
              /\ t[j].kind = s[j].kind
              /\ t[j].of = s[j].of
              /\ s[j].kind = "delete" /\ s[j].state \in {"answered", "lost"} =>
                    t[j].state \in {"answered", "lost"},
           \A j \in DOMAIN t :
              t[j].kind = "search" /\ t[j].state = "answered" =>
                 /\ j \in DOMAIN s
                 /\ t[j].answer = FoundIn(st, s[j].of) \/ t[j] = s[j]
    PROVE  /\ UpToDate(t, st, v, n)
           /\ \A i : Overtaken(s, i) => Overtaken(t, i)
<1>1. \A i : Overtaken(s, i) => Overtaken(t, i)
  BY DEF Overtaken
<1>2. ASSUME NEW i \in DOMAIN t, t[i].kind = "search", t[i].state = "answered"
      PROVE  t[i].answer = FoundIn(st, t[i].of) \/ Overtaken(t, i)
  <2>1. /\ i \in DOMAIN s
        /\ t[i].of = s[i].of
        /\ t[i].answer = FoundIn(st, s[i].of) \/ t[i] = s[i]
    BY <1>2
  <2> QED
    BY <1>1, <1>2, <2>1 DEF UpToDate
<1>3. ASSUME n # 0
      PROVE  v = Shows(FoundIn(st, t[n].of)) \/ Overtaken(t, n)
  <2>1. n \in DOMAIN s /\ t[n].of = s[n].of
    BY <1>3
  <2> QED
    BY <1>1, <1>3, <2>1 DEF UpToDate
<1> QED
  BY <1>1, <1>2, <1>3 DEF UpToDate

\* The view of a search that comes is as up to date as its answer.
LEMMA NewView ==
    ASSUME NEW s, NEW t, NEW st, NEW v, NEW n, UpToDate(s, st, v, n),
           UpToDate(t, st, v, 0),
           NEW i \in DOMAIN s, s[i].kind = "search", s[i].state = "answered",
           t[i].of = s[i].of,
           Overtaken(s, i) => Overtaken(t, i)
    PROVE  UpToDate(t, st, Shows(s[i].answer), i)
  BY DEF UpToDate

\* A deletion that is done overtakes them all.
LEMMA NewDeletion ==
    ASSUME NEW s, NEW st, NEW v, NEW n,
           NEW i \in DOMAIN s, s[i].kind = "delete", s[i].state \in {"answered", "lost"}
    PROVE  UpToDate(s, st, v, n)
<1>1. \A j : Overtaken(s, j)
  BY DEF Overtaken
<1> QED
  BY <1>1 DEF UpToDate

\* Every step keeps FInv.
LEMMA FreshKeeps == TypeOK /\ FInv /\ [Next]_vars => FInv'
<1> SUFFICES ASSUME TypeOK, FInv, [Next]_vars
             PROVE  FInv'
  OBVIOUS
<1>0. /\ asks \in Seq(Ask)
      /\ stored \in SUBSET Items
      /\ shown \in DOMAIN asks \union {0}
      /\ UpToDate(asks, stored, view, shown)
      /\ Len(asks) \in Nat
      /\ DOMAIN asks = 1 .. Len(asks)
      /\ view.total \in Nat
  BY DEF TypeOK, FInv, View
<1>1. CASE UNCHANGED <<asks, stored, view, shown>>
  BY <1>1 DEF FInv
<1>2. CASE \/ Search
           \/ \E p \in 1 .. Pages(view.total) : Turn(p)
  <2>1. PICK p \in Nat : asks' = Append(asks, New("search", p))
    BY <1>0, <1>2 DEF Search, Turn, OnSearch, Pages
  <2>2. shown' = shown
    BY <1>2 DEF Search, Turn
  <2> QED
    BY <1>0, <2>1, <2>2, NewSearch DEF FInv
<1>3. CASE Confirm
  <2>1. /\ chosen \in Nat
        /\ New("delete", chosen).kind = "delete"
        /\ New("delete", chosen) \in Ask
    BY <1>3, NewAsk DEF TypeOK
  <2>2. /\ asks' = Append(asks, New("delete", chosen))
        /\ UNCHANGED <<stored, view, shown>>
    BY <1>3 DEF Confirm
  <2>3. /\ DOMAIN asks' = 1 .. (Len(asks) + 1)
        /\ \A j \in DOMAIN asks : asks'[j] = asks[j]
        /\ asks'[Len(asks) + 1].kind = "delete"
    BY <1>0, <2>1, <2>2
  <2>4. \A j \in DOMAIN asks' : asks'[j].kind = "search" => j \in DOMAIN asks
    BY <1>0, <2>3
  <2>5. DOMAIN asks \subseteq DOMAIN asks'
    BY <1>0, <2>3
  <2>6. UpToDate(asks', stored, view, shown)
    BY <1>0, <2>3, <2>4, <2>5, NothingNew
  <2> QED
    BY <2>2, <2>6 DEF FInv
<1>4. ASSUME NEW i \in DOMAIN asks, Served(i)
      PROVE  FInv'
  <2>1. /\ DOMAIN asks' = DOMAIN asks
        /\ asks'[i].kind = asks[i].kind
        /\ asks'[i].of = asks[i].of
        /\ ServerFinds(i) => asks'[i].answer = Found(asks[i].of)
        /\ ServerEmpties(i) => asks[i].kind = "search" /\ asks'[i].state = "emptied"
        /\ ServerDeletes(i) => asks[i].kind = "delete" /\ asks'[i].state \in {"answered", "lost"}
        /\ \A j \in DOMAIN asks \ {i} : asks'[j] = asks[j]
    BY <1>0, <1>4, ServerShape
  <2>2. CASE ServerFinds(i) \/ ServerEmpties(i)
    <3>1. Found(asks[i].of) = FoundIn(stored, asks[i].of)
      BY DEF Found, FoundIn, Before
    <3>2. UNCHANGED <<stored, view, shown>> /\ asks[i].kind = "search"
      BY <2>2 DEF ServerFinds, ServerEmpties, IsSearch
    <3>3. ASSUME NEW j \in DOMAIN asks', asks'[j].state = "answered"
          PROVE  asks'[j].answer = FoundIn(stored, asks[j].of) \/ asks'[j] = asks[j]
      BY <2>1, <2>2, <3>1, <3>3
    <3>4. UpToDate(asks', stored, view, shown)
      BY <1>0, <2>1, <3>2, <3>3, NothingNew
    <3> QED
      BY <3>2, <3>4 DEF FInv
  <2>3. CASE ServerDeletes(i)
    BY <2>1, <2>3, NewDeletion DEF FInv
  <2> QED
    BY <1>4, <2>2, <2>3 DEF Served
<1>5. ASSUME NEW i \in DOMAIN asks, NEW state \in {"shown", "failed", "lost", "garbled"},
             asks' = Closed(i, state), stored' = stored,
             asks[i].kind = "delete" /\ asks[i].state \in {"answered", "lost"} =>
                state = "lost"
      PROVE  /\ UpToDate(asks', stored', view, shown)
             /\ UpToDate(asks', stored', view, 0)
             /\ asks'[i].of = asks[i].of
             /\ \A j : Overtaken(asks, j) => Overtaken(asks', j)
  <2>1. /\ DOMAIN asks' = DOMAIN asks
        /\ asks'[i].kind = asks[i].kind
        /\ asks'[i].of = asks[i].of
        /\ asks'[i].state = state
        /\ \A j \in DOMAIN asks \ {i} : asks'[j] = asks[j]
    BY <1>0, <1>5, ClosedShape
  <2>2. /\ \A j \in DOMAIN asks :
              /\ asks'[j].kind = asks[j].kind
              /\ asks'[j].of = asks[j].of
              /\ asks[j].kind = "delete" /\ asks[j].state \in {"answered", "lost"} =>
                    asks'[j].state \in {"answered", "lost"}
        /\ \A j \in DOMAIN asks' : asks'[j].state = "answered" => asks'[j] = asks[j]
    BY <1>5, <2>1
  <2>3. /\ UpToDate(asks', stored, view, shown)
        /\ \A j : Overtaken(asks, j) => Overtaken(asks', j)
    BY <1>0, <2>1, <2>2, NothingNew
  <2>4. UpToDate(asks', stored, view, 0)
    BY <2>3 DEF UpToDate
  <2> QED
    BY <1>5, <2>1, <2>3, <2>4
<1>6. ASSUME NEW i \in DOMAIN asks, SearchComes(i)
      PROVE  FInv'
  <2>1. /\ asks[i].kind = "search"
        /\ asks' = Closed(i, "shown")
        /\ view' = Shows(asks[i].answer)
        /\ shown' = IF asks[i].state = "answered" THEN i ELSE 0
        /\ stored' = stored
    BY <1>6 DEF SearchComes, Answered, IsSearch
  <2>2. /\ UpToDate(asks', stored, view, 0)
        /\ asks'[i].of = asks[i].of
        /\ \A j : Overtaken(asks, j) => Overtaken(asks', j)
    BY <1>5, <2>1
  <2>3. CASE asks[i].state = "answered"
    <3>1. UpToDate(asks', stored, Shows(asks[i].answer), i)
      BY <1>0, <2>1, <2>2, <2>3, NewView
    <3> QED
      BY <2>1, <2>3, <3>1 DEF FInv
  <2>4. CASE asks[i].state # "answered"
    <3>1. shown' = 0
      BY <2>1, <2>4
    <3> QED
      BY <2>1, <2>2, <3>1 DEF FInv, UpToDate
  <2> QED
    BY <2>3, <2>4
<1>7. ASSUME NEW i \in DOMAIN asks,
             SearchGarbled(i) \/ SearchFails(i) \/ DeleteFails(i)
      PROVE  FInv'
  <2>1. \E state \in {"shown", "failed", "lost", "garbled"} :
           /\ asks' = Closed(i, state)
           /\ asks[i].kind = "delete" /\ asks[i].state \in {"answered", "lost"} =>
                 state = "lost"
    BY <1>7 DEF SearchGarbled, SearchFails, DeleteFails, Missed, IsSearch, UnderWay
  <2>2. UNCHANGED <<stored, view, shown>>
    BY <1>7 DEF SearchGarbled, SearchFails, DeleteFails, Answered
  <2> QED
    BY <1>5, <2>1, <2>2 DEF FInv
<1>8. ASSUME NEW i \in DOMAIN asks, DeleteComes(i)
      PROVE  FInv'
  <2>1. /\ Closed(i, "shown") \in Seq(Ask)
        /\ DOMAIN Closed(i, "shown") = DOMAIN asks
    BY <1>0, ClosedShape
  <2>2. /\ asks' = Append(Closed(i, "shown"), New("search", 1))
        /\ shown' = shown
    BY <1>8 DEF DeleteComes, OnSearch
  <2> QED
    BY <1>0, <2>1, <2>2, NewSearch DEF FInv
<1>9. (PageNext /\ UNCHANGED screen) \/ (\E x \in Items : Choose(x)) \/ Cancel
         \/ UNCHANGED vars => UNCHANGED <<asks, stored, view, shown>>
  BY DEF screen, Choose, Cancel, vars
<1> QED
  BY <1>1, <1>2, <1>3, <1>4, <1>6, <1>7, <1>8, <1>9
  DEF Next, User, Server, Served, Ends

-----------------------------------------------------------------------------
(* The theorems *)

\* The state of the page and of the screen, and the four statements below, hold
\* for any groups, rows of a page and number of requests: IInv is inductive.
THEOREM Invariant == Spec => []IInv
<1>1. Init => IInv
  BY InitHolds
<1>2. IInv /\ [Next]_vars => IInv'
  BY StepKeeps
<1> QED
  BY <1>1, <1>2, PTL DEF Spec

\* The variables of the page and of the screen keep their types.
THEOREM TypeCorrect == Spec => []TypeOK
<1>1. IInv => TypeOK
  BY DEF IInv
<1> QED
  BY <1>1, Invariant, PTL

\* A page that is blocked is down or loading, and says so: what turnBackdrop,
\* turnOffline and the digest do to the two boxes never comes apart.
THEOREM BlockHolds == Spec => []BlockInv
<1>1. IInv => BlockInv
  BY IInvMeans
<1> QED
  BY <1>1, Invariant, PTL

\* The listeners of $$digest that post registers match the requests under way.
THEOREM ListenersHold == Spec => []ListenersMatch
<1>1. IInv => ListenersMatch
  BY IInvMeans
<1> QED
  BY <1>1, Invariant, PTL

\* A disabled search form waits for a search, or for an unreadable answer.
THEOREM SearchingHolds == Spec => []SearchingInv
<1>1. IInv => SearchingInv
  BY IInvMeans
<1> QED
  BY <1>1, Invariant, PTL

\* What is shown when everything is answered is what is in the database, up to
\* the answers that were lost (onDelete's search, and the order of answers).
THEOREM FreshHolds == Spec => []Fresh
<1>1. Init => FInv
  <2> SUFFICES ASSUME Init
               PROVE  FInv
    OBVIOUS
  <2>1. asks[1].state = "sent" /\ DOMAIN asks = {1} /\ shown = 0
    BY DEF Init, New
  <2> QED
    BY <2>1 DEF FInv, UpToDate
<1>2. TypeOK /\ FInv /\ [Next]_vars => FInv'
  BY FreshKeeps
<1>3. TypeOK /\ FInv => Fresh
  BY FInvMeans
<1> QED
  BY <1>1, <1>2, <1>3, TypeCorrect, PTL DEF Spec
=============================================================================
