----------------------------- MODULE WebProofs -----------------------------
(* Proofs about what a request passes through inside the gate: the session's  *)
(* pipeline (WebSession, the instance Web of MCServices), for any number of   *)
(* visitors and requests, and the middleware of its route (Routing, the       *)
(* instance Routes).  The session is a cookie only, so its invariant says of  *)
(* every copy of a session, in a browser, with a request or in an answer on   *)
(* its way back, whose it is.                                                 *)
EXTENDS MCServices, SequenceTheorems, WellFoundedInduction, TLAPS

Tokens == Nat \cup {None}
Sessions == [token : Tokens, user : Visitors \cup {None}]
Cookies == Sessions \cup {None, Keep}

\* What stands for nothing is no visitor, no token and no session.
WebConstants ==
  /\ None \notin Visitors /\ None \notin Nat /\ None # Keep
  /\ None \notin Sessions /\ Keep \notin Sessions

Methods == {"", "GET", "POST", "DELETE"}

RequestSet ==
  [pc : {"new", "sent", "handling", "answered", "done"}, by : Visitors \cup {None},
   sent : Methods, method : Methods, submitted : Tokens, sess : Sessions, dirty : BOOLEAN,
   cookie : Cookies, form : Tokens]

WebTypes ==
  /\ jar \in [Visitors -> Sessions \cup {None}]
  /\ page \in [Visitors -> Tokens]
  /\ request \in [Requests -> RequestSet]
  /\ \A r \in Requests : request[r].pc \in {"sent", "handling", "answered"} <=> request[r].by \in Visitors
  /\ tokens \in Nat
  /\ ideal \in [Visitors -> Sessions]
  /\ excused \subseteq Visitors

\* What httpcache holds: inside the session's middleware no Set-Cookie.
CachedPage == stored # None => stored.cookie = Keep /\ stored.form \in Tokens

\* The cookie of a request's answer, and a session that a visitor's browser, one
\* of its requests or an answer to it has.
Carried(q, s) == q.pc = "answered" /\ q.cookie = s /\ s \in Sessions
Has(v, s) ==
  \/ s = Web!Load(jar[v])
  \/ \E r \in Requests : request[r].by = v /\ (s = request[r].sess \/ Carried(request[r], s))

\* Whoever's the session is, it has that visitor's name or none, and a token
\* generated for that visitor or none.
Named == \A v \in Visitors : \A s \in Sessions : Has(v, s) => s.user \in {None, v}
Issued == \A v \in Visitors : \A s \in Sessions : Has(v, s) => s.token = None \/ s.token \in 1 .. tokens
Own ==
  /\ madeFor \in Seq(Visitors) /\ Len(madeFor) = tokens
  /\ \A v \in Visitors : \A s \in Sessions : Has(v, s) /\ s.token # None => madeFor[s.token] = v

\* csrf has compared the token of a request whose handler runs.
Compared ==
  \A r \in Requests : request[r].pc = "handling" /\ request[r].method # "GET"
    => request[r].submitted # None /\ request[r].submitted = request[r].sess.token

\* The form a browser shows, or is about to, has the token of the session.
FormFits(form, sess) == form # None /\ ~Web!CacheInside => form = sess.token

\* The visitor's session is in the cookie, or will be once the answer is there.
Underway(v, q) ==
  IF q.pc = "answered"
  THEN /\ ideal[v] = IF q.cookie = Keep THEN Web!Load(jar[v]) ELSE Web!Load(q.cookie)
       /\ FormFits(q.form, ideal[v])
  ELSE ideal[v] = Web!Load(jar[v]) /\ q.sess = ideal[v] /\ FormFits(page[v], ideal[v])

Remembered(v) ==
  /\ \A r, x \in Web!Open(v) : r = x
  /\ \A r \in Web!Open(v) : Underway(v, request[r])
  /\ Web!Open(v) = {} => ideal[v] = Web!Load(jar[v]) /\ FormFits(page[v], ideal[v])

WebInv ==
  /\ WebTypes /\ CachedPage /\ Named /\ Issued /\ Own /\ Compared
  /\ \A v \in Visitors \ excused : Remembered(v)

-----------------------------------------------------------------------------
(* Sessions stay with their visitors.                                         *)

\* A step that hands a session on, starts an empty one or gives v a new token.
LEMMA Handed ==
  ASSUME WebConstants, WebTypes, Named, Issued, Own, NEW v \in Visitors,
         \/ UNCHANGED <<tokens, madeFor>>
         \/ tokens' = tokens + 1 /\ madeFor' = Append(madeFor, v),
         \A w \in Visitors : \A s \in Sessions : Has(w, s)' =>
           /\ s.user \in {None, w}
           /\ \/ s.token = None
              \/ \E u \in Sessions : Has(w, u) /\ u.token = s.token
              \/ w = v /\ s.token = tokens + 1 /\ tokens' = tokens + 1
  PROVE  Named' /\ Issued' /\ Own'
<1>0. tokens \in Nat /\ madeFor \in Seq(Visitors) /\ Len(madeFor) = tokens /\ tokens' # None
      /\ tokens' \in Nat /\ tokens <= tokens'
  BY DEF WebTypes, Own, WebConstants
<1>1. Named'
  BY DEF Named
<1>2. ASSUME NEW w \in Visitors, NEW s \in Sessions, Has(w, s)', s.token # None
      PROVE  \/ s.token \in 1 .. tokens /\ madeFor[s.token] = w
             \/ w = v /\ s.token = tokens + 1 /\ tokens' = tokens + 1
  <2>1. CASE \E u \in Sessions : Has(w, u) /\ u.token = s.token
    BY <1>2, <2>1 DEF Issued, Own
  <2> QED BY <1>2, <2>1
<1>3. Issued'
  <2> SUFFICES ASSUME NEW w \in Visitors, NEW s \in Sessions, Has(w, s)', s.token # None
               PROVE  s.token \in 1 .. tokens'
    BY DEF Issued
  <2> QED BY <1>0, <1>2
<1>4. /\ madeFor' \in Seq(Visitors) /\ Len(madeFor') = tokens'
      /\ \A n \in 1 .. tokens : madeFor'[n] = madeFor[n]
      /\ tokens' = tokens + 1 => madeFor'[tokens + 1] = v
  <2>1. CASE UNCHANGED <<tokens, madeFor>>
    BY <1>0, <2>1
  <2>2. CASE tokens' = tokens + 1 /\ madeFor' = Append(madeFor, v)
    BY <1>0, <2>2, AppendProperties
  <2> QED BY <2>1, <2>2
<1>5. Own'
  <2> SUFFICES ASSUME NEW w \in Visitors, NEW s \in Sessions, Has(w, s)', s.token # None
               PROVE  madeFor'[s.token] = w
    BY <1>4 DEF Own
  <2> QED BY <1>2, <1>4
<1> QED BY <1>1, <1>3, <1>5

LEMMA EmptySession == Web!Empty \in Sessions /\ Web!Empty.token = None /\ Web!Empty.user = None
BY DEF Web!Empty, Sessions, Tokens

LEMMA Loaded ==
  ASSUME NEW c \in Sessions \cup {None}
  PROVE  Web!Load(c) \in Sessions
BY EmptySession DEF Web!Load

LEMMA NewToken ==
  ASSUME WebConstants, tokens \in Nat, NEW sess \in Sessions
  PROVE  /\ Web!WithToken(sess) \in Sessions
         /\ Web!WithToken(sess).user = sess.user
         /\ Web!WithToken(sess).token \in Nat
         /\ Web!WithToken(sess) # Web!Empty
         /\ Web!TokensAfter(sess) \in Nat /\ tokens <= Web!TokensAfter(sess)
         /\ \/ Web!WithToken(sess).token = sess.token /\ Web!TokensAfter(sess) = tokens
               /\ sess.token # None
            \/ sess.token = None /\ Web!WithToken(sess).token = tokens + 1 /\ Web!TokensAfter(sess) = tokens + 1
<1>1. CASE sess.token = None
  <2>1. Web!WithToken(sess) = [sess EXCEPT !.token = tokens + 1]
    BY <1>1 DEF Web!WithToken
  <2>2. Web!WithToken(sess) = [token |-> tokens + 1, user |-> sess.user]
    BY <2>1 DEF Sessions
  <2>3. Web!WithToken(sess) \in Sessions
    BY <2>2 DEF Sessions, Tokens
  <2> QED BY <1>1, <2>2, <2>3, EmptySession DEF Web!TokensAfter, WebConstants
<1>2. CASE sess.token # None
  <2>1. Web!WithToken(sess) = sess /\ Web!TokensAfter(sess) = tokens
    BY <1>2 DEF Web!WithToken, Web!TokensAfter
  <2>2. sess.token \in Nat
    BY <1>2 DEF Sessions, Tokens
  <2> QED BY <1>2, <2>1, <2>2, EmptySession
<1> QED BY <1>1, <1>2

\* What Answer does to the requests.
LEMMA Answered ==
  ASSUME WebTypes, NEW r \in Requests, NEW sess \in Sessions, NEW dirty \in BOOLEAN,
         NEW cookie \in Cookies, NEW form \in Tokens, Web!Answer(r, sess, dirty, cookie, form)
  PROVE  /\ request' \in [Requests -> RequestSet]
         /\ request'[r].pc = "answered" /\ request'[r].by = request[r].by
         /\ request'[r].sess = sess /\ request'[r].cookie = cookie /\ request'[r].form = form
         /\ \A x \in Requests \ {r} : request'[x] = request[x]
<1> DEFINE q == request[r]
           a == [q EXCEPT !.pc = "answered", !.sess = sess, !.dirty = dirty,
                          !.cookie = cookie, !.form = form]
<1>1. q \in RequestSet
  BY DEF WebTypes
<1> HIDE DEF q
<1>2. a \in RequestSet /\ a.pc = "answered" /\ a.by = q.by /\ a.sess = sess /\ a.cookie = cookie
      /\ a.form = form
  BY <1>1 DEF RequestSet
<1> HIDE DEF a
<1>3. request' = [request EXCEPT ![r] = a]
  BY DEF Web!Answer, a, q
<1> QED BY <1>2, <1>3 DEF WebTypes, q

\* An answer to a request of v that has the session, or is to keep the one that
\* the request came with.
LEMMA AnswerStep ==
  ASSUME WebConstants, WebInv, NEW r \in Requests, NEW v \in Visitors, v = request[r].by,
         request[r].pc \in {"sent", "handling"},
         NEW sess \in Sessions, NEW dirty \in BOOLEAN, NEW cookie \in Cookies, NEW form \in Tokens,
         Web!Answer(r, sess, dirty, cookie, form), UNCHANGED <<stack, jar, page>>,
         sess.user \in {None, v},
         \/ UNCHANGED <<tokens, madeFor>> /\ sess.token \in {None, request[r].sess.token}
         \/ sess.token = tokens + 1 /\ tokens' = tokens + 1 /\ madeFor' = Append(madeFor, v),
         cookie \in {Keep, None, sess},
         ideal' \in [Visitors -> Sessions], \A w \in Visitors \ {v} : ideal'[w] = ideal[w],
         excused \subseteq excused', excused' \subseteq Visitors,
         v \notin excused' =>
           /\ ideal'[v] = sess \/ (ideal'[v] = ideal[v] /\ sess = request[r].sess)
           /\ IF cookie = Keep THEN sess = request[r].sess ELSE Web!Load(cookie) = sess
           /\ FormFits(form, sess),
         CachedPage'
  PROVE  WebInv'
<1>0. WebTypes /\ Named /\ Issued /\ Own /\ Compared /\ \A w \in Visitors \ excused : Remembered(w)
  BY DEF WebInv
<1>1. /\ request' \in [Requests -> RequestSet]
      /\ request'[r].pc = "answered" /\ request'[r].by = v
      /\ request'[r].sess = sess /\ request'[r].cookie = cookie /\ request'[r].form = form
      /\ \A x \in Requests \ {r} : request'[x] = request[x]
  BY <1>0, Answered
<1>2. WebTypes' /\ Compared'
  <2>1. tokens' \in Nat
    BY <1>0 DEF WebTypes
  <2>2. Compared'
    BY <1>0, <1>1 DEF Compared
  <2> QED BY <1>0, <1>1, <2>1, <2>2 DEF WebTypes
<1>3. ASSUME NEW w \in Visitors, NEW s \in Sessions, Has(w, s)' PROVE Has(w, s) \/ (w = v /\ s = sess)
  <2>1. CASE s = Web!Load(jar'[w])
    BY <2>1 DEF Has
  <2>2. ASSUME NEW x \in Requests, request'[x].by = w,
               s = request'[x].sess \/ Carried(request'[x], s)
        PROVE  Has(w, s) \/ (w = v /\ s = sess)
    <3>1. CASE x = r
      BY <1>1, <2>2, <3>1 DEF Carried, WebConstants
    <3>2. CASE x # r
      BY <1>1, <2>2, <3>2 DEF Has
    <3> QED BY <3>1, <3>2
  <2> QED BY <1>3, <2>1, <2>2 DEF Has, Web!Load, Web!Empty
<1>4. request[r].sess \in Sessions /\ Has(v, request[r].sess)
  BY <1>0 DEF WebTypes, RequestSet, Has
<1>5. Named' /\ Issued' /\ Own'
  <2>1. ASSUME NEW w \in Visitors, NEW s \in Sessions, Has(w, s)'
        PROVE  /\ s.user \in {None, w}
               /\ \/ s.token = None
                  \/ \E u \in Sessions : Has(w, u) /\ u.token = s.token
                  \/ w = v /\ s.token = tokens + 1 /\ tokens' = tokens + 1
    <3>1. CASE Has(w, s)
      BY <1>0, <3>1 DEF Named
    <3>2. CASE w = v /\ s = sess
      BY <1>4, <3>2
    <3> QED BY <1>3, <2>1, <3>1, <3>2
  <2>2. \A w \in Visitors : \A s \in Sessions : Has(w, s)' =>
          /\ s.user \in {None, w}
          /\ \/ s.token = None
             \/ \E u \in Sessions : Has(w, u) /\ u.token = s.token
             \/ w = v /\ s.token = tokens + 1 /\ tokens' = tokens + 1
    BY <2>1
  <2> QED BY <1>0, <2>2, Handed
<1>6. ASSUME NEW w \in Visitors PROVE Web!Open(w)' = Web!Open(w)
  BY <1>1 DEF Web!Open
<1>7. r \in Web!Open(v)
  BY DEF Web!Open
<1>8. ASSUME NEW w \in Visitors \ excused' PROVE Remembered(w)'
  <2>1. Remembered(w)
    BY <1>0
  <2>2. CASE w # v
    <3>1. \A x \in Web!Open(w) : request'[x] = request[x]
      BY <1>1, <2>2 DEF Web!Open
    <3>2. ideal'[w] = ideal[w] /\ jar'[w] = jar[w] /\ page'[w] = page[w]
      BY <2>2
    <3> QED BY <1>6, <2>1, <3>1, <3>2
        DEF Remembered, Underway, FormFits, Web!CacheInside, Web!Load, Web!Empty
  <2>3. CASE w = v
    <3>1. Web!Open(v) = {r} /\ Underway(v, request[r])
      BY <1>7, <2>1, <2>3 DEF Remembered
    <3>2. ideal[v] = Web!Load(jar[v]) /\ request[r].sess = ideal[v]
      BY <3>1 DEF Underway
    <3>3. ideal'[v] = sess
      BY <2>3, <3>2
    <3>4. Underway(v, request[r])'
      BY <1>1, <2>3, <3>2, <3>3 DEF Underway, FormFits, Web!CacheInside, Web!Load, Web!Empty
    <3> QED BY <1>6, <2>3, <3>1, <3>4 DEF Remembered
  <2> QED BY <2>2, <2>3
<1> QED BY <1>2, <1>5, <1>8 DEF WebInv

\* persist writes the session into the cookie, unless it is as it was.
LEMMA Persisted ==
  ASSUME WebConstants, NEW sess \in Sessions, NEW dirty \in BOOLEAN
  PROVE  /\ Web!Persist(sess, dirty) \in {Keep, None, sess}
         /\ Web!Persist(sess, dirty) \in Cookies
         /\ Web!Persist(sess, dirty) = Keep <=> ~dirty
         /\ dirty => Web!Load(Web!Persist(sess, dirty)) = sess
BY DEF Web!Persist, Web!Load, Cookies, WebConstants

\* A page is shown, fails to render, or is refused: the session has a token.
LEMMA TokenStep ==
  ASSUME WebConstants, WebInv, NEW r \in Requests, request[r].pc \in {"sent", "handling"},
         NEW cookie, NEW form \in {None, Web!WithToken(request[r].sess).token},
         LET sess == Web!WithToken(request[r].sess)
         IN  /\ cookie = Web!Persist(sess, sess # request[r].sess)
             /\ Web!Answer(r, sess, sess # request[r].sess, cookie, form)
             /\ ideal' = [ideal EXCEPT ![request[r].by] = sess],
         tokens' = Web!TokensAfter(request[r].sess), madeFor' = Web!MadeFor(request[r]),
         UNCHANGED <<stack, jar, page, excused>>, CachedPage'
  PROVE  WebInv'
<1>0. WebTypes /\ Named
  BY DEF WebInv
<1>1. request[r] \in RequestSet /\ request[r].by \in Visitors /\ tokens \in Nat
  BY <1>0 DEF WebTypes
<1> DEFINE q == request[r]
           sess == Web!WithToken(q.sess)
           dirty == sess # q.sess
<1>2. q.sess \in Sessions /\ Has(q.by, q.sess)
  BY <1>1 DEF RequestSet, Has
<1>3. /\ sess \in Sessions /\ sess.user = q.sess.user /\ sess.token \in Nat
      /\ \/ UNCHANGED <<tokens, madeFor>> /\ sess.token \in {None, q.sess.token}
         \/ sess.token = tokens + 1 /\ tokens' = tokens + 1 /\ madeFor' = Append(madeFor, q.by)
  BY <1>1, <1>2, NewToken DEF Web!MadeFor
<1>4. sess.user \in {None, q.by}
  BY <1>0, <1>1, <1>2, <1>3 DEF Named
<1>5. dirty \in BOOLEAN /\ form \in Tokens /\ FormFits(form, sess)
  BY <1>3 DEF Tokens, FormFits
<1>6. /\ cookie \in {Keep, None, sess} /\ cookie \in Cookies
      /\ IF cookie = Keep THEN sess = q.sess ELSE Web!Load(cookie) = sess
  BY <1>3, <1>5, Persisted
<1>7. Web!Answer(r, sess, dirty, cookie, form) /\ ideal' = [ideal EXCEPT ![q.by] = sess]
  OBVIOUS
<1>8. /\ ideal' \in [Visitors -> Sessions] /\ ideal'[q.by] = sess
      /\ \A w \in Visitors \ {q.by} : ideal'[w] = ideal[w]
  BY <1>0, <1>1, <1>3, <1>7 DEF WebTypes
<1>9. excused \subseteq excused' /\ excused' \subseteq Visitors
  BY <1>0 DEF WebTypes
<1> HIDE DEF sess, dirty
<1> QED BY <1>1, <1>3, <1>4, <1>5, <1>6, <1>7, <1>8, <1>9, AnswerStep

\* The handler of an unsafe method leaves this session, and either its answer
\* carries it or the visitor is excused.
LEMMA HandlerStep ==
  ASSUME WebConstants, WebInv, NEW r \in Requests, request[r].pc = "handling",
         NEW sess \in Sessions, NEW dirty \in BOOLEAN, NEW cookie \in Cookies,
         Web!Answer(r, sess, dirty, cookie, None), ideal' = [ideal EXCEPT ![request[r].by] = sess],
         sess.user \in {None, request[r].by}, sess.token \in {None, request[r].sess.token},
         cookie \in {Keep, None, sess},
         \/ /\ excused' = excused
            /\ IF cookie = Keep THEN sess = request[r].sess ELSE Web!Load(cookie) = sess
         \/ excused' = excused \cup {request[r].by},
         UNCHANGED <<stack, jar, page, stored, tokens, madeFor>>
  PROVE  WebInv'
<1>0. WebTypes
  BY DEF WebInv
<1>1. request[r].by \in Visitors
  BY <1>0 DEF WebTypes
<1>2. /\ ideal' \in [Visitors -> Sessions] /\ ideal'[request[r].by] = sess
      /\ \A w \in Visitors \ {request[r].by} : ideal'[w] = ideal[w]
  BY <1>0, <1>1 DEF WebTypes
<1>3. excused \subseteq excused' /\ excused' \subseteq Visitors
  BY <1>0, <1>1 DEF WebTypes
<1>4. CachedPage' /\ None \in Tokens /\ FormFits(None, sess)
  BY DEF WebInv, CachedPage, Tokens, FormFits
<1>5. request[r].by \notin excused' =>
        IF cookie = Keep THEN sess = request[r].sess ELSE Web!Load(cookie) = sess
  OBVIOUS
<1> QED BY <1>1, <1>2, <1>3, <1>4, <1>5, AnswerStep

LEMMA NewRequest == Web!NoRequest \in RequestSet /\ Web!NoRequest.pc = "new" /\ Web!NoRequest.by = None
BY EmptySession DEF Web!NoRequest, RequestSet, Methods, Cookies, Tokens

LEMMA SendStep ==
  ASSUME WebConstants, WebInv, NEW r \in Requests, NEW v \in Visitors, Web!Send(r, v)
  PROVE  WebInv'
<1>0. WebTypes /\ Named /\ Issued /\ Own /\ Compared /\ \A w \in Visitors \ excused : Remembered(w)
  BY DEF WebInv
<1>1. PICK sent_ \in {"GET", "POST"}, method \in {"", "GET", "DELETE"},
        submitted \in {page[w] : w \in Visitors} \cup {None} :
        request' = [request EXCEPT ![r] =
          [Web!NoRequest EXCEPT !.pc = "sent", !.by = v, !.sent = sent_,
                           !.method = Web!Override(sent_, method), !.submitted = submitted,
                           !.sess = Web!Load(jar[v])]]
  BY DEF Web!Send
<1> DEFINE q == [Web!NoRequest EXCEPT !.pc = "sent", !.by = v, !.sent = sent_,
                           !.method = Web!Override(sent_, method), !.submitted = submitted,
                           !.sess = Web!Load(jar[v])]
<1>2. /\ Web!Load(jar[v]) \in Sessions /\ submitted \in Tokens
      /\ Web!Override(sent_, method) \in Methods /\ sent_ \in Methods
  <2>1. Web!Load(jar[v]) \in Sessions
    BY <1>0, Loaded DEF WebTypes
  <2>2. submitted \in Tokens
    BY <1>0 DEF WebTypes, Tokens
  <2> QED BY <2>1, <2>2 DEF Methods, Web!Override
<1>4. q \in RequestSet /\ q.pc = "sent" /\ q.by = v /\ q.sess = Web!Load(jar[v])
  <2> DEFINE none == Web!NoRequest
             m == Web!Override(sent_, method)
             sess == Web!Load(jar[v])
  <2>1. none \in RequestSet /\ m \in Methods /\ sent_ \in Methods /\ submitted \in Tokens
        /\ sess \in Sessions
    BY <1>2, NewRequest
  <2> HIDE DEF none, m, sess
  <2>2. LET x == [none EXCEPT !.pc = "sent", !.by = v, !.sent = sent_, !.method = m,
                              !.submitted = submitted, !.sess = sess]
        IN  x \in RequestSet /\ x.pc = "sent" /\ x.by = v /\ x.sess = sess
    BY <2>1 DEF RequestSet
  <2> QED BY <2>2 DEF none, m, sess
<1> HIDE DEF q
<1>5. /\ request' \in [Requests -> RequestSet] /\ request'[r] = q
      /\ \A x \in Requests \ {r} : request'[x] = request[x]
  BY <1>0, <1>1, <1>4 DEF WebTypes, q
<1>6. /\ request[r].pc = "new" /\ request[r].by \notin Visitors
      /\ UNCHANGED <<stack, jar, page, stored, tokens, ideal, madeFor>>
      /\ excused' = IF Web!Open(v) = {} THEN excused ELSE excused \cup {v}
  BY <1>0 DEF Web!Send, WebTypes
<1>7. WebTypes' /\ CachedPage'
  BY <1>0, <1>4, <1>5, <1>6 DEF WebTypes, WebInv, CachedPage
<1>8. ASSUME NEW w \in Visitors, NEW s \in Sessions, Has(w, s)' PROVE Has(w, s)
  <2>1. CASE s = Web!Load(jar'[w])
    BY <1>6, <2>1 DEF Has
  <2>2. ASSUME NEW x \in Requests, request'[x].by = w,
               s = request'[x].sess \/ Carried(request'[x], s)
        PROVE  Has(w, s)
    BY <1>4, <1>5, <2>2 DEF Has, Carried
  <2> QED BY <1>6, <1>8, <2>1, <2>2 DEF Has, Web!Load, Web!Empty
<1>9. Named' /\ Issued' /\ Own' /\ Compared'
  <2>1. Compared'
    BY <1>0, <1>4, <1>5 DEF Compared
  <2> QED BY <1>0, <1>6, <1>8, <2>1 DEF Named, Issued, Own
<1>10. ASSUME NEW w \in Visitors \ excused' PROVE Remembered(w)'
  <2>1. Remembered(w)
    BY <1>0, <1>6
  <2>2. CASE w # v
    <3>1. r \notin Web!Open(w) /\ r \notin Web!Open(w)'
      BY <1>4, <1>5, <1>6, <2>2 DEF Web!Open
    <3>2. ASSUME NEW x \in Requests \ {r} PROVE x \in Web!Open(w)' <=> x \in Web!Open(w)
      BY <1>5 DEF Web!Open
    <3>3. Web!Open(w)' = Web!Open(w) /\ Web!Open(w) \subseteq Requests \ {r}
      BY <3>1, <3>2 DEF Web!Open
    <3>4. \A x \in Web!Open(w) : request'[x] = request[x]
      BY <1>5, <3>3
    <3>5. ASSUME NEW x \in Web!Open(w) PROVE Underway(w, request[x])'
      <4>1. Underway(w, request[x])
        BY <2>1 DEF Remembered
      <4> QED BY <1>6, <3>4, <4>1 DEF Underway, FormFits, Web!CacheInside, Web!Load, Web!Empty
    <3>6. (ideal[w] = Web!Load(jar[w]) /\ FormFits(page[w], ideal[w]))'
            = (ideal[w] = Web!Load(jar[w]) /\ FormFits(page[w], ideal[w]))
      BY <1>6 DEF FormFits, Web!CacheInside, Web!Load, Web!Empty
    <3> QED BY <2>1, <3>3, <3>5, <3>6 DEF Remembered
  <2>3. CASE w = v
    <3>1. Web!Open(v) = {} /\ Web!Open(v)' = {r}
      <4>1. Web!Open(v) = {}
        BY <1>6, <2>3
      <4>2. r \in Web!Open(v)'
        BY <1>4, <1>5 DEF Web!Open
      <4>3. ASSUME NEW x \in Web!Open(v)', x # r PROVE FALSE
        <5>1. x \in Requests /\ request'[x] = request[x] /\ request'[x].by = v /\ request'[x].pc # "done"
          BY <1>5, <4>3 DEF Web!Open
        <5> QED BY <4>1, <5>1 DEF Web!Open
      <4> QED BY <4>1, <4>2, <4>3
    <3>2. ideal[v] = Web!Load(jar[v]) /\ FormFits(page[v], ideal[v])
      BY <2>1, <2>3, <3>1 DEF Remembered
    <3>3. Underway(v, request[r])'
      BY <1>4, <1>5, <1>6, <3>2 DEF Underway, FormFits, Web!CacheInside, Web!Load, Web!Empty
    <3> QED BY <2>3, <3>1, <3>3 DEF Remembered
  <2> QED BY <2>2, <2>3
<1> QED BY <1>7, <1>9, <1>10 DEF WebInv

\* The request reaches its handler: all that changes is where it is.
LEMMA ReachStep ==
  ASSUME WebConstants, WebInv, NEW r \in Requests, Web!Reach(r)
  PROVE  WebInv'
<1>0. WebTypes /\ Named /\ Issued /\ Own /\ Compared /\ \A w \in Visitors \ excused : Remembered(w)
  BY DEF WebInv
<1> DEFINE old == request[r]
           q == [old EXCEPT !.pc = "handling"]
<1>1. old \in RequestSet /\ old.pc = "sent"
      /\ UNCHANGED <<stack, jar, page, stored, tokens, ideal, excused, madeFor>>
  BY <1>0 DEF Web!Reach, WebTypes
<1> HIDE DEF old
<1>2. /\ q \in RequestSet /\ q.pc = "handling"
      /\ q.by = old.by /\ q.sess = old.sess /\ q.method = old.method /\ q.submitted = old.submitted
  BY <1>1 DEF RequestSet
<1> HIDE DEF q
<1>3. request' = [request EXCEPT ![r] = q]
  BY DEF Web!Reach, q, old
<1>4. /\ request' \in [Requests -> RequestSet] /\ request'[r] = q
      /\ \A x \in Requests \ {r} : request'[x] = request[x]
  BY <1>0, <1>2, <1>3 DEF WebTypes
<1>5. WebTypes' /\ CachedPage'
  BY <1>0, <1>1, <1>2, <1>4 DEF WebTypes, WebInv, CachedPage, old
<1>6. ASSUME NEW w \in Visitors, NEW s \in Sessions, Has(w, s)' PROVE Has(w, s)
  <2>1. CASE s = Web!Load(jar'[w])
    BY <1>1, <2>1 DEF Has
  <2>2. ASSUME NEW x \in Requests, request'[x].by = w,
               s = request'[x].sess \/ Carried(request'[x], s)
        PROVE  Has(w, s)
    BY <1>2, <1>4, <2>2 DEF Has, Carried, old
  <2> QED BY <1>1, <1>6, <2>1, <2>2 DEF Has, Web!Load, Web!Empty
<1>7. Named' /\ Issued' /\ Own' /\ Compared'
  <2>1. old.method = "GET" \/ (old.sess.token # None /\ old.submitted = old.sess.token)
    BY DEF Web!Reach, Web!IsSafe, old
  <2>2. Compared'
    BY <1>0, <1>2, <1>4, <2>1 DEF Compared
  <2> QED BY <1>0, <1>1, <1>6, <2>2 DEF Named, Issued, Own
<1>8. ASSUME NEW w \in Visitors \ excused' PROVE Remembered(w)'
  <2>1. Remembered(w)
    BY <1>0, <1>1
  <2>2. Web!Open(w)' = Web!Open(w)
    BY <1>1, <1>2, <1>4 DEF Web!Open, old
  <2>3. ASSUME NEW x \in Web!Open(w) PROVE Underway(w, request[x])'
    <3>1. Underway(w, request[x]) /\ x \in Requests
      BY <2>1, <2>3 DEF Remembered, Web!Open
    <3>2. CASE x = r
      BY <1>1, <1>2, <1>4, <3>1, <3>2 DEF Underway, FormFits, Web!CacheInside, Web!Load, Web!Empty, old
    <3>3. CASE x # r
      BY <1>1, <1>4, <3>1, <3>3 DEF Underway, FormFits, Web!CacheInside, Web!Load, Web!Empty
    <3> QED BY <3>2, <3>3
  <2> QED BY <1>1, <2>1, <2>2, <2>3 DEF Remembered, FormFits, Web!CacheInside, Web!Load, Web!Empty
<1> QED BY <1>5, <1>7, <1>8 DEF WebInv

\* The browser takes over the cookie, if there is one.
LEMMA ReceiveStep ==
  ASSUME WebConstants, WebInv, NEW r \in Requests, Web!Receive(r)
  PROVE  WebInv'
<1>0. WebTypes /\ Named /\ Issued /\ Own /\ Compared /\ \A w \in Visitors \ excused : Remembered(w)
  BY DEF WebInv
<1>1. PICK v \in Visitors : v = request[r].by
  BY <1>0 DEF Web!Receive, WebTypes
<1> DEFINE old == request[r]
           none == Web!NoRequest
           q == [none EXCEPT !.pc = "done"]
           c == IF old.cookie = Keep THEN jar[v] ELSE old.cookie
<1>2. /\ old \in RequestSet /\ old.pc = "answered" /\ old.by = v
      /\ UNCHANGED <<stack, stored, tokens, ideal, excused, madeFor>>
      /\ page' = [page EXCEPT ![v] = old.form]
  BY <1>0, <1>1 DEF Web!Receive, WebTypes
<1>3. jar' = [jar EXCEPT ![v] = c]
  BY <1>1 DEF Web!Receive
<1>4. none \in RequestSet /\ none.by = None
  BY NewRequest
<1>5. request' = [request EXCEPT ![r] = q]
  BY DEF Web!Receive
<1> HIDE DEF old, none
<1>6. q \in RequestSet /\ q.pc = "done" /\ q.by = None
  BY <1>4 DEF RequestSet
<1> HIDE DEF q
<1>7. /\ request' \in [Requests -> RequestSet] /\ request'[r] = q
      /\ \A x \in Requests \ {r} : request'[x] = request[x]
  BY <1>0, <1>5, <1>6 DEF WebTypes
<1>8. c \in Sessions \cup {None} /\ old.form \in Tokens
  BY <1>0, <1>2 DEF WebTypes, RequestSet, Cookies
<1>9. /\ jar' \in [Visitors -> Sessions \cup {None}] /\ jar'[v] = c
      /\ page' \in [Visitors -> Tokens] /\ page'[v] = old.form
      /\ \A w \in Visitors \ {v} : jar'[w] = jar[w] /\ page'[w] = page[w]
  <2> HIDE DEF c
  <2> QED BY <1>0, <1>2, <1>3, <1>8 DEF WebTypes
<1>10. WebTypes' /\ CachedPage'
  BY <1>0, <1>2, <1>6, <1>7, <1>9 DEF WebTypes, WebInv, CachedPage, WebConstants
<1>11. ASSUME NEW w \in Visitors, NEW s \in Sessions, Has(w, s)' PROVE Has(w, s) \/ s = Web!Empty
  <2>1. CASE s = Web!Load(jar'[w])
    <3>1. CASE w # v
      BY <1>9, <2>1, <3>1 DEF Has
    <3>2. CASE w = v /\ old.cookie = Keep
      BY <1>9, <2>1, <3>2 DEF Has
    <3>3. CASE w = v /\ old.cookie # Keep
      <4>1. s = Web!Empty \/ s = old.cookie
        BY <1>9, <2>1, <3>3 DEF Web!Load
      <4>2. s = old.cookie => Carried(old, s)
        BY <1>2 DEF Carried
      <4> QED BY <1>2, <3>3, <4>1, <4>2 DEF Has, old
    <3> QED BY <3>1, <3>2, <3>3
  <2>2. ASSUME NEW x \in Requests, request'[x].by = w,
               s = request'[x].sess \/ Carried(request'[x], s)
        PROVE  Has(w, s)
    <3>1. x # r
      BY <1>6, <1>7, <2>2 DEF WebConstants
    <3> QED BY <1>7, <2>2, <3>1 DEF Has
  <2> QED BY <1>11, <2>1, <2>2 DEF Has, Web!Load, Web!Empty
<1>12. Named' /\ Issued' /\ Own' /\ Compared'
  <2>1. ASSUME NEW w \in Visitors, NEW s \in Sessions, Has(w, s)', s.token # None
        PROVE  Has(w, s)
    BY <1>11, <2>1, EmptySession
  <2>2. Named'
    BY <1>0, <1>11, EmptySession DEF Named
  <2>3. Issued'
    BY <1>0, <1>2, <2>1 DEF Issued
  <2>4. Own'
    BY <1>0, <1>2, <2>1 DEF Own
  <2>5. Compared'
    BY <1>0, <1>6, <1>7 DEF Compared
  <2> QED BY <2>2, <2>3, <2>4, <2>5
<1>13. ASSUME NEW w \in Visitors \ excused' PROVE Remembered(w)'
  <2>1. Remembered(w)
    BY <1>0, <1>2
  <2>2. CASE w # v
    <3>1. Web!Open(w)' = Web!Open(w) /\ \A x \in Web!Open(w) : request'[x] = request[x]
      BY <1>2, <1>6, <1>7, <2>2 DEF Web!Open, WebConstants, old
    <3> QED BY <1>2, <1>9, <2>1, <2>2, <3>1
        DEF Remembered, Underway, FormFits, Web!CacheInside, Web!Load, Web!Empty
  <2>3. CASE w = v
    <3>1. r \in Web!Open(v)
      BY <1>2 DEF Web!Open, old
    <3>2. Web!Open(v) = {r} /\ Underway(v, old)
      BY <2>1, <2>3, <3>1 DEF Remembered, old
    <3>3. Web!Open(v)' = {}
      <4>1. ASSUME NEW x \in Web!Open(v)' PROVE FALSE
        <5>1. x \in Requests /\ x # r
          BY <1>6, <1>7, <4>1 DEF Web!Open, WebConstants
        <5>2. x \in Web!Open(v)
          BY <1>7, <4>1, <5>1 DEF Web!Open
        <5> QED BY <3>2, <5>1, <5>2
      <4> QED BY <4>1
    <3>4. ideal[v] = Web!Load(c) /\ FormFits(old.form, ideal[v])
      BY <1>2, <3>2 DEF Underway
    <3>5. (ideal[v] = Web!Load(jar[v]) /\ FormFits(page[v], ideal[v]))'
      <4> HIDE DEF c
      <4> QED BY <1>2, <1>9, <3>4 DEF FormFits, Web!CacheInside, Web!Load, Web!Empty
    <3> QED BY <2>3, <3>3, <3>5 DEF Remembered
  <2> QED BY <2>2, <2>3
<1> QED BY <1>10, <1>12, <1>13 DEF WebInv

LEMMA WebStep ==
  ASSUME WebConstants, WebInv, ~Web!CacheOutside, [Web!Next]_(Web!vars)
  PROVE  WebInv'
<1>0. WebTypes /\ Named /\ CachedPage
  BY DEF WebInv
<1>1. ASSUME NEW r \in Requests, request[r].pc \in {"sent", "handling"}
      PROVE  /\ request[r].by \in Visitors /\ request[r].sess \in Sessions
             /\ request[r].sess.user \in {None, request[r].by} /\ tokens \in Nat
  <2>1. request[r].by \in Visitors /\ request[r].sess \in Sessions /\ tokens \in Nat
    BY <1>0, <1>1 DEF WebTypes, RequestSet
  <2>2. Has(request[r].by, request[r].sess)
    BY <2>1 DEF Has
  <2> QED BY <1>0, <2>1, <2>2 DEF Named
<1>2. ASSUME NEW r \in Requests, Web!ServeCached(r) PROVE WebInv'
  <2> DEFINE q == request[r]
  <2>1. /\ q.pc = "sent" /\ stored # None
        /\ Web!Answer(r, q.sess, FALSE, stored.cookie, stored.form)
        /\ UNCHANGED <<stack, jar, page, stored, tokens, ideal, excused, madeFor>>
    BY <1>2 DEF Web!ServeCached
  <2>2. stored.cookie = Keep /\ stored.form \in Tokens /\ stored.cookie \in Cookies
    BY <1>0, <2>1 DEF CachedPage, Cookies
  <2>3. FormFits(stored.form, q.sess)
    BY <1>2 DEF Web!ServeCached, FormFits
  <2>4. CachedPage' /\ ideal' \in [Visitors -> Sessions] /\ excused' \subseteq Visitors
    BY <1>0, <2>1 DEF CachedPage, WebTypes
  <2>5. /\ q.by \in Visitors /\ q.sess \in Sessions /\ q.sess.user \in {None, q.by}
        /\ FALSE \in BOOLEAN
    BY <1>1, <2>1
  <2>6. PICK v \in Visitors, sess \in Sessions, cookie \in Cookies, form \in Tokens :
          v = q.by /\ sess = q.sess /\ cookie = stored.cookie /\ form = stored.form
    BY <2>2, <2>5
  <2>7. ideal'[v] = ideal[v] /\ \A w \in Visitors \ {v} : ideal'[w] = ideal[w]
    BY <2>1
  <2>8. Web!Answer(r, sess, FALSE, cookie, form) /\ cookie \in {Keep, None, sess}
        /\ (IF cookie = Keep THEN sess = q.sess ELSE Web!Load(cookie) = sess)
        /\ FormFits(form, sess)
    BY <2>1, <2>2, <2>3, <2>6
  <2> QED BY <2>1, <2>4, <2>5, <2>6, <2>7, <2>8, AnswerStep
<1>3. ASSUME NEW r \in Requests, Web!Forbid(r) PROVE WebInv'
  <2>1. CachedPage'
    BY <1>0, <1>3 DEF Web!Forbid, CachedPage
  <2> QED BY <1>3, <2>1, TokenStep DEF Web!Forbid
<1>4. ASSUME NEW r \in Requests, Web!ShowPage(r) PROVE WebInv'
  <2> DEFINE sess == Web!WithToken(request[r].sess)
             cookie == Web!Persist(sess, sess # request[r].sess)
  <2>1. stored' = stored \/ stored' = Web!Recorded(cookie, sess.token)
    BY <1>4 DEF Web!ShowPage
  <2>2. sess.token \in Nat
    BY <1>1, <1>4, NewToken DEF Web!ShowPage
  <2>3. CachedPage'
    BY <1>0, <2>1, <2>2 DEF CachedPage, Web!Recorded, Tokens
  <2> QED BY <1>4, <2>3, TokenStep DEF Web!ShowPage
<1>5. ASSUME NEW r \in Requests, Web!FailPage(r) PROVE WebInv'
  <2>1. CachedPage'
    BY <1>0, <1>5 DEF Web!FailPage, CachedPage
  <2> QED BY <1>5, <2>1, TokenStep DEF Web!FailPage
<1>6. ASSUME NEW r \in Requests, request[r].pc = "handling"
      PROVE  LET sess == [request[r].sess EXCEPT !.user = request[r].by]
             IN  sess \in Sessions /\ sess.user = request[r].by /\ sess.token = request[r].sess.token
  <2> DEFINE old == request[r].sess
             v == request[r].by
  <2>1. old \in Sessions /\ v \in Visitors
    BY <1>1, <1>6
  <2> HIDE DEF old, v
  <2>2. LET sess == [old EXCEPT !.user = v]
        IN  sess \in Sessions /\ sess.user = v /\ sess.token = old.token
    BY <2>1 DEF Sessions
  <2> QED BY <2>2 DEF old, v
<1>7. ASSUME NEW r \in Requests, Web!LogIn(r) PROVE WebInv'
  <2> DEFINE sess == [request[r].sess EXCEPT !.user = request[r].by]
             cookie == Web!Persist(sess, TRUE)
  <2>1. /\ request[r].pc = "handling" /\ Web!Answer(r, sess, TRUE, cookie, None)
        /\ ideal' = [ideal EXCEPT ![request[r].by] = sess]
        /\ UNCHANGED <<stack, jar, page, stored, tokens, excused, madeFor>>
    BY <1>7 DEF Web!LogIn, Web!OnError
  <2>2. sess \in Sessions /\ sess.user = request[r].by /\ sess.token = request[r].sess.token
    BY <1>6, <2>1
  <2> HIDE DEF sess
  <2>3. cookie \in {Keep, None, sess} /\ cookie \in Cookies /\ cookie # Keep /\ Web!Load(cookie) = sess
    BY <2>2, Persisted
  <2> HIDE DEF cookie
  <2> QED BY <2>1, <2>2, <2>3, HandlerStep
<1>8. ASSUME NEW r \in Requests, Web!LogInLost(r) PROVE WebInv'
  <2> DEFINE sess == [request[r].sess EXCEPT !.user = request[r].by]
  <2>1. /\ request[r].pc = "handling" /\ Web!Answer(r, sess, TRUE, Keep, None)
        /\ ideal' = [ideal EXCEPT ![request[r].by] = sess]
        /\ excused' = excused \cup {request[r].by}
        /\ UNCHANGED <<stack, jar, page, stored, tokens, madeFor>>
    BY <1>8 DEF Web!LogInLost, Web!Persist
  <2>2. sess \in Sessions /\ sess.user = request[r].by /\ sess.token = request[r].sess.token
    BY <1>6, <2>1
  <2>3. Keep \in Cookies
    BY DEF Cookies
  <2> HIDE DEF sess
  <2> QED BY <2>1, <2>2, <2>3, HandlerStep
<1>9. ASSUME NEW r \in Requests, Web!LogOut(r) PROVE WebInv'
  <2> DEFINE dirty == request[r].sess # Web!Empty
             cookie == Web!Persist(Web!Empty, dirty)
  <2>1. /\ request[r].pc = "handling" /\ Web!Answer(r, Web!Empty, dirty, cookie, None)
        /\ ideal' = [ideal EXCEPT ![request[r].by] = Web!Empty]
        /\ UNCHANGED <<stack, jar, page, stored, tokens, excused, madeFor>>
    BY <1>9 DEF Web!LogOut
  <2>2. /\ cookie \in {Keep, None, Web!Empty} /\ cookie \in Cookies /\ dirty \in BOOLEAN
        /\ IF cookie = Keep THEN Web!Empty = request[r].sess ELSE Web!Load(cookie) = Web!Empty
    BY EmptySession, Persisted
  <2> HIDE DEF dirty, cookie
  <2> QED BY <2>1, <2>2, EmptySession, HandlerStep
<1>10. CASE Web!Expire \/ UNCHANGED Web!vars
  <2>1. /\ UNCHANGED <<stack, jar, page, request, tokens, ideal, excused, madeFor>>
        /\ stored' \in {None, stored}
    BY <1>10 DEF Web!Expire, Web!vars
  <2>2. CachedPage'
    BY <1>0, <2>1 DEF CachedPage
  <2>3. (Named /\ Issued /\ Own /\ Compared)'
    <3>1. \A w \in Visitors : \A s \in Sessions : Has(w, s)' = Has(w, s)
      BY <2>1 DEF Has, Carried, Web!Load, Web!Empty
    <3> QED BY <2>1, <3>1 DEF WebInv, Named, Issued, Own, Compared
  <2>4. \A w \in Visitors \ excused' : Remembered(w)'
    BY <2>1 DEF WebInv, Remembered, Underway, FormFits, Web!Open, Web!CacheInside, Web!Load, Web!Empty
  <2>5. WebTypes'
    BY <1>0, <2>1 DEF WebTypes
  <2> QED BY <2>2, <2>3, <2>4, <2>5 DEF WebInv
<1> QED
  BY <1>2, <1>3, <1>4, <1>5, <1>7, <1>8, <1>9, <1>10, SendStep, ReachStep, ReceiveStep DEF Web!Next

\* The invariant holds unless httpcache sits outside the session's middleware.
LEMMA WebAlways == ASSUME WebConstants PROVE Web!Spec => [](Web!CacheOutside \/ WebInv)
<1> DEFINE Inv == Web!CacheOutside \/ WebInv
<1>1. Web!Init => Inv
  <2> SUFFICES ASSUME Web!Init PROVE WebInv
    OBVIOUS
  <2>1. \A r \in Requests : request[r] = Web!NoRequest
    BY DEF Web!Init
  <2>2. WebTypes /\ CachedPage
    BY NewRequest, EmptySession DEF Web!Init, WebTypes, CachedPage, WebConstants, Tokens
  <2>3. ASSUME NEW w \in Visitors, NEW s \in Sessions, Has(w, s) PROVE s = Web!Empty
    BY <2>1, <2>3, NewRequest DEF Has, Web!Init, Web!Load, WebConstants
  <2>4. Named /\ Issued /\ Own /\ Compared
    <3>1. Compared
      BY <2>1, NewRequest DEF Compared
    <3>2. madeFor \in Seq(Visitors) /\ Len(madeFor) = tokens
      BY EmptySeq DEF Web!Init
    <3> QED BY <2>3, <3>1, <3>2, EmptySession DEF Named, Issued, Own
  <2>5. ASSUME NEW w \in Visitors PROVE Remembered(w)
    <3>1. Web!Open(w) = {}
      BY <2>1, NewRequest DEF Web!Open, WebConstants
    <3> QED BY <3>1 DEF Remembered, Web!Init, Web!Load, FormFits
  <2> QED BY <2>2, <2>4, <2>5 DEF WebInv
<1>2. Inv /\ [Web!Next]_(Web!vars) => Inv'
  <2> SUFFICES ASSUME Inv, [Web!Next]_(Web!vars) PROVE Inv'
    OBVIOUS
  <2>1. stack' = stack
    BY DEF Web!Next, Web!vars, Web!Send, Web!ServeCached, Web!Forbid, Web!Reach, Web!ShowPage,
       Web!FailPage, Web!LogIn, Web!LogInLost, Web!LogOut, Web!Receive, Web!Expire
  <2>2. Web!CacheOutside' = Web!CacheOutside
    BY <2>1 DEF Web!CacheOutside
  <2> QED BY <2>2, WebStep
<1> HIDE DEF Inv
<1>3. Web!Spec => []Inv
  BY <1>1, <1>2, PTL DEF Web!Spec
<1> QED BY <1>3 DEF Inv

\* Although the session is kept in cookies only, it is what the visitor's own
\* requests made of it, and no visitor gets another one's name or token, as long
\* as httpcache does not sit outside the session's middleware.
THEOREM SessionsAreOnesOwn == ASSUME WebConstants PROVE Web!Spec => []SessionIsOnesOwn
<1>1. (Web!CacheOutside \/ WebInv) => Web!SessionIsOnesOwn
  <2> SUFFICES ASSUME WebInv PROVE Web!SessionRemembered /\ Web!SessionsStayApart
    BY DEF Web!SessionIsOnesOwn
  <2>1. Web!SessionRemembered
    BY DEF WebInv, Remembered, FormFits, Web!SessionRemembered
  <2>2. ASSUME NEW v \in Visitors PROVE Web!Load(jar[v]) \in Sessions /\ Has(v, Web!Load(jar[v]))
    BY Loaded DEF WebInv, WebTypes, Has
  <2>3. Web!SessionsStayApart
    <3> SUFFICES ASSUME NEW v \in Visitors, NEW w \in Visitors, v # w
                 PROVE  /\ Web!Load(jar[v]).user # w
                        /\ Web!Load(jar[v]).token = None \/ Web!Load(jar[v]).token # Web!Load(jar[w]).token
      BY DEF Web!SessionsStayApart
    <3>1. Web!Load(jar[v]).user \in {None, v}
      BY <2>2 DEF WebInv, Named
    <3> QED BY <2>2, <3>1 DEF WebInv, Own, WebConstants
  <2> QED BY <2>1, <2>3
<1> QED BY <1>1, WebAlways, PTL DEF SessionIsOnesOwn

\* A handler of an unsafe method (csrf.go, after router.go's override) runs only
\* for a request that brought a token made for the same visitor: it was compared
\* with the session's, and no session has a token made for another visitor.
THEOREM UnsafeVerified == ASSUME WebConstants PROVE Web!Spec => []UnsafeIsVerified
<1>1. (Web!CacheOutside \/ WebInv) => Web!UnsafeIsVerified
  <2> SUFFICES ASSUME WebInv, NEW r \in Requests, request[r].pc = "handling",
                      request[r].method # "GET"
               PROVE  request[r].submitted # None /\ madeFor[request[r].submitted] = request[r].by
    BY DEF Web!UnsafeIsVerified
  <2>1. request[r].submitted # None /\ request[r].submitted = request[r].sess.token
    BY DEF WebInv, Compared
  <2>2. request[r].by \in Visitors /\ request[r].sess \in Sessions
    BY DEF WebInv, WebTypes, RequestSet
  <2>3. Has(request[r].by, request[r].sess)
    BY DEF Has
  <2> QED BY <2>1, <2>2, <2>3 DEF WebInv, Own
<1> QED BY <1>1, WebAlways, PTL DEF UnsafeIsVerified

-----------------------------------------------------------------------------
(* Routing: a route runs the middleware of its own groups                    *)

Array == [items : Seq(Nat), cap : Nat]
SliceSet == [array : Nat, len : Nat]
GroupSet == [mws : SliceSet, said : Seq(Nat), common : BOOLEAN]
RouteSet == [runs : Seq(Nat), said : Seq(Nat), loose : BOOLEAN]

RouteTypes ==
  /\ made \in Nat
  /\ arrays \in Seq(Array) /\ arrays # <<>>
  /\ router \in [mws : SliceSet, said : Seq(Nat)]
  /\ groups \in Seq(GroupSet)
  /\ routes \in Seq(RouteSet)

\* Who keeps a slice: the router, 0, and the groups.
Owners == 0 .. Len(groups)
Mws(o) == IF o = 0 THEN router.mws ELSE groups[o].mws
Said(o) == IF o = 0 THEN router.said ELSE groups[o].said

\* Groups that go back to the program's own slice; it has room; several do.
FromCommon == {g \in DOMAIN groups : groups[g].common = TRUE}
Roomy == arrays[1].cap > 1
Tangled(o) == Roomy /\ o \in FromCommon /\ FromCommon # {o}

Fits(s) ==
  \/ s.array = 0 /\ s.len = 0
  \/ s.array \in DOMAIN arrays /\ s.len \in 1 .. Len(arrays[s.array].items)

\* Only the program's own array is shared, and only by groups made of it.
Apart == \A o, p \in Owners : o # p /\ Mws(o).array = Mws(p).array => Mws(o).array \in {0, 1}
CommonOnly == \A o \in Owners : Mws(o).array = 1 => o \in FromCommon
Untouched == FromCommon = {} \/ ~Roomy => arrays[1].items = <<1>>
Small == arrays[1].cap <= 2 /\ Len(arrays[1].items) \in {1, 2}

\* What a slice shows is what its owner was given.
Right == \A o \in Owners : Fits(Mws(o)) /\ (~Tangled(o) => Routes!Items(Mws(o)) = Said(o))

SliceInv == Apart /\ CommonOnly /\ Untouched /\ Small /\ Right

RouteInv == RouteTypes /\ SliceInv /\ Routes!RouteRunsItsOwn

LEMMA PrefixProperties ==
  ASSUME NEW q \in Seq(Nat), NEW n \in 0 .. Len(q)
  PROVE  SubSeq(q, 1, n) \in Seq(Nat) /\ Len(SubSeq(q, 1, n)) = n
<1>1. \A i \in 1 .. n : q[i] \in Nat
  BY LenProperties, ElementOfSeq
<1>2. n \in Int /\ n >= 0
  BY LenProperties
<1>3. /\ SubSeq(q, 1, n) \in Seq(Nat)
      /\ Len(SubSeq(q, 1, n)) = IF 1 <= n THEN n - 1 + 1 ELSE 0
  BY <1>1, <1>2, SubSeqProperties
<1> QED BY <1>2, <1>3

LEMMA ArrayAt ==
  ASSUME RouteTypes, NEW k \in DOMAIN arrays
  PROVE  k \in Nat \ {0} /\ arrays[k].items \in Seq(Nat) /\ arrays[k].cap \in Nat
<1>1. Len(arrays) \in Nat /\ DOMAIN arrays = 1 .. Len(arrays)
  BY LenProperties DEF RouteTypes
<1>2. arrays[k] \in Array
  BY <1>1, ElementOfSeq DEF RouteTypes
<1> QED BY <1>1, <1>2 DEF Array

\* What a slice shows.
LEMMA ItemsProperties ==
  ASSUME RouteTypes, NEW s \in SliceSet, Fits(s)
  PROVE  Routes!Items(s) \in Seq(Nat) /\ Len(Routes!Items(s)) = s.len /\ s.len \in Nat
<1>1. CASE s.array = 0
  <2>1. Routes!Items(s) = <<>>
    BY <1>1 DEF Routes!Items
  <2>2. s.len = 0
    <3>1. DOMAIN arrays = 1 .. Len(arrays)
      BY LenProperties DEF RouteTypes
    <3>2. 0 \notin DOMAIN arrays
      BY <3>1
    <3> QED BY <1>1, <3>2 DEF Fits
  <2> QED BY <2>1, <2>2, EmptySeq
<1>2. CASE s.array # 0
  <2>1. s.array \in DOMAIN arrays /\ s.len \in 1 .. Len(arrays[s.array].items)
    BY <1>2 DEF Fits
  <2>2. arrays[s.array].items \in Seq(Nat)
    BY <2>1, ArrayAt
  <2>3. Routes!Items(s) = SubSeq(arrays[s.array].items, 1, s.len)
    BY <1>2 DEF Routes!Items
  <2>4. s.len \in 0 .. Len(arrays[s.array].items)
    BY <2>1
  <2> QED BY <2>2, <2>3, <2>4, PrefixProperties DEF SliceSet
<1> QED BY <1>1, <1>2

\* The arrays that were there are as they were.
Kept ==
  \A k \in DOMAIN arrays : k \in DOMAIN arrays' /\ arrays'[k] = arrays[k]

LEMMA KeptItems ==
  ASSUME RouteTypes, Kept, NEW s \in SliceSet, Fits(s)
  PROVE  Fits(s)' /\ Routes!Items(s)' = Routes!Items(s)
<1>1. CASE s.array = 0
  BY <1>1, LenProperties DEF Fits, Routes!Items, RouteTypes
<1>2. CASE s.array # 0
  <2>1. s.array \in DOMAIN arrays /\ s.len \in 1 .. Len(arrays[s.array].items)
    BY <1>2 DEF Fits
  <2>2. s.array \in DOMAIN arrays' /\ arrays'[s.array] = arrays[s.array]
    BY <2>1 DEF Kept
  <2> QED BY <1>2, <2>1, <2>2 DEF Fits, Routes!Items
<1> QED BY <1>1, <1>2

\* append to a slice without room, and a copy: the new array, and what the slice
\* made of it shows.
LEMMA CopyEffect ==
  ASSUME RouteTypes, NEW q \in Seq(Nat), q # <<>>, arrays' \in Routes!NewArray(q),
         NEW s \in SliceSet, s.array = Len(arrays'), s.len = Len(q)
  PROVE  /\ Kept /\ arrays' \in Seq(Array) /\ arrays' # <<>>
         /\ Len(arrays') = Len(arrays) + 1 /\ Len(arrays') \in DOMAIN arrays'
         /\ Fits(s)' /\ Routes!Items(s)' = q
<1>1. PICK c \in Len(q) .. Len(q) + 1 : arrays' = Append(arrays, [items |-> q, cap |-> c])
  BY DEF Routes!NewArray
<1>2. Len(q) \in Nat /\ Len(q) >= 1
  BY EmptySeq
<1>3. [items |-> q, cap |-> c] \in Array /\ arrays \in Seq(Array) /\ Len(arrays) \in Nat
  BY <1>1, <1>2, LenProperties DEF Array, RouteTypes
<1>4. /\ arrays' \in Seq(Array) /\ Len(arrays') = Len(arrays) + 1
      /\ \A i \in 1 .. Len(arrays) : arrays'[i] = arrays[i]
      /\ arrays'[Len(arrays) + 1] = [items |-> q, cap |-> c]
  BY <1>1, <1>3, AppendProperties
<1>5. DOMAIN arrays = 1 .. Len(arrays) /\ DOMAIN arrays' = 1 .. Len(arrays) + 1
  BY <1>3, <1>4, LenProperties
<1>6. Kept
  BY <1>3, <1>4, <1>5 DEF Kept
<1> DEFINE n == Len(arrays')
<1>7. n \in DOMAIN arrays' /\ n # 0 /\ arrays'[n].items = q /\ n \in Nat
  BY <1>3, <1>4, <1>5
<1>9. arrays' # <<>>
  BY <1>3, <1>4, EmptySeq
<1>10. Fits(s)'
  BY <1>2, <1>7 DEF Fits
<1>11. Routes!Items(s)' = SubSeq(q, 1, Len(q))
  BY <1>7 DEF Routes!Items
<1>12. Routes!Items(s)' = q
  BY <1>11, SubSeqFull
<1> QED BY <1>4, <1>6, <1>7, <1>9, <1>10, <1>12

\* append to a slice with room writes into the array behind what the slice shows.
LEMMA InPlaceEffect ==
  ASSUME RouteTypes, NEW s \in SliceSet, Fits(s), Routes!Room(s), NEW x \in Nat,
         arrays' = [arrays EXCEPT ![s.array].items = Append(SubSeq(@, 1, s.len), x)],
         NEW t \in SliceSet, t.array = s.array, t.len = s.len + 1
  PROVE  /\ arrays' \in Seq(Array) /\ arrays' # <<>> /\ DOMAIN arrays' = DOMAIN arrays
         /\ \A k \in DOMAIN arrays : arrays'[k].cap = arrays[k].cap
         /\ \A k \in DOMAIN arrays : k # s.array => arrays'[k] = arrays[k]
         /\ Fits(t)' /\ Routes!Items(t)' = Append(Routes!Items(s), x)
         /\ Len(arrays'[s.array].items) = s.len + 1
<1> DEFINE k == s.array
           q == Append(SubSeq(arrays[k].items, 1, s.len), x)
           r == [arrays[k] EXCEPT !.items = q]
<1>1. k # 0 /\ k \in DOMAIN arrays /\ s.len \in 1 .. Len(arrays[k].items)
  BY DEF Routes!Room, Fits
<1>2. arrays[k].items \in Seq(Nat) /\ arrays[k].cap \in Nat /\ k \in Nat \ {0} /\ s.len \in Nat
  BY <1>1, ArrayAt DEF SliceSet
<1>3. SubSeq(arrays[k].items, 1, s.len) \in Seq(Nat) /\ Len(SubSeq(arrays[k].items, 1, s.len)) = s.len
  <2>1. s.len \in 0 .. Len(arrays[k].items)
    BY <1>1
  <2> QED BY <2>1, <1>2, PrefixProperties
<1>4. q \in Seq(Nat) /\ Len(q) = s.len + 1
  BY <1>3, AppendProperties
<1>5. arrays \in Seq(Array) /\ Len(arrays) \in Nat /\ DOMAIN arrays = 1 .. Len(arrays)
  BY LenProperties DEF RouteTypes
<1>6. arrays[k] \in Array /\ r \in Array /\ r.items = q /\ r.cap = arrays[k].cap
  <2>1. arrays[k] \in Array
    BY <1>1, <1>5, ElementOfSeq
  <2> HIDE DEF q
  <2> QED BY <2>1, <1>4 DEF Array
<1>7. arrays' = [arrays EXCEPT ![k] = r]
  BY <1>1
<1> HIDE DEF r, q
<1>8. /\ arrays' \in Seq(Array) /\ Len(arrays') = Len(arrays)
      /\ \A j \in 1 .. Len(arrays) : arrays'[j] = IF j = k THEN r ELSE arrays[j]
  <2>1. k \in 1 .. Len(arrays)
    BY <1>1, <1>5
  <2> HIDE DEF k
  <2>2. /\ [arrays EXCEPT ![k] = r] \in Seq(Array)
        /\ Len([arrays EXCEPT ![k] = r]) = Len(arrays)
        /\ \A j \in 1 .. Len(arrays) : [arrays EXCEPT ![k] = r][j] = IF j = k THEN r ELSE arrays[j]
    BY <2>1, <1>5, <1>6, ExceptSeq
  <2> QED BY <2>2, <1>7
<1>9. DOMAIN arrays' = DOMAIN arrays /\ arrays'[k] = r
  BY <1>1, <1>5, <1>8, LenProperties
<1>10. arrays' # <<>>
  BY <1>8, EmptySeq DEF RouteTypes
<1>11. Fits(t)'
  <2>1. t.array \in DOMAIN arrays' /\ arrays'[t.array].items = q
    BY <1>1, <1>6, <1>9
  <2>2. t.len \in 1 .. Len(q)
    BY <1>2, <1>4
  <2> QED BY <2>1, <2>2 DEF Fits
<1>12. Routes!Items(t)' = SubSeq(q, 1, Len(q))
  BY <1>1, <1>4, <1>6, <1>9 DEF Routes!Items
<1>13. Routes!Items(s) = SubSeq(arrays[k].items, 1, s.len)
  BY <1>1 DEF Routes!Items
<1>14. Routes!Items(t)' = Append(Routes!Items(s), x)
  BY <1>12, <1>13, <1>4, SubSeqFull DEF q
<1> QED BY <1>4, <1>5, <1>6, <1>8, <1>9, <1>10, <1>11, <1>14

LEMMA OwnerTypes ==
  ASSUME RouteTypes
  PROVE  /\ Len(groups) \in Nat /\ DOMAIN groups = 1 .. Len(groups)
         /\ \A o \in Owners : Mws(o) \in SliceSet /\ Said(o) \in Seq(Nat)
         /\ 1 \in DOMAIN arrays
<1>1. Len(groups) \in Nat /\ DOMAIN groups = 1 .. Len(groups)
  BY LenProperties DEF RouteTypes
<1>2. ASSUME NEW o \in Owners PROVE Mws(o) \in SliceSet /\ Said(o) \in Seq(Nat)
  <2>1. CASE o = 0
    BY <2>1 DEF Mws, Said, RouteTypes
  <2>2. CASE o # 0
    <3>1. o \in 1 .. Len(groups)
      BY <2>2, <1>1 DEF Owners
    <3>2. groups[o] \in GroupSet
      BY <3>1, ElementOfSeq DEF RouteTypes
    <3> QED BY <2>2, <3>2 DEF Mws, Said, GroupSet
  <2> QED BY <2>1, <2>2
<1>3. 1 \in DOMAIN arrays
  <2>1. Len(arrays) \in Nat \ {0} /\ DOMAIN arrays = 1 .. Len(arrays)
    BY EmptySeq, LenProperties DEF RouteTypes
  <2> QED BY <2>1
<1> QED BY <1>1, <1>2, <1>3

\* Use: the owner o appends x to its own slice, in place or not.
LEMMA UseStep ==
  ASSUME RouteTypes, SliceInv, NEW o \in Owners, NEW x \in Nat,
         NEW a \in Routes!Appended(Mws(o), x), arrays' = a.arrays,
         Owners' = Owners, FromCommon' = FromCommon,
         \A p \in Owners : p # o => Mws(p)' = Mws(p) /\ Said(p)' = Said(p),
         Mws(o)' = a.slice, Said(o)' = Append(Said(o), x)
  PROVE  SliceInv' /\ arrays' \in Seq(Array) /\ arrays' # <<>> /\ a.slice \in SliceSet
<1> DEFINE s == Mws(o)
           t == a.slice
<1>1. /\ \A p \in Owners : Mws(p) \in SliceSet /\ Said(p) \in Seq(Nat) /\ Fits(Mws(p))
      /\ 1 \in DOMAIN arrays
  BY OwnerTypes DEF SliceInv, Right
<1>2. Routes!Items(s) \in Seq(Nat) /\ Len(Routes!Items(s)) = s.len /\ s.len \in Nat
  BY <1>1, ItemsProperties
<1>3. CASE ~Routes!Room(s)
  <2> DEFINE q == Append(Routes!Items(s), x)
  <2>1. q \in Seq(Nat) /\ q # <<>> /\ Len(q) = s.len + 1
    <3> DEFINE y == Routes!Items(s)
    <3>1. y \in Seq(Nat) /\ Len(y) = s.len
      BY <1>2
    <3> HIDE DEF y
    <3>2. Append(y, x) \in Seq(Nat) /\ Append(y, x) # <<>> /\ Len(Append(y, x)) = Len(y) + 1
      BY <3>1, AppendProperties
    <3> QED BY <3>1, <3>2 DEF y
  <2>2. PICK b \in Routes!NewArray(q) : a = [arrays |-> b, slice |-> Routes!Slice(Len(b), s.len + 1)]
    BY <1>3 DEF Routes!Appended
  <2>3. arrays' = b /\ t = Routes!Slice(Len(arrays'), s.len + 1)
    BY <2>2
  <2>4. t.array = Len(arrays') /\ t.len = s.len + 1
    BY <2>3 DEF Routes!Slice
  <2>5. arrays' \in Seq(Array)
    <3>1. PICK c \in Len(q) .. Len(q) + 1 : arrays' = Append(arrays, [items |-> q, cap |-> c])
      BY <2>2, <2>3 DEF Routes!NewArray
    <3>2. [items |-> q, cap |-> c] \in Array
      BY <3>1, <2>1, <1>2 DEF Array
    <3> HIDE DEF q
    <3> QED BY <3>1, <3>2, AppendProperties DEF RouteTypes
  <2>6. t \in SliceSet
    <3>1. Len(arrays') \in Nat
      BY <2>5, LenProperties
    <3> QED BY <3>1, <2>3, <1>2 DEF Routes!Slice, SliceSet
  <2> HIDE DEF q, t
  <2>7. /\ Kept /\ arrays' # <<>> /\ Len(arrays') = Len(arrays) + 1
        /\ Fits(t)' /\ Routes!Items(t)' = q
    BY <2>1, <2>2, <2>3, <2>4, <2>6, CopyEffect
  <2>8. Len(arrays) \in Nat /\ DOMAIN arrays = 1 .. Len(arrays) /\ t.array = Len(arrays) + 1
    BY <2>4, <2>7, LenProperties DEF RouteTypes
  <2>9. t.array \notin DOMAIN arrays /\ t.array # 0 /\ t.array # 1
    BY <2>8, <1>1
  <2>10. \A p \in Owners : Mws(p).array # t.array
    BY <1>1, <2>8, <2>9 DEF Fits
  <2>11. Mws(o)' = t
    BY DEF t
  <2>12. Apart'
    <3> SUFFICES ASSUME NEW p \in Owners, NEW r \in Owners, p # r, Mws(p)'.array = Mws(r)'.array
                 PROVE  Mws(p)'.array \in {0, 1}
      BY DEF Apart
    <3>1. p # o /\ r # o
      BY <2>10, <2>11
    <3> QED BY <3>1 DEF SliceInv, Apart
  <2>13. CommonOnly'
    BY <2>9, <2>11 DEF SliceInv, CommonOnly
  <2>14. Roomy' = Roomy /\ arrays'[1] = arrays[1]
    BY <2>7, <1>1 DEF Kept, Roomy
  <2>15. Untouched' /\ Small'
    BY <2>14 DEF SliceInv, Untouched, Small
  <2>16. Right'
    <3> SUFFICES ASSUME NEW p \in Owners
                 PROVE  (Fits(Mws(p)) /\ (~Tangled(p) => Routes!Items(Mws(p)) = Said(p)))'
      BY DEF Right
    <3>1. Tangled(p)' = Tangled(p)
      BY <2>14 DEF Tangled
    <3>2. CASE p = o
      <4>1. ~Tangled(p) => Routes!Items(s) = Said(o)
        BY <3>2 DEF SliceInv, Right
      <4>2. Fits(Mws(p))' /\ Routes!Items(Mws(p))' = q
        BY <3>2, <2>7, <2>11 DEF Fits, Routes!Items
      <4> QED BY <3>1, <3>2, <4>1, <4>2 DEF q
    <3>3. CASE p # o
      <4>1. Mws(p)' = Mws(p) /\ Said(p)' = Said(p)
        BY <3>3
      <4>2. PICK m \in SliceSet : m = Mws(p)
        BY <1>1
      <4>3. Fits(m)' /\ Routes!Items(m)' = Routes!Items(m)
        BY <4>2, <1>1, <2>7, KeptItems
      <4>4. Fits(Mws(p))' /\ Routes!Items(Mws(p))' = Routes!Items(Mws(p))
        BY <4>1, <4>2, <4>3 DEF Fits, Routes!Items
      <4>5. ~Tangled(p) => Routes!Items(Mws(p)) = Said(p)
        BY DEF SliceInv, Right
      <4> QED BY <3>1, <4>1, <4>4, <4>5
    <3> QED BY <3>2, <3>3
  <2> QED BY <2>5, <2>6, <2>7, <2>12, <2>13, <2>15, <2>16 DEF SliceInv, t
<1>4. CASE Routes!Room(s)
  <2>1. a = [arrays |-> [arrays EXCEPT ![s.array].items = Append(SubSeq(@, 1, s.len), x)],
             slice |-> Routes!Slice(s.array, s.len + 1)]
    BY <1>4 DEF Routes!Appended
  <2>2. /\ arrays' = [arrays EXCEPT ![s.array].items = Append(SubSeq(@, 1, s.len), x)]
        /\ t.array = s.array /\ t.len = s.len + 1 /\ t \in SliceSet
    BY <2>1, <1>1, <1>2 DEF Routes!Slice, SliceSet
  <2>3. PICK m \in SliceSet : m = s
    BY <1>1
  <2> HIDE DEF t
  <2>4. /\ arrays' \in Seq(Array) /\ arrays' # <<>> /\ DOMAIN arrays' = DOMAIN arrays
        /\ \A k \in DOMAIN arrays : arrays'[k].cap = arrays[k].cap
        /\ \A k \in DOMAIN arrays : k # m.array => arrays'[k] = arrays[k]
        /\ Fits(t)' /\ Routes!Items(t)' = Append(Routes!Items(m), x)
        /\ Len(arrays'[m.array].items) = m.len + 1
    BY <2>2, <2>3, <1>1, <1>4, InPlaceEffect
  <2>5. Mws(o)' = t /\ \A p \in Owners : Mws(p)'.array = Mws(p).array
    BY <2>2 DEF t
  <2>6. Roomy' = Roomy
    BY <2>4, <1>1 DEF Roomy
  <2>7. s.array = 1 => o \in FromCommon /\ Roomy
    <3>1. ASSUME s.array = 1 PROVE Roomy
      <4>1. s.len >= 1 /\ s.len < arrays[1].cap /\ arrays[1].cap \in Nat
        BY <3>1, <1>1, <1>4, ArrayAt DEF Routes!Room, Fits
      <4> QED BY <4>1, <1>2 DEF Roomy
    <3> QED BY <3>1 DEF SliceInv, CommonOnly
  <2>8. Apart' /\ CommonOnly'
    BY <2>5 DEF SliceInv, Apart, CommonOnly
  <2>9. Untouched'
    <3> SUFFICES ASSUME FromCommon = {} \/ ~Roomy PROVE arrays'[1].items = <<1>>
      BY <2>6 DEF Untouched
    <3>1. s.array # 1
      BY <2>7
    <3>2. arrays'[1] = arrays[1]
      BY <3>1, <2>3, <2>4, <1>1
    <3> QED BY <3>2 DEF SliceInv, Untouched
  <2>10. s.array = 1 => Len(arrays'[1].items) = 2
    <3> SUFFICES ASSUME s.array = 1 PROVE Len(arrays'[1].items) = 2
      OBVIOUS
    <3>1. s.len >= 1 /\ s.len < arrays[1].cap /\ arrays[1].cap \in Nat /\ arrays[1].cap <= 2
      BY <1>1, <1>4, ArrayAt DEF Routes!Room, Fits, SliceInv, Small
    <3>2. s.len = 1
      BY <3>1, <1>2
    <3>3. Len(arrays'[m.array].items) = m.len + 1
      BY <2>4
    <3>4. m.array = 1 /\ m.len = 1
      BY <3>2, <2>3
    <3> QED BY <3>3, <3>4
  <2>11. Small'
    <3>1. arrays'[1].cap <= 2
      BY <2>4, <1>1 DEF SliceInv, Small
    <3>2. s.array # 1 => arrays'[1] = arrays[1]
      BY <2>3, <2>4, <1>1
    <3>3. Len(arrays'[1].items) \in {1, 2}
      <4>1. CASE s.array = 1
        <5>1. Len(arrays'[1].items) = 2
          BY <4>1, <2>10
        <5> QED BY <5>1
      <4>2. CASE s.array # 1
        BY <4>2, <3>2 DEF SliceInv, Small
      <4> QED BY <4>1, <4>2
    <3> QED BY <3>1, <3>3 DEF Small
  <2>12. Right'
    <3> SUFFICES ASSUME NEW p \in Owners
                 PROVE  (Fits(Mws(p)) /\ (~Tangled(p) => Routes!Items(Mws(p)) = Said(p)))'
      BY DEF Right
    <3>1. Tangled(p)' = Tangled(p)
      BY <2>6 DEF Tangled
    <3>2. CASE p = o
      <4>1. ~Tangled(p) => Routes!Items(s) = Said(o)
        BY <3>2 DEF SliceInv, Right
      <4>2. Fits(Mws(p))' /\ Routes!Items(Mws(p))' = Append(Routes!Items(s), x)
        BY <3>2, <2>3, <2>4, <2>5 DEF Fits, Routes!Items
      <4> QED BY <3>1, <3>2, <4>1, <4>2
    <3>3. CASE p # o
      <4>1. Mws(p)' = Mws(p) /\ Said(p)' = Said(p) /\ Fits(Mws(p))
        BY <3>3, <1>1
      <4>2. ~Tangled(p) => Routes!Items(Mws(p)) = Said(p)
        BY DEF SliceInv, Right
      <4>3. CASE Mws(p).array # s.array
        <5>1. Mws(p).array \in DOMAIN arrays => arrays'[Mws(p).array] = arrays[Mws(p).array]
          BY <4>3, <2>3, <2>4
        <5>2. Fits(Mws(p))' /\ Routes!Items(Mws(p))' = Routes!Items(Mws(p))
          BY <5>1, <4>1, <2>4 DEF Fits, Routes!Items
        <5> QED BY <5>2, <4>1, <4>2, <3>1
      <4>4. CASE Mws(p).array = s.array
        <5>1. s.array = 1
          <6>1. s.array \in {0, 1}
            BY <4>4, <3>3 DEF SliceInv, Apart
          <6> QED BY <6>1, <1>4 DEF Routes!Room
        <5>2. p \in FromCommon /\ o \in FromCommon /\ Roomy
          BY <5>1, <4>4, <2>7 DEF SliceInv, CommonOnly
        <5>3. Tangled(p)
          BY <5>2, <3>3 DEF Tangled
        <5>4. Fits(Mws(p))'
          <6>1. Mws(p).array = 1 /\ Mws(p).len \in 1 .. Len(arrays[1].items)
            BY <5>1, <4>1, <4>4 DEF Fits
          <6>2. Len(arrays[1].items) \in Nat /\ Len(arrays[1].items) <= 2
            <7> DEFINE l == Len(arrays[1].items)
            <7>1. l \in {1, 2}
              BY DEF SliceInv, Small
            <7> HIDE DEF l
            <7>2. l \in Nat /\ l <= 2
              BY <7>1
            <7> QED BY <7>2 DEF l
          <6>3. Mws(p).len \in 1 .. Len(arrays'[1].items)
            <7>1. Len(arrays'[1].items) = 2
              BY <5>1, <2>10
            <7>2. Mws(p).len \in 1 .. 2
              BY <6>1, <6>2
            <7> QED BY <7>1, <7>2
          <6>4. 1 \in DOMAIN arrays'
            BY <1>1, <2>4
          <6> QED BY <6>1, <6>3, <6>4, <4>1 DEF Fits
        <5> QED BY <5>3, <5>4, <3>1
      <4> QED BY <4>3, <4>4
    <3> QED BY <3>2, <3>3
  <2> QED BY <2>2, <2>4, <2>8, <2>9, <2>12, <2>11 DEF SliceInv, t
<1> QED BY <1>3, <1>4

LEMMA GrowCommon ==
  ASSUME RouteTypes, NEW g \in GroupSet, groups' = Append(groups, g),
         NEW n \in Nat, n = Len(groups) + 1
  PROVE  /\ FromCommon' = IF g.common = TRUE THEN FromCommon \cup {n} ELSE FromCommon
         /\ n \notin FromCommon
         /\ groups' \in Seq(GroupSet) /\ Len(groups') = n
         /\ \A i \in 1 .. Len(groups) : groups'[i] = groups[i]
         /\ groups'[n] = g
<1>1. Len(groups) \in Nat /\ DOMAIN groups = 1 .. Len(groups)
  BY OwnerTypes
<1>2. /\ groups' \in Seq(GroupSet) /\ Len(groups') = n
      /\ \A i \in 1 .. Len(groups) : groups'[i] = groups[i]
      /\ groups'[n] = g
  <2>1. groups \in Seq(GroupSet)
    BY DEF RouteTypes
  <2> QED BY <2>1, AppendProperties
<1>3. DOMAIN groups' = 1 .. n
  BY <1>1, <1>2, LenProperties
<1>4. FromCommon' = IF g.common = TRUE THEN FromCommon \cup {n} ELSE FromCommon
  <2>1. \A i \in 1 .. Len(groups) : i \in 1 .. n /\ i # n
    BY <1>1
  <2>2. 1 .. n = (1 .. Len(groups)) \cup {n}
    BY <1>1
  <2>3. \A i \in 1 .. Len(groups) : groups'[i].common = groups[i].common
    BY <1>2
  <2>4. groups'[n].common = g.common
    BY <1>2
  <2> QED BY <2>1, <2>2, <2>3, <2>4, <1>1, <1>3 DEF FromCommon
<1>5. n \notin FromCommon
  BY <1>1 DEF FromCommon
<1> QED BY <1>2, <1>4, <1>5

\* A new group, whose slice is nobody's, its own or the program's.
LEMMA GrowStep ==
  ASSUME RouteTypes, SliceInv, Kept, router' = router,
         NEW m \in SliceSet, NEW w \in Seq(Nat), NEW c \in BOOLEAN,
         groups' = Append(groups, Routes!Group(m, w, c)),
         m.array \in {0, Len(arrays) + 1} \/ (m.array = 1 /\ c = TRUE),
         Fits(m)',
         NEW n \in Nat, n = Len(groups) + 1, ~Tangled(n)' => Routes!Items(m)' = w
  PROVE  SliceInv' /\ groups' \in Seq(GroupSet)
<1>1. /\ \A p \in Owners : Mws(p) \in SliceSet /\ Said(p) \in Seq(Nat) /\ Fits(Mws(p))
      /\ 1 \in DOMAIN arrays /\ Len(groups) \in Nat /\ DOMAIN groups = 1 .. Len(groups)
  BY OwnerTypes DEF SliceInv, Right
<1>2. /\ FromCommon' = IF c = TRUE THEN FromCommon \cup {n} ELSE FromCommon
      /\ groups' \in Seq(GroupSet) /\ Len(groups') = n
      /\ \A i \in 1 .. Len(groups) : groups'[i] = groups[i]
      /\ groups'[n].mws = m /\ groups'[n].said = w
  <2> DEFINE g == Routes!Group(m, w, c)
  <2>1. g \in GroupSet /\ g.mws = m /\ g.said = w /\ g.common = c /\ groups' = Append(groups, g)
    BY DEF Routes!Group, GroupSet
  <2> HIDE DEF g
  <2>2. /\ FromCommon' = IF g.common = TRUE THEN FromCommon \cup {n} ELSE FromCommon
        /\ groups' \in Seq(GroupSet) /\ Len(groups') = n
        /\ \A i \in 1 .. Len(groups) : groups'[i] = groups[i]
        /\ groups'[n] = g
    BY <2>1, GrowCommon
  <2> QED BY <2>1, <2>2
<1>3. n # 0
  BY <1>1
<1>5. Owners' = Owners \cup {n} /\ n \notin Owners
  BY <1>1, <1>2 DEF Owners
<1>6. \A p \in Owners : Mws(p)' = Mws(p) /\ Said(p)' = Said(p)
  <2> SUFFICES ASSUME NEW p \in Owners PROVE Mws(p)' = Mws(p) /\ Said(p)' = Said(p)
    OBVIOUS
  <2>1. p = 0 \/ p \in 1 .. Len(groups)
    BY <1>1 DEF Owners
  <2> QED BY <2>1, <1>2 DEF Mws, Said
<1>7. Mws(n)' = m /\ Said(n)' = w
  BY <1>2, <1>3 DEF Mws, Said
<1>8. FromCommon' = IF c = TRUE THEN FromCommon \cup {n} ELSE FromCommon
  BY <1>2
<1>9. arrays'[1] = arrays[1] /\ Roomy' = Roomy
  BY <1>1 DEF Kept, Roomy
<1>10. \A p \in Owners : Tangled(p) => Tangled(p)'
  BY <1>8, <1>9, <1>5 DEF Tangled
<1>11. Len(arrays) \in Nat /\ DOMAIN arrays = 1 .. Len(arrays)
  BY LenProperties DEF RouteTypes
<1>12. \A p \in Owners : Mws(p).array # Len(arrays) + 1
  BY <1>1, <1>11 DEF Fits
<1>13. Apart'
  <2> SUFFICES ASSUME NEW p \in Owners', NEW r \in Owners', p # r, Mws(p)'.array = Mws(r)'.array
               PROVE  Mws(p)'.array \in {0, 1}
    BY DEF Apart
  <2>1. CASE p \in Owners /\ r \in Owners
    BY <2>1, <1>6 DEF SliceInv, Apart
  <2>2. CASE p = n \/ r = n
    <3>1. PICK x \in Owners : m.array = Mws(x).array /\ Mws(p)'.array = m.array
      BY <2>2, <1>5, <1>6, <1>7
    <3> QED BY <3>1, <1>12
  <2> QED BY <2>1, <2>2, <1>5
<1>14. CommonOnly'
  <2> SUFFICES ASSUME NEW p \in Owners', Mws(p)'.array = 1 PROVE p \in FromCommon'
    BY DEF CommonOnly
  <2>1. CASE p \in Owners
    <3>1. p \in FromCommon
      BY <2>1, <1>6 DEF SliceInv, CommonOnly
    <3> QED BY <3>1, <1>8
  <2>2. CASE p = n
    <3>1. m.array = 1 /\ Len(arrays) + 1 # 1
      BY <2>2, <1>7, <1>11, <1>1
    <3>2. c = TRUE
      BY <3>1
    <3> QED BY <3>2, <2>2, <1>8
  <2> QED BY <2>1, <2>2, <1>5
<1>15. Untouched' /\ Small'
  BY <1>8, <1>9 DEF SliceInv, Untouched, Small
<1>16. Right'
  <2> SUFFICES ASSUME NEW p \in Owners'
               PROVE  (Fits(Mws(p)) /\ (~Tangled(p) => Routes!Items(Mws(p)) = Said(p)))'
    BY DEF Right
  <2>1. CASE p \in Owners
    <3>1. Mws(p)' = Mws(p) /\ Said(p)' = Said(p)
      BY <2>1, <1>6
    <3>2. PICK s \in SliceSet : s = Mws(p)
      BY <2>1, <1>1
    <3>3. Fits(s)' /\ Routes!Items(s)' = Routes!Items(s)
      BY <2>1, <3>2, <1>1, KeptItems
    <3>4. Fits(Mws(p))' /\ Routes!Items(Mws(p))' = Routes!Items(Mws(p))
      BY <3>1, <3>2, <3>3 DEF Fits, Routes!Items
    <3>5. ~Tangled(p) => Routes!Items(Mws(p)) = Said(p)
      BY <2>1 DEF SliceInv, Right
    <3> QED BY <2>1, <3>1, <3>4, <3>5, <1>10
  <2>2. CASE p = n
    <3>1. ~Tangled(p)' => Routes!Items(m)' = w
      BY <2>2
    <3>2. Mws(p)' = m /\ Said(p)' = w
      BY <2>2, <1>7
    <3>3. Fits(Mws(p))' /\ Routes!Items(Mws(p))' = Routes!Items(m)'
      BY <3>2 DEF Fits, Routes!Items
    <3> QED BY <3>1, <3>2, <3>3
  <2> QED BY <2>1, <2>2, <1>5
<1> QED BY <1>2, <1>13, <1>14, <1>15, <1>16 DEF SliceInv

LEMMA EntangledIsTangled ==
  ASSUME RouteTypes, NEW g \in DOMAIN groups
  PROVE  Routes!Entangled(g) <=> Tangled(g)
<1>1. \A h \in DOMAIN groups : groups[h].common \in BOOLEAN
  <2> SUFFICES ASSUME NEW h \in DOMAIN groups PROVE groups[h].common \in BOOLEAN
    OBVIOUS
  <2>1. groups[h] \in GroupSet
    BY OwnerTypes, ElementOfSeq DEF RouteTypes
  <2> QED BY <2>1 DEF GroupSet
<1>2. \A h \in DOMAIN groups : groups[h].common <=> h \in FromCommon
  BY <1>1 DEF FromCommon
<1>3. FromCommon \subseteq DOMAIN groups
  BY DEF FromCommon
<1> QED BY <1>2, <1>3 DEF Routes!Entangled, Tangled, Roomy

LEMMA RouterUseStep ==
  ASSUME RouteTypes, SliceInv, Routes!RouterUse
  PROVE  RouteTypes' /\ SliceInv'
<1>1. made + 1 \in Nat /\ made' = made + 1 /\ groups' = groups /\ routes' = routes
  BY DEF Routes!RouterUse, Routes!Make, Routes!Fresh, RouteTypes
<1>2. PICK a \in Routes!Appended(router.mws, made + 1) :
        /\ arrays' = a.arrays
        /\ router' = [mws |-> a.slice, said |-> Append(router.said, made + 1)]
  BY DEF Routes!RouterUse, Routes!Fresh
<1>3. 0 \in Owners /\ Mws(0) = router.mws /\ Said(0) = router.said /\ Said(0) \in Seq(Nat)
  BY OwnerTypes DEF Owners, Mws, Said, RouteTypes
<1>4. Owners' = Owners /\ FromCommon' = FromCommon
  BY <1>1 DEF Owners, FromCommon
<1>5. \A p \in Owners : p # 0 => Mws(p)' = Mws(p) /\ Said(p)' = Said(p)
  BY <1>1 DEF Mws, Said
<1>6. Mws(0)' = a.slice /\ Said(0)' = Append(Said(0), made + 1)
  BY <1>2, <1>3 DEF Mws, Said
<1>7. a \in Routes!Appended(Mws(0), made + 1)
  BY <1>2, <1>3
<1>8. SliceInv' /\ arrays' \in Seq(Array) /\ arrays' # <<>> /\ a.slice \in SliceSet
  BY <1>1, <1>2, <1>3, <1>4, <1>5, <1>6, <1>7, UseStep
<1>9. Append(router.said, made + 1) \in Seq(Nat)
  BY <1>1, <1>3, AppendProperties
<1> QED BY <1>1, <1>2, <1>8, <1>9 DEF RouteTypes

LEMMA GroupUseStep ==
  ASSUME RouteTypes, SliceInv, NEW g \in DOMAIN groups, Routes!GroupUse(g)
  PROVE  RouteTypes' /\ SliceInv'
<1>1. made + 1 \in Nat /\ made' = made + 1 /\ router' = router /\ routes' = routes
  BY DEF Routes!GroupUse, Routes!Make, Routes!Fresh, RouteTypes
<1>2. PICK a \in Routes!Appended(groups[g].mws, made + 1) :
        /\ arrays' = a.arrays
        /\ groups' = [groups EXCEPT ![g].mws = a.slice, ![g].said = Append(@, made + 1)]
  BY DEF Routes!GroupUse, Routes!Fresh
<1>3. Len(groups) \in Nat /\ DOMAIN groups = 1 .. Len(groups) /\ groups \in Seq(GroupSet)
  BY OwnerTypes DEF RouteTypes
<1>4. groups[g] \in GroupSet /\ g \in Owners /\ g # 0
  BY <1>3, ElementOfSeq DEF Owners
<1> DEFINE s == a.slice
           w == Append(groups[g].said, made + 1)
           r == [groups[g] EXCEPT !.mws = s, !.said = w]
<1>5. groups[g].said \in Seq(Nat) /\ groups[g].common \in BOOLEAN
  BY <1>4 DEF GroupSet
<1>6. w \in Seq(Nat)
  BY <1>1, <1>5, AppendProperties
<1> HIDE DEF s, w
<1>7. r.mws = s /\ r.said = w /\ r.common = groups[g].common
  BY <1>4 DEF GroupSet
<1>8. groups' = [groups EXCEPT ![g] = r]
  BY <1>2, <1>4 DEF s, w
<1> HIDE DEF r
<1>9. DOMAIN groups' = DOMAIN groups /\ groups'[g] = r
      /\ \A i \in DOMAIN groups : i # g => groups'[i] = groups[i]
  BY <1>8
<1>10. groups' \in [1 .. Len(groups) -> {groups'[i] : i \in 1 .. Len(groups)}] /\ Len(groups') = Len(groups)
  BY <1>3, <1>8
<1>11. Owners' = Owners
  BY <1>10 DEF Owners
<1>12. FromCommon' = FromCommon
  BY <1>7, <1>9 DEF FromCommon
<1>13. \A p \in Owners : p # g => Mws(p)' = Mws(p) /\ Said(p)' = Said(p)
  <2> SUFFICES ASSUME NEW p \in Owners, p # g PROVE Mws(p)' = Mws(p) /\ Said(p)' = Said(p)
    OBVIOUS
  <2>1. p = 0 \/ p \in DOMAIN groups
    BY <1>3 DEF Owners
  <2> QED BY <2>1, <1>1, <1>9 DEF Mws, Said
<1>14. Mws(g)' = a.slice /\ Said(g)' = Append(Said(g), made + 1) /\ Mws(g) = groups[g].mws
  BY <1>4, <1>7, <1>9 DEF Mws, Said, s, w
<1>15. SliceInv' /\ arrays' \in Seq(Array) /\ arrays' # <<>> /\ a.slice \in SliceSet
  BY <1>1, <1>2, <1>4, <1>11, <1>12, <1>13, <1>14, UseStep
<1>16. r \in GroupSet
  <2>1. s \in SliceSet
    BY <1>15 DEF s
  <2> QED BY <2>1, <1>4, <1>6 DEF GroupSet, r
<1>17. groups' \in Seq(GroupSet)
  BY <1>3, <1>8, <1>16, ExceptSeq
<1> QED BY <1>1, <1>15, <1>17 DEF RouteTypes

LEMMA NewGroupStep ==
  ASSUME RouteTypes, SliceInv, Routes!NewGroup
  PROVE  RouteTypes' /\ SliceInv'
<1>1. /\ Len(groups) \in Nat /\ 1 \in DOMAIN arrays
      /\ Len(arrays) \in Nat /\ DOMAIN arrays = 1 .. Len(arrays)
  BY OwnerTypes, LenProperties DEF RouteTypes
<1>2. PICK n \in Nat : n = Len(groups) + 1
  BY <1>1
<1> DEFINE nil == [array |-> 0, len |-> 0]
           one == [array |-> 1, len |-> 1]
<1>3. nil \in SliceSet /\ one \in SliceSet /\ <<>> \in Seq(Nat) /\ <<1>> \in Seq(Nat)
  BY DEF SliceSet
<1>4. CASE /\ groups' = Append(groups, Routes!Group(Routes!Nil, <<>>, FALSE))
           /\ UNCHANGED <<arrays, router, routes, made>>
  <2>1. Routes!Nil = nil
    BY DEF Routes!Nil, Routes!Slice
  <2>2. Kept
    BY <1>4 DEF Kept
  <2>3. Fits(nil)' /\ Routes!Items(nil)' = <<>>
    BY DEF Fits, Routes!Items
  <2> HIDE DEF nil
  <2>4. nil.array = 0
    BY DEF nil
  <2>5. SliceInv' /\ groups' \in Seq(GroupSet)
    BY <1>2, <1>3, <1>4, <2>1, <2>2, <2>3, <2>4, GrowStep
  <2> QED BY <1>4, <2>5 DEF RouteTypes
<1>5. CASE /\ groups' = Append(groups, Routes!Group(Routes!Common, <<1>>, TRUE))
           /\ UNCHANGED <<arrays, router, routes, made>>
  <2>1. Routes!Common = one
    BY DEF Routes!Common, Routes!Slice
  <2>2. Kept
    BY <1>5 DEF Kept
  <2>3. arrays[1].items \in Seq(Nat)
    BY <1>1, ArrayAt
  <2>4. Len(arrays[1].items) \in {1, 2}
    BY DEF SliceInv, Small
  <2>5. Fits(one)'
    <3>1. one.array = 1 /\ one.len = 1
      OBVIOUS
    <3>2. 1 \in DOMAIN arrays' /\ arrays'[1].items = arrays[1].items
      BY <1>1, <1>5
    <3>3. 1 \in 1 .. Len(arrays[1].items)
      <4>1. PICK l \in {1, 2} : l = Len(arrays[1].items)
        BY <2>4
      <4>2. 1 \in 1 .. l
        OBVIOUS
      <4> QED BY <4>1, <4>2
    <3> HIDE DEF one
    <3> QED BY <3>1, <3>2, <3>3 DEF Fits
  <2>6. ~Tangled(n)' => Routes!Items(one)' = <<1>>
    <3> SUFFICES ASSUME ~Tangled(n)' PROVE Routes!Items(one)' = <<1>>
      OBVIOUS
    <3>1. FromCommon' = FromCommon \cup {n} /\ n \notin FromCommon
      <4> DEFINE g == Routes!Group(one, <<1>>, TRUE)
      <4>1. g \in GroupSet /\ g.common = TRUE /\ groups' = Append(groups, g)
        BY <1>3, <1>5, <2>1 DEF Routes!Group, GroupSet
      <4> HIDE DEF g
      <4> QED BY <4>1, <1>2, GrowCommon
    <3>2. ~Roomy' \/ FromCommon' = {n}
      BY <3>1 DEF Tangled
    <3>3. ~Roomy \/ FromCommon = {}
      BY <3>1, <3>2, <1>5 DEF Roomy
    <3>4. arrays[1].items = <<1>>
      BY <3>3 DEF SliceInv, Untouched
    <3>5. Routes!Items(one)' = SubSeq(<<1>>, 1, 1)
      BY <3>4, <1>5 DEF Routes!Items
    <3>6. Len(<<1>>) = 1 /\ SubSeq(<<1>>, 1, Len(<<1>>)) = <<1>>
      BY <1>3, SubSeqFull
    <3> QED BY <3>5, <3>6
  <2> HIDE DEF one
  <2>7. one.array = 1
    BY DEF one
  <2>8. SliceInv' /\ groups' \in Seq(GroupSet)
    BY <1>2, <1>3, <1>5, <2>1, <2>2, <2>5, <2>6, <2>7, GrowStep
  <2> QED BY <1>5, <2>8 DEF RouteTypes
<1>6. CASE /\ Routes!Make /\ arrays' = Append(arrays, [items |-> <<Routes!Fresh>>, cap |-> 1])
           /\ groups' = Append(groups, Routes!Group(Routes!Slice(Len(arrays'), 1), <<Routes!Fresh>>, FALSE))
           /\ UNCHANGED <<router, routes>>
  <2>1. made + 1 \in Nat /\ made' = made + 1 /\ Routes!Fresh = made + 1
    BY <1>6 DEF Routes!Make, Routes!Fresh, RouteTypes
  <2> DEFINE q == <<made + 1>>
  <2>2. q \in Seq(Nat) /\ q # <<>> /\ Len(q) = 1
    BY <2>1
  <2>3. arrays' \in Routes!NewArray(q)
    <3>1. 1 \in Len(q) .. Len(q) + 1
      BY <2>2
    <3> QED BY <3>1, <1>6, <2>1 DEF Routes!NewArray
  <2> HIDE DEF q
  <2>4. PICK m : m = [array |-> Len(arrays) + 1, len |-> 1]
    OBVIOUS
  <2>5. m \in SliceSet /\ m.array = Len(arrays) + 1 /\ m.len = 1
    BY <2>4, <1>1 DEF SliceSet
  <2>6. Len(arrays') = Len(arrays) + 1
    <3>1. PICK c \in Len(q) .. Len(q) + 1 : arrays' = Append(arrays, [items |-> q, cap |-> c])
      BY <2>3 DEF Routes!NewArray
    <3>2. [items |-> q, cap |-> c] \in Array
      BY <3>1, <2>2 DEF Array
    <3> QED BY <3>1, <3>2, AppendProperties DEF RouteTypes
  <2>7. /\ Kept /\ arrays' \in Seq(Array) /\ arrays' # <<>> /\ Fits(m)' /\ Routes!Items(m)' = q
    BY <2>2, <2>3, <2>5, <2>6, CopyEffect
  <2>8. groups' = Append(groups, Routes!Group(m, q, FALSE))
    BY <1>6, <2>1, <2>4, <2>6 DEF Routes!Slice, q
  <2>9. SliceInv' /\ groups' \in Seq(GroupSet)
    BY <1>2, <1>6, <2>2, <2>5, <2>7, <2>8, GrowStep
  <2> QED BY <1>6, <2>1, <2>7, <2>9 DEF RouteTypes
<1> QED BY <1>4, <1>5, <1>6 DEF Routes!NewGroup, Routes!AddGroup

LEMMA NewNestedStep ==
  ASSUME RouteTypes, SliceInv, NEW g \in DOMAIN groups, Routes!NewNested(g)
  PROVE  RouteTypes' /\ SliceInv'
<1>1. made + 1 \in Nat /\ made' = made + 1 /\ router' = router /\ routes' = routes
  BY DEF Routes!NewNested, Routes!Make, Routes!Fresh, RouteTypes
<1>2. /\ Len(groups) \in Nat /\ DOMAIN groups = 1 .. Len(groups) /\ groups \in Seq(GroupSet)
      /\ Len(arrays) \in Nat
  BY OwnerTypes, LenProperties DEF RouteTypes
<1>3. groups[g] \in GroupSet /\ g \in Owners /\ g # 0
  BY <1>2, ElementOfSeq DEF Owners
<1> DEFINE s == groups[g].mws
           q == Append(Routes!Items(s), made + 1)
           w == Append(groups[g].said, made + 1)
           c == groups[g].common
<1>4. PICK a \in Routes!Combined(s, made + 1) :
        /\ arrays' = a.arrays
        /\ groups' = Append(groups, Routes!Group(a.slice, w, c))
  BY DEF Routes!NewNested, Routes!Fresh, Routes!AddGroup
<1>5. s \in SliceSet /\ groups[g].said \in Seq(Nat) /\ c \in BOOLEAN
  BY <1>3 DEF GroupSet
<1>6. Mws(g) = s /\ Said(g) = groups[g].said /\ Fits(s)
  BY <1>3 DEF Mws, Said, SliceInv, Right
<1>7. Routes!Items(s) \in Seq(Nat) /\ Len(Routes!Items(s)) = s.len /\ s.len \in Nat
  BY <1>5, <1>6, ItemsProperties
<1>8. q \in Seq(Nat) /\ q # <<>> /\ Len(q) = s.len + 1 /\ w \in Seq(Nat)
  <2> DEFINE y == Routes!Items(s)
  <2>1. y \in Seq(Nat) /\ Len(y) = s.len
    BY <1>7
  <2> HIDE DEF y
  <2>2. Append(y, made + 1) \in Seq(Nat) /\ Append(y, made + 1) # <<>>
        /\ Len(Append(y, made + 1)) = Len(y) + 1
    <3>1. PICK x \in Nat : x = made + 1
      BY <1>1
    <3>2. PICK z \in Seq(Nat) : z = y
      BY <2>1
    <3>3. Append(z, x) \in Seq(Nat) /\ Append(z, x) # <<>> /\ Len(Append(z, x)) = Len(z) + 1
      BY AppendProperties
    <3> QED BY <3>1, <3>2, <3>3
  <2>3. w \in Seq(Nat)
    BY <1>1, <1>5, AppendProperties
  <2> QED BY <2>1, <2>2, <2>3 DEF y
<1>9. PICK b \in Routes!NewArray(q) : a = [arrays |-> b, slice |-> Routes!Slice(Len(b), s.len + 1)]
  BY <1>4 DEF Routes!Combined
<1>10. PICK m : m = a.slice
  OBVIOUS
<1>11. arrays' = b /\ arrays' \in Routes!NewArray(q) /\ m = [array |-> Len(arrays'), len |-> s.len + 1]
  BY <1>4, <1>9, <1>10 DEF Routes!Slice
<1> HIDE DEF q, w, c
<1>12. Len(arrays') = Len(arrays) + 1
  <2>1. PICK k \in Len(q) .. Len(q) + 1 : arrays' = Append(arrays, [items |-> q, cap |-> k])
    BY <1>11 DEF Routes!NewArray
  <2>2. [items |-> q, cap |-> k] \in Array
    BY <2>1, <1>7, <1>8 DEF Array
  <2> QED BY <2>1, <2>2, AppendProperties DEF RouteTypes
<1>13. m \in SliceSet /\ m.array = Len(arrays') /\ m.len = Len(q)
  BY <1>2, <1>7, <1>8, <1>11, <1>12 DEF SliceSet
<1>14. /\ Kept /\ arrays' \in Seq(Array) /\ arrays' # <<>> /\ Fits(m)' /\ Routes!Items(m)' = q
  BY <1>8, <1>11, <1>13, CopyEffect
<1>15. PICK n \in Nat : n = Len(groups) + 1
  BY <1>2
<1>16. groups' = Append(groups, Routes!Group(m, w, c))
  BY <1>4, <1>10
<1>17. ~Tangled(n)' => Routes!Items(m)' = w
  <2> SUFFICES ASSUME ~Tangled(n)' PROVE q = w
    BY <1>14
  <2>1. FromCommon' = (IF c = TRUE THEN FromCommon \cup {n} ELSE FromCommon) /\ n \notin FromCommon
    <3> DEFINE r == Routes!Group(m, w, c)
    <3>1. c \in BOOLEAN
      BY <1>5 DEF c
    <3>2. r \in GroupSet /\ r.common = c /\ groups' = Append(groups, r)
      BY <3>1, <1>8, <1>13, <1>16 DEF Routes!Group, GroupSet
    <3> HIDE DEF r
    <3> QED BY <3>2, <1>15, GrowCommon
  <2>2. Roomy' = Roomy
    BY <1>14, OwnerTypes DEF Kept, Roomy
  <2>3. g \in FromCommon <=> c = TRUE
    BY DEF FromCommon, c
  <2>4. ~Tangled(g)
    BY <2>1, <2>2, <2>3 DEF Tangled
  <2>5. Routes!Items(s) = groups[g].said
    BY <2>4, <1>3, <1>6 DEF SliceInv, Right
  <2> QED BY <2>5 DEF q, w
<1>18. SliceInv' /\ groups' \in Seq(GroupSet)
  <2>1. c \in BOOLEAN
    BY <1>5 DEF c
  <2> QED BY <2>1, <1>1, <1>8, <1>12, <1>13, <1>14, <1>15, <1>16, <1>17, GrowStep
<1> QED BY <1>1, <1>14, <1>18 DEF RouteTypes

\* A route is registered with what its owner's slices show.
LEMMA AddRouteStep ==
  ASSUME RouteTypes, SliceInv, Routes!RouteRunsItsOwn,
         UNCHANGED <<arrays, router, groups, made>>,
         NEW r \in RouteSet, routes' = Append(routes, r), r.loose = FALSE => r.runs = r.said
  PROVE  RouteInv'
<1>1. routes \in Seq(RouteSet) /\ Len(routes) \in Nat /\ DOMAIN routes = 1 .. Len(routes)
  BY LenProperties DEF RouteTypes
<1>2. /\ routes' \in Seq(RouteSet) /\ Len(routes') = Len(routes) + 1
      /\ \A i \in 1 .. Len(routes) : routes'[i] = routes[i]
      /\ routes'[Len(routes) + 1] = r
  BY <1>1, AppendProperties
<1>3. RouteTypes'
  BY <1>2 DEF RouteTypes
<1>4. SliceInv'
  BY DEF SliceInv, Apart, CommonOnly, Untouched, Small, Right, Owners, Mws, Said, FromCommon, Roomy,
         Tangled, Fits, Routes!Items
<1>5. r.loose \in BOOLEAN
  BY DEF RouteSet
<1>6. ~r.loose => r.runs = r.said
  BY <1>5
<1>7. DOMAIN routes' = 1 .. Len(routes) + 1
  BY <1>2, LenProperties
<1>8. ASSUME NEW i \in DOMAIN routes', ~routes'[i].loose PROVE routes'[i].runs = routes'[i].said
  <2>1. CASE i = Len(routes) + 1
    BY <2>1, <1>2, <1>6, <1>8
  <2>2. CASE i # Len(routes) + 1
    <3>1. i \in DOMAIN routes /\ routes'[i] = routes[i]
      BY <2>2, <1>1, <1>2, <1>7
    <3> QED BY <3>1, <1>8 DEF Routes!RouteRunsItsOwn
  <2> QED BY <2>1, <2>2
<1>9. (Routes!RouteRunsItsOwn)'
  BY <1>8 DEF Routes!RouteRunsItsOwn
<1> QED BY <1>3, <1>4, <1>9 DEF RouteInv

LEMMA HandleStep ==
  ASSUME RouteTypes, SliceInv, Routes!RouteRunsItsOwn,
         Routes!HandleFunc(<<>>, <<>>, FALSE) \/ \E g \in DOMAIN groups : Routes!HandleInGroup(g)
  PROVE  RouteInv'
<1> DEFINE own == Routes!Items(router.mws)
<1>1. own = router.said /\ router.said \in Seq(Nat)
  <2>1. 0 \in Owners /\ Mws(0) = router.mws /\ Said(0) = router.said
    BY OwnerTypes DEF Owners, Mws, Said
  <2>2. ~Tangled(0)
    BY OwnerTypes DEF Tangled, FromCommon
  <2> QED BY <2>1, <2>2 DEF SliceInv, Right, RouteTypes
<1>2. CASE Routes!HandleFunc(<<>>, <<>>, FALSE)
  <2> DEFINE r == [runs |-> own \o <<>>, said |-> router.said \o <<>>, loose |-> FALSE]
  <2>1. routes' = Append(routes, r) /\ UNCHANGED <<arrays, router, groups, made>>
    BY <1>2 DEF Routes!HandleFunc, Routes!AddRoute, Routes!chain
  <2>2. router.said \o <<>> = router.said
    BY <1>1, ConcatEmptySeq
  <2>3. r \in RouteSet /\ r.runs = r.said
    BY <1>1, <2>2 DEF RouteSet
  <2> HIDE DEF r
  <2> QED BY <2>1, <2>3, AddRouteStep
<1>3. ASSUME NEW g \in DOMAIN groups, Routes!HandleInGroup(g) PROVE RouteInv'
  <2> DEFINE its == Routes!Items(groups[g].mws)
             w == groups[g].said
             e == Routes!Entangled(g)
             r == [runs |-> own \o (its \o <<>>), said |-> router.said \o w, loose |-> e]
  <2>1. routes' = Append(routes, r) /\ UNCHANGED <<arrays, router, groups, made>>
    BY <1>3 DEF Routes!HandleInGroup, Routes!HandleFunc, Routes!AddRoute, Routes!chain
  <2>2. g \in Owners /\ g # 0 /\ Mws(g) = groups[g].mws /\ Said(g) = w
    BY OwnerTypes DEF Owners, Mws, Said
  <2>3. Mws(g) \in SliceSet /\ w \in Seq(Nat) /\ Fits(Mws(g))
    BY <2>2, OwnerTypes DEF SliceInv, Right
  <2>4. its \in Seq(Nat)
    BY <2>2, <2>3, ItemsProperties
  <2>5. ~Tangled(g) => its = w
    BY <2>2 DEF SliceInv, Right
  <2>6. e \in BOOLEAN /\ (~e => its = w)
    <3>1. e <=> Tangled(g)
      BY EntangledIsTangled
    <3>2. e \in BOOLEAN
      BY DEF Routes!Entangled
    <3> QED BY <3>1, <3>2, <2>5
  <2> HIDE DEF its, w, e
  <2>7. its \o <<>> = its
    BY <2>4, ConcatEmptySeq
  <2>8. router.said \o its \in Seq(Nat) /\ router.said \o w \in Seq(Nat)
    BY <1>1, <2>3, <2>4, ConcatProperties
  <2>9. r = [runs |-> router.said \o its, said |-> router.said \o w, loose |-> e]
    BY <1>1, <2>7
  <2>10. r \in RouteSet
    BY <2>6, <2>8, <2>9 DEF RouteSet
  <2>11. r.loose = FALSE => r.runs = r.said
    <3>1. r.loose = e /\ r.runs = router.said \o its /\ r.said = router.said \o w
      BY <2>9
    <3>2. e = FALSE => its = w
      BY <2>6
    <3> QED BY <3>1, <3>2
  <2> HIDE DEF r
  <2> QED BY <2>1, <2>10, <2>11, AddRouteStep
<1> QED BY <1>2, <1>3

LEMMA RouteStep ==
  ASSUME RouteInv, [Routes!Next]_(Routes!vars)
  PROVE  RouteInv'
<1>1. RouteTypes /\ SliceInv /\ Routes!RouteRunsItsOwn
  BY DEF RouteInv
<1>2. ASSUME routes' = routes PROVE (Routes!RouteRunsItsOwn)'
  BY <1>1, <1>2 DEF Routes!RouteRunsItsOwn
<1>3. CASE UNCHANGED Routes!vars
  <2>1. RouteTypes'
    BY <1>1, <1>3 DEF Routes!vars, RouteTypes
  <2>2. SliceInv'
    BY <1>1, <1>3 DEF Routes!vars, SliceInv, Apart, CommonOnly, Untouched, Small, Right, Owners, Mws,
                      Said, FromCommon, Roomy, Tangled, Fits, Routes!Items
  <2> QED BY <1>2, <1>3, <2>1, <2>2 DEF Routes!vars, RouteInv
<1>4. CASE Routes!RouterUse
  <2>1. routes' = routes
    BY <1>4 DEF Routes!RouterUse
  <2> QED BY <1>1, <1>2, <1>4, <2>1, RouterUseStep DEF RouteInv
<1>5. CASE Routes!NewGroup
  <2>1. routes' = routes
    BY <1>5 DEF Routes!NewGroup
  <2> QED BY <1>1, <1>2, <1>5, <2>1, NewGroupStep DEF RouteInv
<1>6. ASSUME NEW g \in DOMAIN groups, Routes!NewNested(g) PROVE RouteInv'
  <2>1. routes' = routes
    BY <1>6 DEF Routes!NewNested
  <2> QED BY <1>1, <1>2, <1>6, <2>1, NewNestedStep DEF RouteInv
<1>7. ASSUME NEW g \in DOMAIN groups, Routes!GroupUse(g) PROVE RouteInv'
  <2>1. routes' = routes
    BY <1>7 DEF Routes!GroupUse
  <2> QED BY <1>1, <1>2, <1>7, <2>1, GroupUseStep DEF RouteInv
<1>8. CASE Routes!HandleFunc(<<>>, <<>>, FALSE) \/ \E g \in DOMAIN groups : Routes!HandleInGroup(g)
  BY <1>1, <1>8, HandleStep
<1> QED BY <1>3, <1>4, <1>5, <1>6, <1>7, <1>8 DEF Routes!Next

\* Around every route runs exactly what Use and the makers of its groups were
\* given before it was registered, in order, however groups are nested and slices
\* grow, unless several groups were made of one slice of the program that has
\* room: Use, NewGroup and HandleFunc of routers and groups, for any number of groups,
\* routes and middleware.
THEOREM RoutesRunTheirOwn == Routes!Spec => []RouteRunsItsOwn
<1>1. Routes!Init => RouteInv
  <2> SUFFICES ASSUME Routes!Init PROVE RouteInv
    OBVIOUS
  <2>1. PICK c \in 1 .. 2 : arrays = <<[items |-> <<1>>, cap |-> c]>>
    BY DEF Routes!Init
  <2>2. /\ router = [mws |-> [array |-> 0, len |-> 0], said |-> <<>>]
        /\ groups = <<>> /\ routes = <<>> /\ made = 1
    BY DEF Routes!Init, Routes!Nil, Routes!Slice
  <2>3. [items |-> <<1>>, cap |-> c] \in Array /\ [array |-> 0, len |-> 0] \in SliceSet
    BY DEF Array, SliceSet
  <2>4. arrays \in Seq(Array) /\ arrays # <<>>
    BY <2>1, <2>3
  <2>5. RouteTypes
    BY <2>2, <2>3, <2>4 DEF RouteTypes
  <2>6. Owners = {0} /\ FromCommon = {} /\ Mws(0) = [array |-> 0, len |-> 0] /\ Said(0) = <<>>
    BY <2>2 DEF Owners, FromCommon, Mws, Said
  <2>7. arrays[1].items = <<1>> /\ arrays[1].cap = c /\ Len(<<1>>) = 1
    BY <2>1
  <2>8. Right
    BY <2>6 DEF Right, Fits, Routes!Items
  <2>9. SliceInv
    BY <2>6, <2>7, <2>8 DEF SliceInv, Apart, CommonOnly, Untouched, Small
  <2>10. Routes!RouteRunsItsOwn
    BY <2>2 DEF Routes!RouteRunsItsOwn
  <2> QED BY <2>5, <2>9, <2>10 DEF RouteInv
<1>2. RouteInv /\ [Routes!Next]_(Routes!vars) => RouteInv'
  BY RouteStep
<1>3. RouteInv => Routes!RouteRunsItsOwn
  BY DEF RouteInv
<1> QED BY <1>1, <1>2, <1>3, PTL DEF Routes!Spec, RouteRunsItsOwn
=============================================================================
