---------------------------- MODULE WebSession ----------------------------
(***************************************************************************)
(* A visitor's session through the request pipeline: method override and   *)
(* the router's shim (router.go), the cookie session (session), the        *)
(* authenticity token (csrf), the response cache (cache/httpcache) and the *)
(* writers they put around each other (context.go).  Nothing is kept on    *)
(* the server but the response cache: the session is a cookie, sent with   *)
(* every request and replaced by some of the answers.                      *)
(*                                                                         *)
(* A session holds the authenticity token and the name of the visitor who  *)
(* logged in.  Masking and unmasking a token are inverse to each other,    *)
(* and a cookie is read back as it was sealed.                             *)
(***************************************************************************)
EXTENDS Naturals, Sequences

CONSTANTS
  Visitors,       \* browsers, each of its own visitor
  Requests,       \* identities of the requests
  None,           \* no token, no user, no cookie
  Keep,           \* no Set-Cookie in an answer
  MaxTokens       \* bound on the tokens generated

VARIABLES
  stack,      \* the middleware, outermost first
  jar,        \* each browser's session cookie, or None
  page,       \* the token in the form each browser shows, or None
  request,    \* the requests
  stored,     \* the response cache's entry for the page, or None
  tokens,     \* number of tokens generated
  ideal,      \* history: the session each visitor's requests have made so far
  excused,    \* history: the visitors whose session need not be remembered
  madeFor     \* history: whose request each token was generated for

vars == <<stack, jar, page, request, stored, tokens, ideal, excused, madeFor>>

Empty == [token |-> None, user |-> None]
NoRequest == [pc |-> "new", by |-> None, sent |-> "", method |-> "", submitted |-> None,
              sess |-> Empty, dirty |-> FALSE, cookie |-> Keep, form |-> None]

\* The session and csrf, alone or with httpcache inside or outside of them.
Stacks == {<<"session", "csrf">>, <<"session", "csrf", "httpcache">>,
           <<"httpcache", "session", "csrf">>}
CacheInside == stack[Len(stack)] = "httpcache"
CacheOutside == stack[1] = "httpcache"

Init ==
  /\ stack \in Stacks
  /\ jar = [v \in Visitors |-> None] /\ page = [v \in Visitors |-> None]
  /\ request = [r \in Requests |-> NoRequest]
  /\ stored = None /\ tokens = 0
  /\ ideal = [v \in Visitors |-> Empty] /\ excused = {} /\ madeFor = <<>>

Open(v) == {r \in Requests : request[r].by = v /\ request[r].pc # "done"}

-----------------------------------------------------------------------------
(* To the handler                                                          *)

\* methodOverride: the form value or header, if it is a method, is the method.
Override(sent, method) == IF method = "" THEN sent ELSE method

\* load: no cookie is an empty session.
Load(cookie) == IF cookie = None THEN Empty ELSE cookie

\* A browser sends a request with its cookie, and with the token of the form it
\* shows, of a form made for another visitor, or without one.
Send(r, v) ==
  /\ request[r].pc = "new"
  /\ \E sent \in {"GET", "POST"}, method \in {"", "GET", "DELETE"},
        submitted \in {page[w] : w \in Visitors} \cup {None} :
       request' = [request EXCEPT ![r] =
         [NoRequest EXCEPT !.pc = "sent", !.by = v, !.sent = sent,
                           !.method = Override(sent, method), !.submitted = submitted,
                           !.sess = Load(jar[v])]]
  /\ excused' = IF Open(v) = {} THEN excused ELSE excused \cup {v}
  /\ UNCHANGED <<stack, jar, page, stored, tokens, ideal, madeFor>>

\* Variant: the method the request was sent with.
IsSafe_sent(q) == q.sent = "GET"

\* safeMethods[c.Request().Method]
IsSafe(q) == q.method = "GET"

\* CSRFToken: the session's token, a new one if it has none.
WithToken(sess) == IF sess.token = None THEN [sess EXCEPT !.token = tokens + 1] ELSE sess
TokensAfter(sess) == IF sess.token = None THEN tokens + 1 ELSE tokens
MadeFor(q) == IF q.sess.token = None THEN Append(madeFor, q.by) ELSE madeFor

\* persist: what the answer does to the cookie.
Persist(sess, dirty) ==
  IF ~dirty THEN Keep ELSE IF sess = Empty THEN None ELSE sess

Answer(r, sess, dirty, cookie, form) ==
  request' = [request EXCEPT ![r] =
    [request[r] EXCEPT !.pc = "answered", !.sess = sess, !.dirty = dirty,
                       !.cookie = cookie, !.form = form]]

\* httpcache answers a GET from its store; outside the session's middleware with
\* the header fields of the answer it recorded, inside it without a Set-Cookie.
ServeCached(r) ==
  /\ request[r].pc = "sent" /\ request[r].method = "GET"
  /\ CacheInside \/ CacheOutside
  /\ stored # None
  /\ Answer(r, request[r].sess, FALSE, stored.cookie, stored.form)
  /\ UNCHANGED <<stack, jar, page, stored, tokens, ideal, excused, madeFor>>

\* csrf: an unsafe method without the session's token is answered 403 by the
\* error handler, whose answer commits the session with the token it may have
\* just been given.
Forbid(r) ==
  LET q == request[r]
      sess == WithToken(q.sess)
  IN
  /\ q.pc = "sent" /\ ~IsSafe(q) /\ q.submitted # sess.token
  /\ TokensAfter(q.sess) <= MaxTokens
  /\ tokens' = TokensAfter(q.sess) /\ madeFor' = MadeFor(q)
  /\ Answer(r, sess, sess # q.sess, Persist(sess, sess # q.sess), None)
  /\ ideal' = [ideal EXCEPT ![q.by] = sess]
  /\ UNCHANGED <<stack, jar, page, stored, excused>>

\* The request reaches its handler: no cached answer, and a safe method or the
\* right token.
Reach(r) ==
  LET q == request[r] IN
  /\ q.pc = "sent"
  /\ q.method = "GET" /\ (CacheInside \/ CacheOutside) => stored = None
  /\ IsSafe(q) \/ (q.sess.token # None /\ q.submitted = q.sess.token)
  /\ request' = [request EXCEPT ![r].pc = "handling"]
  /\ UNCHANGED <<stack, jar, page, stored, tokens, ideal, excused, madeFor>>

-----------------------------------------------------------------------------
(* The handler, and the way back                                           *)

\* What httpcache records of an answer: inside the session's middleware it sits
\* before the writer that adds the Set-Cookie.
Recorded(cookie, form) == [cookie |-> IF CacheOutside THEN cookie ELSE Keep, form |-> form]

\* A page with a form: Render fills a buffer, so the token is in the session
\* before the first write commits it.  Only a store's failure keeps the answer
\* out of the cache.
ShowPage(r) ==
  LET q == request[r]
      sess == WithToken(q.sess)
      cookie == Persist(sess, sess # q.sess)
  IN
  /\ q.pc = "handling" /\ q.method = "GET"
  /\ TokensAfter(q.sess) <= MaxTokens
  /\ tokens' = TokensAfter(q.sess) /\ madeFor' = MadeFor(q)
  /\ Answer(r, sess, sess # q.sess, cookie, sess.token)
  /\ stored' \in IF CacheInside \/ CacheOutside THEN {stored, Recorded(cookie, sess.token)} ELSE {stored}
  /\ ideal' = [ideal EXCEPT ![q.by] = sess]
  /\ UNCHANGED <<stack, jar, page, excused>>

\* Rendering fails after the token was made: the error handler's answer commits
\* the session, unless httpcache, outside, has put its own writer back.
FailPage(r) ==
  LET q == request[r]
      sess == WithToken(q.sess)
  IN
  /\ q.pc = "handling" /\ q.method = "GET"
  /\ TokensAfter(q.sess) <= MaxTokens
  /\ tokens' = TokensAfter(q.sess) /\ madeFor' = MadeFor(q)
  /\ Answer(r, sess, sess # q.sess, IF CacheOutside THEN Keep ELSE Persist(sess, sess # q.sess), None)
  /\ ideal' = [ideal EXCEPT ![q.by] = sess]
  /\ UNCHANGED <<stack, jar, page, stored, excused>>

\* Variant: only an answer without an error commits the session.
OnError_dropped(cookie) == Keep

\* An error of the handler of an unsafe method: the shim's error handler writes
\* through the session's writer.
OnError(cookie) == cookie

\* A handler logs the visitor in and then writes an answer or returns an error.
LogIn(r) ==
  LET q == request[r]
      sess == [q.sess EXCEPT !.user = q.by]
  IN
  /\ q.pc = "handling" /\ q.method # "GET"
  /\ \E cookie \in {Persist(sess, TRUE), OnError(Persist(sess, TRUE))} : Answer(r, sess, TRUE, cookie, None)
  /\ ideal' = [ideal EXCEPT ![q.by] = sess]
  /\ UNCHANGED <<stack, jar, page, stored, tokens, excused, madeFor>>

\* It does so after the first write, or without writing anything, or the session
\* is too large for a cookie: there is no Set-Cookie.
LogInLost(r) ==
  LET q == request[r]
      sess == [q.sess EXCEPT !.user = q.by]
  IN
  /\ q.pc = "handling" /\ q.method # "GET"
  /\ Answer(r, sess, TRUE, Persist(q.sess, FALSE), None)
  /\ ideal' = [ideal EXCEPT ![q.by] = sess]
  /\ excused' = excused \cup {q.by}
  /\ UNCHANGED <<stack, jar, page, stored, tokens, madeFor>>

\* A handler clears the session.
LogOut(r) ==
  LET q == request[r] IN
  /\ q.pc = "handling" /\ q.method # "GET"
  /\ Answer(r, Empty, q.sess # Empty, Persist(Empty, q.sess # Empty), None)
  /\ ideal' = [ideal EXCEPT ![q.by] = Empty]
  /\ UNCHANGED <<stack, jar, page, stored, tokens, excused, madeFor>>

\* The browser gets the answer: it keeps the cookie and shows the page.
Receive(r) ==
  LET q == request[r] IN
  /\ q.pc = "answered"
  /\ jar' = [jar EXCEPT ![q.by] = IF q.cookie = Keep THEN @ ELSE q.cookie]
  /\ page' = [page EXCEPT ![q.by] = q.form]
  /\ request' = [request EXCEPT ![r] = [NoRequest EXCEPT !.pc = "done"]]
  /\ UNCHANGED <<stack, stored, tokens, ideal, excused, madeFor>>

\* The cached answer expires.
Expire ==
  /\ stored # None
  /\ stored' = None
  /\ UNCHANGED <<stack, jar, page, request, tokens, ideal, excused, madeFor>>

Next ==
  \/ \E r \in Requests :
       \/ \E v \in Visitors : Send(r, v)
       \/ ServeCached(r) \/ Forbid(r) \/ Reach(r)
       \/ ShowPage(r) \/ FailPage(r) \/ LogIn(r) \/ LogInLost(r) \/ LogOut(r) \/ Receive(r)
  \/ Expire

Spec == Init /\ [][Next]_vars

-----------------------------------------------------------------------------
(* Properties                                                              *)

\* Although nothing is kept on the server, a visitor's session is what the
\* visitor's requests made of it and the form shown holds its token, through
\* errors, refusals and cached answers, unless two of the visitor's requests
\* overlapped (the later answer's cookie wins) or a handler changed the session
\* after its first write.  The form of a cached page is another visitor's.
SessionRemembered ==
  \A v \in Visitors \ excused : Open(v) = {} =>
    /\ Load(jar[v]) = ideal[v]
    /\ page[v] # None /\ ~CacheInside => page[v] = ideal[v].token

\* A visitor is never given a session in which another one logged in or whose
\* token another one's session has.
SessionsStayApart ==
  \A v, w \in Visitors : v # w =>
    /\ Load(jar[v]).user # w
    /\ Load(jar[v]).token = None \/ Load(jar[v]).token # Load(jar[w]).token

\* Both hold unless httpcache sits outside the session's middleware, where it
\* records the Set-Cookie with the page.
SessionIsOnesOwn == ~CacheOutside => SessionRemembered /\ SessionsStayApart

\* No handler of an unsafe method runs but for a request from a form made for the
\* same visitor, whatever method the request was sent with and _method made of
\* it, and whatever sessions and pages went back and forth before: csrf compares
\* the token with the session's, and the session is the visitor's own unless
\* httpcache sits outside its middleware.
UnsafeIsVerified ==
  ~CacheOutside => \A r \in Requests :
    LET q == request[r] IN
    q.pc = "handling" /\ q.method # "GET"
      => q.submitted # None /\ madeFor[q.submitted] = q.by
=============================================================================
