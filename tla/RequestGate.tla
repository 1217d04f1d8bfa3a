---------------------------- MODULE RequestGate ----------------------------
(***************************************************************************)
(* What a request meets before its handler: allowedhosts, trustedproxy and *)
(* ratelimit, in the order their package comments ask for.                 *)
(*                                                                         *)
(* A request comes over a path of hosts; each adds the address it got the  *)
(* request from to X-Forwarded-For, by extending the header's last line or *)
(* by a line of its own.  A host that is not a trusted proxy may send any  *)
(* lines to begin with.  (A proxy that joins lines into one is a host that *)
(* was sent one line.)  The counter of ratelimit is the Store's Increment  *)
(* (see CacheStore), which is atomic.                                      *)
(***************************************************************************)
EXTENDS Naturals, Sequences, FiniteSets, SequencesExt

CONSTANTS
  Clients,      \* addresses outside the trusted prefixes
  Proxies,      \* addresses inside them
  Garbage,      \* an entry that is no address
  Limit,        \* ratelimit's limit for the period
  MaxPath,      \* bound on the hosts on a request's path
  MaxLines, MaxEntries, \* bounds on the header a host sends: lines, and entries of each
  MaxArrivals   \* bound on the requests

VARIABLES
  lines,        \* X-Forwarded-For of the request under way
  path,         \* the hosts it has come over so far, the last one nearest
  stage,        \* where it is
  clientIP,     \* what trustedproxy found
  counter,      \* ratelimit's counters in this period, by identity
  sent,         \* history: requests in this period that reached ratelimit, by true client,
  served,       \* ... and those that reached their handlers
  refused,      \* history: clients that got a 429 in it
  arrivals,
  split         \* history: a trusted peer passed on a header of several lines

vars == <<lines, path, stage, clientIP, counter, sent, served, refused, arrivals, split>>

Addresses == Clients \cup Proxies
Zero == [a \in Addresses |-> 0]

Init ==
  /\ lines = <<>> /\ path = <<>> /\ stage = "none" /\ clientIP = Garbage
  /\ counter = Zero /\ sent = Zero /\ served = Zero /\ refused = {} /\ arrivals = 0 /\ split = FALSE

isTrusted(a) == a \in Proxies

-----------------------------------------------------------------------------
(* The way to the application                                              *)

\* What a host that is not a proxy may send as X-Forwarded-For: lines of entries.
Headers == SeqOf(SeqOf(Addresses \cup {Garbage}, MaxEntries) \ {<<>>}, MaxLines)

\* A host sends a request, with or without a header of its own making.
Start(o) ==
  /\ stage = "none" /\ arrivals < MaxArrivals
  /\ arrivals' = arrivals + 1
  /\ path' = <<o>>
  /\ lines' \in IF isTrusted(o) THEN {<<>>} ELSE Headers
  /\ stage' = "underway" /\ clientIP' = Garbage
  /\ UNCHANGED <<counter, sent, served, refused, split>>

\* The next host passes it on, with the address of the one it had it from.
Forward(h) ==
  LET from == Last(path) IN
  /\ stage = "underway" /\ Len(path) < MaxPath
  /\ path' = Append(path, h)
  /\ \/ /\ lines # <<>>
        /\ lines' = [lines EXCEPT ![Len(lines)] = Append(@, from)]
     \/ lines' = Append(lines, <<from>>)
  /\ UNCHANGED <<stage, clientIP, counter, sent, served, refused, arrivals, split>>

-----------------------------------------------------------------------------
(* The middleware                                                          *)

\* The answer is there: the next request may come.
Done == stage' = "none" /\ lines' = <<>> /\ path' = <<>> /\ clientIP' = Garbage

\* Its Host is one of WithAllowedHosts, or a subdomain of an entry that begins
\* with a dot, or there are none ...
AllowHost ==
  /\ stage = "underway"
  /\ stage' = "allowed"
  /\ UNCHANGED <<lines, path, clientIP, counter, sent, served, refused, arrivals, split>>

\* ... else the answer is 400, before anything is counted.
RefuseHost ==
  /\ stage = "underway"
  /\ Done
  /\ UNCHANGED <<counter, sent, served, refused, arrivals, split>>

\* Variant: from the left, where the oldest entry is.
resolveClientIP_left(xff) ==
  LET untrusted == {i \in DOMAIN xff : ~isTrusted(xff[i])}
  IN  IF untrusted = {} THEN Garbage ELSE xff[CHOOSE i \in untrusted : \A j \in untrusted : i <= j]

\* The entry nearest to the right that is not a trusted proxy's; none if that is
\* no address, or every entry is trusted.
resolveClientIP(xff) ==
  LET untrusted == {i \in DOMAIN xff : ~isTrusted(xff[i])}
  IN  IF untrusted = {} THEN Garbage ELSE xff[CHOOSE i \in untrusted : \A j \in untrusted : j <= i]

\* trustedproxy: the peer, or what the header's first line says if the peer is
\* trusted.
ResolveClient ==
  LET peer == Last(path)
      found == IF lines = <<>> THEN Garbage ELSE resolveClientIP(lines[1])
  IN
  /\ stage = "allowed"
  /\ clientIP' = IF isTrusted(peer) /\ found # Garbage THEN found ELSE peer
  /\ split' = (split \/ (isTrusted(peer) /\ Len(lines) > 1))
  /\ stage' = "resolved"
  /\ UNCHANGED <<lines, path, counter, sent, served, refused, arrivals>>

\* The host nearest to the application that is not a trusted proxy, if any: all
\* hosts after it are, and say the truth about it.
Untrusted == {i \in DOMAIN path : ~isTrusted(path[i])}
TrueClient == path[CHOOSE i \in Untrusted : \A j \in Untrusted : j <= i]

\* count <= limit
Within(count) == count <= Limit

\* One more for the true client, if the request has one.
CountTrue(f) == IF Untrusted = {} THEN f ELSE [f EXCEPT ![TrueClient] = @ + 1]

\* ratelimit: the counter is within the limit, and the request goes on.
Serve ==
  /\ stage = "resolved" /\ Within(counter[clientIP] + 1)
  /\ counter' = [counter EXCEPT ![clientIP] = @ + 1]
  /\ sent' = CountTrue(sent) /\ served' = CountTrue(served)
  /\ Done
  /\ UNCHANGED <<refused, arrivals, split>>

\* It is not: 429, or what WithOnLimited answers.
Refuse ==
  /\ stage = "resolved" /\ ~Within(counter[clientIP] + 1)
  /\ counter' = [counter EXCEPT ![clientIP] = @ + 1]
  /\ sent' = CountTrue(sent)
  /\ refused' = IF Untrusted = {} THEN refused ELSE refused \cup {TrueClient}
  /\ Done
  /\ UNCHANGED <<served, arrivals, split>>

\* Increment returns an error, and may have counted: the handler is not called.
CountFails ==
  /\ stage = "resolved"
  /\ counter' \in {counter, [counter EXCEPT ![clientIP] = @ + 1]}
  /\ sent' = CountTrue(sent)
  /\ Done
  /\ UNCHANGED <<served, refused, arrivals, split>>

\* The period ends.
NewPeriod ==
  /\ stage = "none"
  /\ counter # Zero
  /\ counter' = Zero /\ sent' = Zero /\ served' = Zero /\ refused' = {}
  /\ UNCHANGED <<lines, path, stage, clientIP, arrivals, split>>

Next ==
  \/ \E a \in Addresses : Start(a) \/ Forward(a)
  \/ AllowHost \/ RefuseHost \/ ResolveClient \/ Serve \/ Refuse \/ CountFails \/ NewPeriod

Spec == Init /\ [][Next]_vars

-----------------------------------------------------------------------------
(* Properties                                                              *)

\* As long as the header reaches trustedproxy as one line, the limit holds for the
\* host that really sent the requests, whatever entries it put into that line and
\* however many proxies are in between, and a client is refused on account of its
\* own requests only.  (Of several lines, whoever began the second, trustedproxy
\* reads the first: r.Header.Get.)
LimitPerClient ==
  ~split => \A c \in Clients :
    /\ served[c] <= Limit
    /\ c \in refused => sent[c] > Limit
=============================================================================
