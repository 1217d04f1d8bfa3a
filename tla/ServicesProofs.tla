--------------------------- MODULE ServicesProofs ---------------------------
(* Proofs about three of the services that MCServices puts side by side: the *)
(* gate before the handlers (RequestGate), the scheduler (Scheduler) and the *)
(* database Broadcaster (DbBroadcaster).  Each is an instance there, and its *)
(* theorem's hypothesis says what it needs of the constants.                 *)
EXTENDS MCServices, SequenceTheorems, WellFoundedInduction, TLAPS

-----------------------------------------------------------------------------
(* Numbers                                                                   *)

\* A set of numbers that is not empty has a smallest one.
LEMMA SmallestExists ==
  ASSUME NEW S \in SUBSET Nat, S # {}
  PROVE  \E m \in S : \A n \in S : m <= n
<1>1. PICK m \in S : \A n \in S : ~ (<<n, m>> \in OpToRel(<, Nat))
  BY NatLessThanWellFounded, WFMin
<1>2. \A n \in S : ~(n < m)
  BY <1>1 DEF OpToRel
<1> QED BY <1>2

\* A set of positions in a sequence that is not empty has a last one.
LEMMA LargestExists ==
  ASSUME NEW N \in Nat, NEW S \in SUBSET (1 .. N), S # {}
  PROVE  \E m \in S : \A n \in S : n <= m
<1> DEFINE T == {N - n : n \in S}
<1>1. ASSUME NEW t \in T PROVE t \in Nat
  OBVIOUS
<1>2. PICK n0 \in S : TRUE
  OBVIOUS
<1>3. N - n0 \in T
  BY <1>2
<1>4. T \in SUBSET Nat /\ T # {}
  BY <1>1, <1>3
<1>5. PICK t \in T : \A u \in T : t <= u
  BY <1>4, SmallestExists
<1>6. PICK m \in S : t = N - m
  BY <1>5
<1>7. ASSUME NEW n \in S PROVE n <= m
  <2>1. N - m <= N - n
    BY <1>5, <1>6
  <2> QED BY <2>1
<1> QED BY <1>7

-----------------------------------------------------------------------------
(* RequestGate: the limit is the client's own                                *)

\* No address is both a trusted proxy's and a client's, and what is no address
\* is neither.
GateConstants ==
  /\ Limit \in Nat /\ MaxLines \in Nat /\ MaxEntries \in Nat
  /\ Clients \cap Proxies = {}
  /\ Garbage \notin Clients \cup Proxies

Hosts == Gate!Addresses

\* The entries of the header's first line.
Entries == IF lines = <<>> THEN <<>> ELSE lines[1]

\* The entries are the hosts of the path but the last, after d others, which
\* only a host that is not a proxy has put there.
Forged(d) ==
  /\ Len(Entries) = (Len(path) - 1) + d
  /\ \A i \in 1 .. Len(path) - 1 : Entries[i + d] = path[i]
  /\ d > 0 => ~Gate!isTrusted(path[1])

Header ==
  stage \in {"underway", "allowed"} =>
    /\ lines \in Seq(Seq(Hosts \cup {Garbage}))
    /\ Len(lines) <= 1 => \E d \in Nat : Forged(d)

Way == stage # "none" => path \in Seq(Hosts) /\ path # <<>>

\* What trustedproxy found is the true client, if there is one.
Identity ==
  stage = "resolved" =>
    IF Gate!Untrusted = {} THEN clientIP \in Proxies ELSE clientIP = Gate!TrueClient

Counts ==
  /\ counter \in [Hosts -> Nat] /\ sent \in [Hosts -> Nat] /\ served \in [Hosts -> Nat]
  /\ \A c \in Clients :
       /\ served[c] <= counter[c] /\ served[c] <= Limit /\ counter[c] <= sent[c]
       /\ c \in refused => sent[c] > Limit

GateInv == split \in BOOLEAN /\ (split = FALSE => Way /\ Header /\ Identity /\ Counts)

\* The last of some positions, which TrueClient and resolveClientIP choose.
LEMMA ChooseLast ==
  ASSUME NEW N \in Nat, NEW S \in SUBSET (1 .. N), S # {}
  PROVE  LET m == CHOOSE i \in S : \A j \in S : j <= i
         IN  m \in S /\ \A j \in S : j <= m
BY LargestExists

LEMMA TrueClientIsLast ==
  ASSUME GateConstants, path \in Seq(Hosts), Gate!Untrusted # {}
  PROVE  \E m \in Gate!Untrusted :
           /\ \A j \in Gate!Untrusted : j <= m
           /\ Gate!TrueClient = path[m] /\ path[m] \in Clients
<1>1. Gate!Untrusted \in SUBSET (1 .. Len(path)) /\ Len(path) \in Nat
  BY DEF Gate!Untrusted
<1> DEFINE m == CHOOSE i \in Gate!Untrusted : \A j \in Gate!Untrusted : j <= i
<1>2. m \in Gate!Untrusted /\ \A j \in Gate!Untrusted : j <= m
  BY <1>1, ChooseLast
<1>3. Gate!TrueClient = path[m]
  BY DEF Gate!TrueClient
<1>4. path[m] \in Clients
  BY <1>2 DEF Gate!Untrusted, Gate!isTrusted, Hosts, Gate!Addresses
<1> QED BY <1>2, <1>3, <1>4

\* trustedproxy finds the true client behind the entries of the hosts before it,
\* whatever was there before them.
LEMMA FindsTrueClient ==
  ASSUME GateConstants, Way, Header, stage = "allowed", Len(lines) <= 1,
         Gate!isTrusted(Gate!Last(path))
  PROVE  Gate!resolveClientIP(Entries) =
           IF Gate!Untrusted = {} THEN Garbage ELSE Gate!TrueClient
<1> DEFINE U == {i \in DOMAIN Entries : ~Gate!isTrusted(Entries[i])}
           n == Len(path)
<1>1. path \in Seq(Hosts) /\ n \in Nat /\ n >= 1 /\ path[n] = Gate!Last(path)
  BY DEF Way, Gate!Last
<1>2. Entries \in Seq(Hosts \cup {Garbage})
  BY DEF Header, Entries
<1>3. PICK d \in Nat : Forged(d)
  BY DEF Header
<1>4. Len(Entries) \in Nat /\ DOMAIN Entries = 1 .. Len(Entries) /\ Len(Entries) = (n - 1) + d
  BY <1>2, <1>3 DEF Forged
<1>5. \A i \in 1 .. n - 1 : Entries[i + d] = path[i]
  BY <1>3 DEF Forged
<1>6. CASE Gate!Untrusted = {}
  <2>1. \A i \in 1 .. n : Gate!isTrusted(path[i])
    BY <1>6, <1>1 DEF Gate!Untrusted
  <2>2. d = 0
    BY <2>1, <1>1, <1>3 DEF Forged
  <2>3. ASSUME NEW i \in DOMAIN Entries PROVE Gate!isTrusted(Entries[i])
    <3>1. i \in 1 .. n - 1 /\ i + d = i
      BY <1>4, <1>1, <2>2
    <3> QED BY <3>1, <1>5, <2>1, <1>1
  <2>4. U = {}
    BY <2>3
  <2> QED BY <2>4, <1>6 DEF Gate!resolveClientIP
<1>7. CASE Gate!Untrusted # {}
  <2>1. PICK m \in Gate!Untrusted :
           /\ \A j \in Gate!Untrusted : j <= m
           /\ Gate!TrueClient = path[m] /\ path[m] \in Clients
    BY <1>1, <1>7, TrueClientIsLast
  <2>2. m \in 1 .. n /\ ~Gate!isTrusted(path[m])
    BY <1>1, <2>1 DEF Gate!Untrusted
  <2>3. m # n
    BY <2>2, <1>1
  <2>4. m \in 1 .. n - 1 /\ m + d \in DOMAIN Entries
    BY <2>2, <2>3, <1>1, <1>4
  <2>5. Entries[m + d] = path[m]
    BY <2>4, <1>5
  <2>6. m + d \in U
    BY <2>4, <2>5, <2>2
  <2>7. ASSUME NEW j \in U PROVE j <= m + d
    <3>1. SUFFICES ASSUME j > m + d PROVE FALSE
      BY <1>4, <2>2
    <3>2. j \in Nat /\ j - d \in 1 .. n - 1 /\ (j - d) + d = j /\ j - d > m
      BY <3>1, <1>4, <1>1, <2>2
    <3>3. Entries[j] = path[j - d]
      BY <3>2, <1>5
    <3>4. j - d \in Gate!Untrusted
      BY <3>2, <3>3, <1>1 DEF Gate!Untrusted
    <3> QED BY <3>4, <3>2, <2>1, <2>2
  <2> DEFINE k == CHOOSE i \in U : \A j \in U : j <= i
  <2>8. U \in SUBSET (1 .. Len(Entries)) /\ U # {}
    BY <1>4, <2>6
  <2>9. k \in U /\ \A j \in U : j <= k
    BY <2>8, <1>4, ChooseLast
  <2>10. k = m + d
    <3>1. k <= m + d /\ m + d <= k
      BY <2>9, <2>7, <2>6
    <3>2. k \in Nat /\ m + d \in Nat
      BY <2>9, <2>8, <2>6, <1>4
    <3> QED BY <3>1, <3>2
  <2>11. Gate!resolveClientIP(Entries) = Entries[k]
    BY <2>8 DEF Gate!resolveClientIP
  <2> QED BY <2>11, <2>10, <2>5, <2>1, <1>7
<1> QED BY <1>6, <1>7

\* A request comes, with a header only if it is from a host that is no proxy.
LEMMA StartHeader ==
  ASSUME GateConstants, NEW o \in Hosts, Gate!Start(o)
  PROVE  Way' /\ Header'
<1> USE DEF Gate!Start
<1> DEFINE A == Hosts \cup {Garbage}
<1>1. path' = <<o>> /\ stage' = "underway" /\ Len(path') = 1 /\ path' \in Seq(Hosts)
  OBVIOUS
<1>2. CASE lines' = <<>>
  <2>1. Entries' = <<>> /\ lines' \in Seq(Seq(A)) /\ Len(Entries') = 0
    BY <1>2, EmptySeq DEF Entries
  <2>2. Forged(0)'
    BY <2>1, <1>1 DEF Forged
  <2> QED BY <2>1, <2>2, <1>1 DEF Way, Header
<1>3. CASE lines' # <<>>
  <2>1. ~Gate!isTrusted(o) /\ lines' \in Gate!Headers
    BY <1>3
  <2>2. lines' \in Seq(Seq(A))
    <3> DEFINE L == Gate!SeqOf(A, MaxEntries)
    <3>1. L \subseteq Seq(A)
      BY DEF Gate!SeqOf, GateConstants
    <3>2. lines' \in Gate!SeqOf(L \ {<<>>}, MaxLines)
      BY <2>1 DEF Gate!Headers, Hosts
    <3> HIDE DEF L
    <3>3. PICK m \in 0 .. MaxLines : lines' \in [1 .. m -> L \ {<<>>}]
      BY <3>2 DEF Gate!SeqOf
    <3> DEFINE S == Seq(A)
    <3>4. m \in Nat /\ lines' \in [1 .. m -> S]
      BY <3>1, <3>3 DEF GateConstants
    <3> HIDE DEF S
    <3>5. lines' \in Seq(S)
      BY <3>4
    <3> QED BY <3>5 DEF S
  <2>3. ASSUME Len(lines') <= 1 PROVE \E d \in Nat : Forged(d)'
    <3> DEFINE S == Seq(A)
    <3>1. Len(lines') = 1 /\ lines'[1] \in S
      <4>1. lines' \in Seq(S) /\ lines' # <<>>
        BY <2>2, <1>3
      <4> HIDE DEF S
      <4> QED BY <4>1, <2>3, EmptySeq
    <3>2. Entries' = lines'[1] /\ Len(Entries') \in Nat
      BY <3>1, <1>3 DEF Entries
    <3>3. Forged(Len(Entries))'
      BY <2>1, <3>2, <1>1 DEF Forged
    <3> QED BY <3>2, <3>3
  <2> QED BY <2>2, <2>3, <1>1 DEF Way, Header
<1> QED BY <1>2, <1>3

\* A host passes it on and adds where it had it from, to the last line or in one
\* of its own.
LEMMA ForwardHeader ==
  ASSUME GateConstants, Way, Header, NEW h \in Hosts, Gate!Forward(h)
  PROVE  Way' /\ Header'
<1> DEFINE n == Len(path)
           from == Gate!Last(path)
           A == Hosts \cup {Garbage}
           T == Seq(A)
           Extended == /\ lines' \in Seq(T) /\ Len(lines') >= Len(lines) /\ Len(lines') >= 1
                       /\ Len(lines') <= 1 => lines'[1] = Append(Entries, from) /\ Entries \in T
<1>1. stage = "underway" /\ stage' = "underway" /\ path' = Append(path, h)
  BY DEF Gate!Forward
<1>2. path \in Seq(Hosts) /\ n \in Nat /\ n >= 1 /\ from = path[n] /\ from \in Hosts
  BY <1>1 DEF Way, Gate!Last
<1>3. /\ path' \in Seq(Hosts) /\ Len(path') = n + 1 /\ path' # <<>>
      /\ \A i \in 1 .. n : path'[i] = path[i]
  BY <1>1, <1>2, AppendProperties
<1>4. \/ lines # <<>> /\ lines' = [lines EXCEPT ![Len(lines)] = Append(@, from)]
      \/ lines' = Append(lines, <<from>>)
  BY DEF Gate!Forward
<1>5. lines \in Seq(T)
  BY <1>1 DEF Header
<1>6. <<from>> \in T
  BY <1>2
<1>7. Extended
  <2>1. ASSUME lines # <<>>, lines' = [lines EXCEPT ![Len(lines)] = Append(@, from)]
        PROVE  Extended
    <3> DEFINE k == Len(lines)
               x == Append(lines[k], from)
    <3> HIDE DEF T
    <3>1. k \in Nat /\ k >= 1 /\ k \in 1 .. k /\ DOMAIN lines = 1 .. k /\ lines[k] \in T
      BY <1>5, <2>1, EmptySeq
    <3>2. x \in T
      BY <3>1, <1>2, AppendProperties DEF T
    <3>3. lines' = [lines EXCEPT ![k] = x]
      BY <2>1
    <3> HIDE DEF k, x
    <3>4. lines' \in Seq(T) /\ Len(lines') = Len(lines)
      BY <1>5, <3>1, <3>2, <3>3, ExceptSeq DEF k
    <3>5. ASSUME k = 1 PROVE lines'[1] = Append(Entries, from) /\ Entries \in T
      BY <2>1, <3>1, <3>3, <3>5 DEF Entries, x
    <3> QED BY <3>1, <3>4, <3>5 DEF k
  <2>2. ASSUME lines' = Append(lines, <<from>>)
        PROVE  Extended
    <3> DEFINE x == <<from>>
    <3>1. x \in T
      BY <1>6
    <3> HIDE DEF T, x
    <3>2. /\ lines' \in Seq(T) /\ Len(lines') = Len(lines) + 1 /\ Len(lines) \in Nat
          /\ lines'[Len(lines) + 1] = x
      BY <1>5, <2>2, <3>1, AppendProperties DEF x
    <3>3. ASSUME Len(lines) = 0 PROVE lines'[1] = Append(Entries, from) /\ Entries \in T
      <4>1. lines = <<>>
        BY <1>5, <3>3, EmptySeq
      <4>2. Entries = <<>> /\ Append(<<>>, from) = <<from>>
        BY <4>1, <1>2 DEF Entries
      <4> QED BY <4>2, <3>2, <3>3 DEF T, x
    <3> QED BY <3>2, <3>3
  <2> QED BY <1>4, <2>1, <2>2
<1>8. ASSUME Len(lines') <= 1 PROVE \E d \in Nat : Forged(d)'
  <2>1. Len(lines) <= 1 /\ Entries \in T /\ lines' # <<>> /\ lines'[1] = Append(Entries, from)
    <3>1. /\ lines' \in Seq(T) /\ Len(lines') >= Len(lines) /\ Len(lines') >= 1
          /\ lines'[1] = Append(Entries, from) /\ Entries \in T
      BY ONLY <1>7, <1>8
    <3> HIDE DEF T
    <3>2. Len(lines) \in Nat /\ Len(lines') \in Nat
      BY ONLY <1>5, <3>1
    <3>3. Len(lines) <= 1
      BY ONLY <1>8, <3>1, <3>2
    <3>4. lines' # <<>>
      BY ONLY <3>1, EmptySeq
    <3> QED BY <3>1, <3>3, <3>4
  <2>2. Entries' = Append(Entries, from)
    BY <2>1 DEF Entries
  <2>3. PICK d \in Nat : Forged(d)
    BY <1>1, <2>1 DEF Header
  <2>4. Len(Entries) = (n - 1) + d /\ \A i \in 1 .. n - 1 : Entries[i + d] = path[i]
    BY <2>3 DEF Forged
  <2>5. Len(Entries') = n + d
    BY <2>1, <2>2, <2>4, <1>2, AppendProperties
  <2>6. ASSUME NEW i \in 1 .. n PROVE Entries'[i + d] = path'[i]
    <3>1. CASE i = n
      <4>1. i + d = Len(Entries) + 1
        BY <3>1, <2>4, <1>2
      <4> QED BY <4>1, <3>1, <2>1, <2>2, <1>2, <1>3, AppendProperties
    <3>2. CASE i # n
      <4>1. i \in 1 .. n - 1 /\ i + d \in 1 .. Len(Entries)
        BY <3>2, <2>4, <1>2
      <4> QED BY <4>1, <2>1, <2>2, <2>4, <1>2, <1>3, AppendProperties
    <3> QED BY <3>1, <3>2
  <2>7. d > 0 => ~Gate!isTrusted(path'[1])
    BY <2>3, <1>3, <1>2 DEF Forged
  <2>8. Forged(d)'
    BY <1>3, <2>5, <2>6, <2>7, <1>2 DEF Forged
  <2> QED BY <2>8
<1> QED BY <1>3, <1>7, <1>8, <1>1 DEF Way, Header

\* trustedproxy: the client is who it says.
LEMMA ResolveIdentity ==
  ASSUME GateConstants, Way, Header, Gate!ResolveClient, ~split'
  PROVE  Way' /\ Identity'
<1> USE DEF Gate!ResolveClient
<1> DEFINE peer == Gate!Last(path)
           n == Len(path)
<1>1. path \in Seq(Hosts) /\ n \in Nat /\ n >= 1 /\ peer = path[n] /\ peer \in Hosts /\ stage = "allowed"
  BY DEF Way, Gate!Last
<1>2. stage' = "resolved" /\ path' = path /\ (Gate!Untrusted)' = Gate!Untrusted
  BY DEF Gate!Untrusted
<1>3. Way'
  BY <1>1, <1>2 DEF Way
<1>4. (Gate!TrueClient)' = Gate!TrueClient
  BY <1>2 DEF Gate!TrueClient
<1>5. CASE ~Gate!isTrusted(peer)
  <2>1. clientIP' = peer
    BY <1>5
  <2>2. n \in Gate!Untrusted
    BY <1>1, <1>5 DEF Gate!Untrusted
  <2>3. PICK m \in Gate!Untrusted :
           (\A j \in Gate!Untrusted : j <= m) /\ Gate!TrueClient = path[m]
    BY <1>1, <2>2, TrueClientIsLast
  <2>4. m = n
    BY <2>2, <2>3, <1>1 DEF Gate!Untrusted
  <2> QED BY <1>2, <1>3, <1>4, <2>1, <2>2, <2>3, <2>4, <1>1 DEF Identity
<1>6. CASE Gate!isTrusted(peer)
  <2>0. Len(lines) <= 1
    <3>1. ~(Len(lines) > 1) /\ lines \in Seq(Seq(Hosts \cup {Garbage}))
      BY <1>1, <1>6 DEF Header
    <3> DEFINE T == Seq(Hosts \cup {Garbage})
    <3> HIDE DEF T
    <3>2. lines \in Seq(T)
      BY <3>1 DEF T
    <3> QED BY <3>1, <3>2
  <2>1. Gate!resolveClientIP(Entries) =
          IF Gate!Untrusted = {} THEN Garbage ELSE Gate!TrueClient
    BY <1>1, <1>6, <2>0, FindsTrueClient
  <2> DEFINE found == IF lines = <<>> THEN Garbage ELSE Gate!resolveClientIP(lines[1])
  <2>2. Gate!resolveClientIP(<<>>) = Garbage
    BY DEF Gate!resolveClientIP
  <2>3. found = IF Gate!Untrusted = {} THEN Garbage ELSE Gate!TrueClient
    BY <2>1, <2>2 DEF Entries
  <2>4. CASE Gate!Untrusted = {}
    <3>1. clientIP' = peer /\ peer \in Proxies
      BY <2>3, <2>4, <1>6 DEF Gate!isTrusted
    <3> QED BY <3>1, <2>4, <1>2, <1>3 DEF Identity
  <2>5. CASE Gate!Untrusted # {}
    <3>1. Gate!TrueClient \in Clients
      BY <1>1, <2>5, TrueClientIsLast
    <3>2. clientIP' = Gate!TrueClient
      BY <2>3, <2>5, <1>6, <3>1 DEF GateConstants
    <3> QED BY <3>2, <2>5, <1>2, <1>3, <1>4 DEF Identity
  <2> QED BY <2>4, <2>5
<1> QED BY <1>5, <1>6

\* Where a request to be counted belongs: to a proxy, or to the client it is from.
LEMMA CountedFor ==
  ASSUME GateConstants, Way, Identity, stage = "resolved"
  PROVE  /\ clientIP \in Hosts
         /\ IF Gate!Untrusted = {} THEN clientIP \notin Clients
            ELSE clientIP \in Clients /\ clientIP = Gate!TrueClient
<1>1. CASE Gate!Untrusted = {}
  BY <1>1 DEF Identity, GateConstants, Hosts, Gate!Addresses
<1>2. CASE Gate!Untrusted # {}
  <2>1. path \in Seq(Hosts)
    BY DEF Way
  <2>2. Gate!TrueClient \in Clients
    BY <1>2, <2>1, TrueClientIsLast
  <2> QED BY <1>2, <2>2 DEF Identity, Hosts, Gate!Addresses
<1> QED BY <1>1, <1>2

LEMMA ServeCounts ==
  ASSUME GateConstants, Way, Identity, Counts, Gate!Serve
  PROVE  Counts'
<1> USE DEF Gate!Serve
<1>1. stage = "resolved" /\ counter[clientIP] + 1 <= Limit /\ refused' = refused
  BY DEF Gate!Within
<1>2. /\ clientIP \in Hosts
      /\ IF Gate!Untrusted = {} THEN clientIP \notin Clients
         ELSE clientIP \in Clients /\ clientIP = Gate!TrueClient
  BY <1>1, CountedFor
<1>3. counter' \in [Hosts -> Nat] /\ counter' = [counter EXCEPT ![clientIP] = @ + 1]
  BY <1>2 DEF Counts
<1>4. Clients \subseteq Hosts
  BY DEF Hosts, Gate!Addresses
<1>5. CASE Gate!Untrusted = {}
  <2>1. sent' = sent /\ served' = served
    BY <1>5 DEF Gate!CountTrue
  <2>2. \A c \in Clients : counter'[c] = counter[c]
    BY <1>5, <1>2, <1>3, <1>4 DEF Counts
  <2> QED BY <2>1, <2>2, <1>1, <1>3 DEF Counts
<1>6. CASE Gate!Untrusted # {}
  <2>1. /\ sent' = [sent EXCEPT ![clientIP] = @ + 1]
        /\ served' = [served EXCEPT ![clientIP] = @ + 1]
    BY <1>6, <1>2 DEF Gate!CountTrue
  <2>2. sent' \in [Hosts -> Nat] /\ served' \in [Hosts -> Nat]
    BY <2>1, <1>2 DEF Counts
  <2>3. ASSUME NEW c \in Clients
        PROVE  /\ served'[c] <= counter'[c] /\ served'[c] <= Limit /\ counter'[c] <= sent'[c]
               /\ c \in refused' => sent'[c] > Limit
    <3>1. /\ served[c] \in Nat /\ counter[c] \in Nat /\ sent[c] \in Nat
          /\ served[c] <= counter[c] /\ served[c] <= Limit /\ counter[c] <= sent[c]
          /\ c \in refused => sent[c] > Limit
      BY <1>4 DEF Counts
    <3>2. CASE c = clientIP
      <4>1. served'[c] = served[c] + 1 /\ counter'[c] = counter[c] + 1 /\ sent'[c] = sent[c] + 1
        BY <3>2, <2>1, <1>3, <1>2 DEF Counts
      <4> QED BY <4>1, <3>1, <3>2, <1>1 DEF GateConstants
    <3>3. CASE c # clientIP
      <4>1. served'[c] = served[c] /\ counter'[c] = counter[c] /\ sent'[c] = sent[c]
        BY <3>3, <2>1, <1>3, <1>4 DEF Counts
      <4> QED BY <4>1, <3>1, <1>1
    <3> QED BY <3>2, <3>3
  <2> QED BY <2>2, <2>3, <1>3 DEF Counts
<1> QED BY <1>5, <1>6

\* What Refuse and a failing Increment have in common: the request is counted, if
\* at all, for the one that sent it, and does not go on.
LEMMA TurnedAwayCounts ==
  ASSUME GateConstants, Way, Identity, Counts, stage = "resolved",
         counter' \in {counter, [counter EXCEPT ![clientIP] = @ + 1]},
         sent' = Gate!CountTrue(sent), served' = served,
         \A c \in Clients : c \in refused' => c \in refused \/ (c = clientIP /\ counter[c] + 1 > Limit)
  PROVE  Counts'
<1>2. /\ clientIP \in Hosts
      /\ IF Gate!Untrusted = {} THEN clientIP \notin Clients
         ELSE clientIP \in Clients /\ clientIP = Gate!TrueClient
  BY CountedFor
<1>3. counter' \in [Hosts -> Nat]
  BY <1>2 DEF Counts
<1>4. Clients \subseteq Hosts
  BY DEF Hosts, Gate!Addresses
<1>5. CASE Gate!Untrusted = {}
  <2>1. sent' = sent
    BY <1>5 DEF Gate!CountTrue
  <2>2. \A c \in Clients : counter'[c] = counter[c]
    BY <1>5, <1>2, <1>4 DEF Counts
  <2>3. \A c \in Clients : c \in refused' => c \in refused
    BY <1>5, <1>2
  <2> QED BY <2>1, <2>2, <2>3, <1>3 DEF Counts
<1>6. CASE Gate!Untrusted # {}
  <2>1. sent' = [sent EXCEPT ![clientIP] = @ + 1]
    BY <1>6, <1>2 DEF Gate!CountTrue
  <2>2. sent' \in [Hosts -> Nat]
    BY <2>1, <1>2 DEF Counts
  <2>3. ASSUME NEW c \in Clients
        PROVE  /\ served'[c] <= counter'[c] /\ served'[c] <= Limit /\ counter'[c] <= sent'[c]
               /\ c \in refused' => sent'[c] > Limit
    <3>1. /\ served[c] \in Nat /\ counter[c] \in Nat /\ sent[c] \in Nat
          /\ served[c] <= counter[c] /\ served[c] <= Limit /\ counter[c] <= sent[c]
          /\ c \in refused => sent[c] > Limit
      BY <1>4 DEF Counts
    <3>2. CASE c = clientIP
      <4>1. counter'[c] \in {counter[c], counter[c] + 1} /\ sent'[c] = sent[c] + 1
        BY <3>2, <2>1, <1>2 DEF Counts
      <4>2. c \in refused' => sent[c] > Limit \/ counter[c] + 1 > Limit
        BY <3>1
      <4> QED BY <4>1, <4>2, <3>1 DEF GateConstants
    <3>3. CASE c # clientIP
      <4>1. counter'[c] = counter[c] /\ sent'[c] = sent[c]
        BY <3>3, <2>1, <1>4, <1>2 DEF Counts
      <4>2. c \in refused' => c \in refused
        BY <3>3
      <4> QED BY <4>1, <4>2, <3>1
    <3> QED BY <3>2, <3>3
  <2> QED BY <2>2, <2>3, <1>3 DEF Counts
<1> QED BY <1>5, <1>6

LEMMA RefuseCounts ==
  ASSUME GateConstants, Way, Identity, Counts, Gate!Refuse
  PROVE  Counts'
<1> USE DEF Gate!Refuse
<1>1. stage = "resolved" /\ ~(counter[clientIP] + 1 <= Limit)
  BY DEF Gate!Within
<1>2. /\ clientIP \in Hosts
      /\ IF Gate!Untrusted = {} THEN clientIP \notin Clients
         ELSE clientIP \in Clients /\ clientIP = Gate!TrueClient
  BY <1>1, CountedFor
<1>3. counter[clientIP] + 1 > Limit
  BY <1>1, <1>2 DEF Counts, GateConstants
<1>4. ASSUME NEW c \in Clients, c \in refused'
      PROVE  c \in refused \/ (c = clientIP /\ counter[c] + 1 > Limit)
  BY <1>2, <1>3, <1>4
<1> QED BY <1>1, <1>4, TurnedAwayCounts

LEMMA GateStep ==
  ASSUME GateConstants, GateInv, [Gate!Next]_(Gate!vars)
  PROVE  GateInv'
<1>1. CASE UNCHANGED Gate!vars
  BY <1>1 DEF Gate!vars, GateInv, Way, Header, Identity, Counts, Forged, Entries,
              Gate!Untrusted, Gate!TrueClient
<1>2. CASE Gate!Next
  <2>1. split' = split \/ split' = (split \/ (Gate!isTrusted(Gate!Last(path)) /\ Len(lines) > 1))
    BY <1>2 DEF Gate!Next, Gate!Start, Gate!Forward, Gate!AllowHost, Gate!RefuseHost,
                Gate!ResolveClient, Gate!Serve, Gate!Refuse, Gate!CountFails, Gate!NewPeriod
  <2>2. split' \in BOOLEAN /\ (split' = FALSE => split = FALSE)
    BY <2>1 DEF GateInv
  <2>3. SUFFICES ASSUME split' = FALSE, Way, Header, Identity, Counts
                 PROVE  Way' /\ Header' /\ Identity' /\ Counts'
    BY <2>2 DEF GateInv
  <2>4. ASSUME stage' # "resolved" PROVE Identity'
    BY <2>4 DEF Identity
  <2>5. ASSUME stage' \in {"none", "resolved"} PROVE Header'
    BY <2>5 DEF Header
  <2>6. ASSUME stage' = "none" PROVE Way' /\ Header' /\ Identity'
    BY <2>6 DEF Way, Header, Identity
  <2>7. ASSUME UNCHANGED <<counter, sent, served, refused>> PROVE Counts'
    BY <2>3, <2>7 DEF Counts
  <2>8. ASSUME NEW a \in Hosts, Gate!Start(a) PROVE Way' /\ Header' /\ Identity' /\ Counts'
    <3>1. stage' = "underway" /\ UNCHANGED <<counter, sent, served, refused>>
      BY <2>8 DEF Gate!Start
    <3> QED BY <3>1, <2>4, <2>7, <2>8, StartHeader
  <2>9. ASSUME NEW a \in Hosts, Gate!Forward(a) PROVE Way' /\ Header' /\ Identity' /\ Counts'
    <3>1. stage' = "underway" /\ UNCHANGED <<counter, sent, served, refused>>
      BY <2>9 DEF Gate!Forward
    <3> QED BY <3>1, <2>3, <2>4, <2>7, <2>9, ForwardHeader
  <2>10. CASE Gate!AllowHost
    <3>1. stage = "underway" /\ stage' = "allowed" /\ UNCHANGED <<lines, path>>
          /\ UNCHANGED <<counter, sent, served, refused>>
      BY <2>10 DEF Gate!AllowHost
    <3>2. Way' /\ Header'
      BY <3>1, <2>3 DEF Way, Header, Forged, Entries
    <3> QED BY <3>1, <3>2, <2>4, <2>7
  <2>11. CASE Gate!RefuseHost
    BY <2>11, <2>6, <2>7 DEF Gate!RefuseHost, Gate!Done
  <2>12. CASE Gate!ResolveClient
    <3>1. stage' = "resolved" /\ UNCHANGED <<counter, sent, served, refused>>
      BY <2>12 DEF Gate!ResolveClient
    <3> QED BY <3>1, <2>3, <2>5, <2>7, <2>12, ResolveIdentity
  <2>13. CASE Gate!Serve
    <3>1. stage' = "none"
      BY <2>13 DEF Gate!Serve, Gate!Done
    <3> QED BY <3>1, <2>3, <2>6, <2>13, ServeCounts
  <2>14. CASE Gate!Refuse
    <3>1. stage' = "none"
      BY <2>14 DEF Gate!Refuse, Gate!Done
    <3> QED BY <3>1, <2>3, <2>6, <2>14, RefuseCounts
  <2>15. CASE Gate!CountFails
    <3>1. stage' = "none" /\ stage = "resolved" /\ refused' = refused /\ served' = served
      BY <2>15 DEF Gate!CountFails, Gate!Done
    <3>2. /\ counter' \in {counter, [counter EXCEPT ![clientIP] = @ + 1]}
          /\ sent' = Gate!CountTrue(sent)
      BY <2>15 DEF Gate!CountFails
    <3>3. Counts'
      BY <3>1, <3>2, <2>3, TurnedAwayCounts
    <3> QED BY <3>1, <3>3, <2>6
  <2>16. CASE Gate!NewPeriod
    <3>1. stage' = "none"
      BY <2>16 DEF Gate!NewPeriod
    <3>2. /\ counter' = [a \in Hosts |-> 0] /\ sent' = [a \in Hosts |-> 0]
          /\ served' = [a \in Hosts |-> 0] /\ refused' = {}
      BY <2>16 DEF Gate!NewPeriod, Gate!Zero, Hosts
    <3>3. Counts'
      BY <3>2 DEF Counts, GateConstants, Hosts, Gate!Addresses
    <3> QED BY <3>1, <3>3, <2>6
  <2> QED BY <1>2, <2>8, <2>9, <2>10, <2>11, <2>12, <2>13, <2>14, <2>15, <2>16
          DEF Gate!Next, Hosts
<1> QED BY <1>1, <1>2

\* As long as no trusted peer passes on a header of several lines, the rate limit
\* holds for the host that really sent the requests, whatever entries it put into
\* X-Forwarded-For and however many trusted proxies pass them on, and a client is
\* refused on account of its own requests only: trustedproxy's resolveClientIP
\* with ratelimit's counter, for any hosts, limit and paths.
THEOREM ClientsOwnLimit ==
  ASSUME GateConstants
  PROVE  Gate!Spec => []LimitPerClient
<1>1. Gate!Init => GateInv
  <2> SUFFICES ASSUME Gate!Init PROVE GateInv
    OBVIOUS
  <2>1. split \in BOOLEAN /\ stage = "none"
    BY DEF Gate!Init
  <2>2. /\ counter = [a \in Hosts |-> 0] /\ sent = [a \in Hosts |-> 0]
        /\ served = [a \in Hosts |-> 0] /\ refused = {}
    BY DEF Gate!Init, Gate!Zero, Hosts
  <2>3. Counts
    BY <2>2 DEF Counts, GateConstants, Hosts, Gate!Addresses
  <2> QED BY <2>1, <2>3 DEF GateInv, Way, Header, Identity
<1>2. GateInv /\ [Gate!Next]_(Gate!vars) => GateInv'
  BY GateStep
<1>3. GateInv => Gate!LimitPerClient
  <2> SUFFICES ASSUME GateInv, ~split PROVE Gate!LimitPerClient
    BY DEF Gate!LimitPerClient
  <2>1. split = FALSE
    BY DEF GateInv
  <2>2. Counts
    BY <2>1 DEF GateInv
  <2>3. \A c \in Clients : served[c] <= Limit /\ (c \in refused => sent[c] > Limit)
    BY <2>2 DEF Counts
  <2> QED BY <2>3 DEF Gate!LimitPerClient
<1> QED BY <1>1, <1>2, <1>3, PTL DEF Gate!Spec, LimitPerClient

-----------------------------------------------------------------------------
(* Scheduler: schedules run as their Intervals say                           *)

\* There are schedules, with names of their own; a second is a whole number of
\* units, and what counts as late is less than one.
SchedConstants ==
  /\ Schedules \in Seq(Sched!Names) /\ Schedules # <<>>
  /\ \A i, j \in DOMAIN Schedules : Schedules[i] = Schedules[j] => i = j
  /\ Interval \in [Sched!Names -> Nat]
  /\ Second \in Nat \ {0} /\ Jitter \in Nat /\ Jitter < Second /\ MaxClock \in Nat

Names == Sched!Names

TurnTypes ==
  \/ turn = Sched!Waiting
  \/ turn \in [at : 1 .. Len(Schedules), pc : {"look", "enqueue"}] /\ tickTime # 0

SchedTypes ==
  /\ clock \in Nat /\ due \in Nat /\ due <= clock + Second /\ Second <= due
  /\ ticked \in 0 .. clock /\ tickTime \in 0 .. clock /\ TurnTypes
  /\ nextRun \in [Names -> Nat] /\ called \in [Names -> Nat]
  /\ calls \in [Names -> Nat] /\ enqueued \in [Names -> Nat]
  /\ slow \in BOOLEAN /\ tooSoon \in BOOLEAN /\ restarts \in Nat /\ scheduleFaults \in Nat

\* The time that the calls of s so far take up, one free with each restart.
Taken(s) == (calls[s] - restarts) * Interval[s]

\* The next run of s is after them, and with none set, every tick to come is.
Rate(s) ==
  /\ calls[s] > 0 => Taken(s) + Second <= clock + Interval[s]
  /\ nextRun[s] # 0 => Taken(s) + Second <= nextRun[s] /\ nextRun[s] <= clock + Interval[s]
  /\ nextRun[s] = 0 =>
       /\ Taken(s) + Second <= due
       /\ ticked # 0 => Taken(s) + Second <= ticked
       /\ turn # Sched!Waiting => Taken(s) + Second <= tickTime

\* Every call is accepted or a fault, but the one under way.
Lost(s) ==
  calls[s] - enqueued[s] <=
    scheduleFaults + (IF turn.pc = "enqueue" /\ s = Sched!Sched THEN 1 ELSE 0)

\* This tick is done with schedule s.
Served(i) == i < turn.at \/ (i = turn.at /\ turn.pc = "enqueue")
DoneNow(s) == turn = Sched!Waiting \/ \E i \in DOMAIN Schedules : Schedules[i] = s /\ Served(i)

\* Each call of s has a tick of its own, and a tick that is not done with s may
\* have one: they are a second apart.
Ticks(s) == calls[s] + (IF ticked # 0 THEN 1 ELSE 0) + (IF DoneNow(s) THEN 0 ELSE 1)
Once(s) == Ticks(s) * Second + Second <= due

\* The most time from one call of s to the next, in whole seconds.
Gap(s) == Sched!TicksApart(s) * Second

\* When the last tick that Run took was due: the one before the one in the
\* channel.
Base == due - Second - (IF ticked # 0 THEN Second ELSE 0)

\* The next run of s is never later than a Gap after its last one, and not
\* earlier than the ticks that are done with s.
Punctual(s) ==
  /\ nextRun[s] # 0 => nextRun[s] <= calls[s] * Gap(s) + Second
  /\ Base <= calls[s] * Gap(s) + (IF DoneNow(s) THEN 0 ELSE Second)

\* No tick was late, and every one was done before the next.
InTime == slow = FALSE /\ restarts = 0

OneTickOf(t) == due - Second <= t /\ t <= due - Second + Jitter

AtTheTick ==
  /\ \E m \in Nat : due = m * Second + Second
  /\ ticked # 0 => turn = Sched!Waiting /\ OneTickOf(ticked)
  /\ ticked = 0 => tickTime = 0 \/ OneTickOf(tickTime)

OnTime == InTime => AtTheTick /\ \A s \in Names : Punctual(s)

SchedInv == SchedTypes /\ (\A s \in Names : Rate(s) /\ Lost(s) /\ Once(s)) /\ OnTime

LEMMA DivisionBounds ==
  ASSUME NEW y \in Nat, NEW i \in Nat \ {0}
  PROVE  (y \div i) \in Nat /\ (y \div i) * i <= y /\ y < (y \div i) * i + i
OBVIOUS

LEMMA ProductOfNats ==
  ASSUME NEW a \in Nat, NEW i \in Nat
  PROVE  a * i \in Nat
OBVIOUS

LEMMA OneMoreTimes ==
  ASSUME NEW x \in Int, NEW i \in Int
  PROVE  (x + 1) * i = x * i + i /\ (x - 1) * i = x * i - i /\ x * i \in Int
OBVIOUS

LEMMA TimesMonotone ==
  ASSUME NEW x \in Int, NEW y \in Int, NEW i \in Nat, x <= y
  PROVE  x * i <= y * i /\ x * i \in Int /\ y * i \in Int
<1> DEFINE a == y - x
<1>1. a \in Nat /\ a * i = y * i - x * i
  OBVIOUS
<1> HIDE DEF a
<1>2. a * i \in Nat
  BY <1>1, ProductOfNats
<1> QED BY <1>1, <1>2

LEMMA CancelProduct ==
  ASSUME NEW x \in Int, NEW q \in Int, NEW i \in Nat \ {0}, x * i < q * i + i
  PROVE  x <= q
<1> SUFFICES ASSUME x > q PROVE FALSE
  OBVIOUS
<1> DEFINE a == x - q - 1
<1>1. a \in Nat
  OBVIOUS
<1>2. a * i = x * i - q * i - i
  OBVIOUS
<1> HIDE DEF a
<1>3. a * i \in Nat
  BY <1>1, ProductOfNats
<1> QED BY <1>2, <1>3

LEMMA ProductsAssociate ==
  ASSUME NEW x \in Int, NEW y \in Int, NEW z \in Int
  PROVE  x * (y * z) = (x * y) * z /\ x * y \in Int
OBVIOUS

\* A Gap is a whole number of seconds, one at least, and covers the Interval and
\* a tick's lateness.
LEMMA GapCovers ==
  ASSUME SchedConstants, NEW s \in Names
  PROVE  /\ Sched!TicksApart(s) \in Nat /\ Gap(s) \in Nat
         /\ Second <= Gap(s) /\ Interval[s] + Jitter <= Gap(s)
<1> DEFINE y == Interval[s] + Jitter
           g == (y + Second - 1) \div Second
<1>1. y \in Nat /\ Second \in Nat \ {0}
  BY DEF SchedConstants, Names
<1>2. Sched!TicksApart(s) = IF y = 0 THEN 1 ELSE g
  BY DEF Sched!TicksApart
<1> HIDE DEF y
<1>3. CASE y = 0
  BY <1>1, <1>2, <1>3 DEF Gap, y
<1>4. CASE y # 0
  <2>1. y + Second - 1 \in Nat
    BY <1>1
  <2>2. g \in Nat /\ g * Second <= y + Second - 1 /\ y + Second - 1 < g * Second + Second
    BY <1>1, <2>1, DivisionBounds
  <2>3. g * Second \in Nat
    BY <1>1, <2>2, ProductOfNats
  <2> HIDE DEF g
  <2>4. y <= g * Second
    BY <1>1, <2>2, <2>3
  <2>5. g # 0
    BY <1>1, <1>4, <2>4
  <2>6. 1 * Second <= g * Second
    BY <1>1, <2>2, <2>5, TimesMonotone
  <2> QED BY <1>1, <1>2, <1>4, <2>2, <2>3, <2>4, <2>6 DEF Gap, y
<1> QED BY <1>3, <1>4

\* The invariant says what KeepsInterval does.
LEMMA IntervalFollows ==
  ASSUME SchedConstants, SchedInv
  PROVE  Sched!KeepsInterval
<1> SUFFICES ASSUME NEW s \in Names
             PROVE  /\ calls[s] > 0 =>
                         (calls[s] - 1 - restarts) * Interval[s] <= clock - Second
                    /\ calls[s] * Second <= clock
                    /\ ~slow /\ restarts = 0 /\ turn = Sched!Waiting /\ ticked = 0
                         => due - Second <= calls[s] * (Sched!TicksApart(s) * Second)
                    /\ turn = Sched!Waiting => calls[s] - enqueued[s] <= scheduleFaults
  BY DEF Sched!KeepsInterval, Names
<1>1. /\ SchedTypes /\ Rate(s) /\ Lost(s) /\ Once(s) /\ OnTime
      /\ calls[s] \in Nat /\ restarts \in Nat /\ clock \in Nat /\ due \in Nat
      /\ due <= clock + Second /\ Second \in Nat \ {0} /\ Interval[s] \in Nat
      /\ enqueued[s] \in Nat /\ scheduleFaults \in Nat
  BY DEF SchedInv, SchedTypes, SchedConstants, Names
<1>2. ASSUME calls[s] > 0
      PROVE  (calls[s] - 1 - restarts) * Interval[s] <= clock - Second
  <2> DEFINE x == calls[s] - restarts
             i == Interval[s]
  <2>1. x \in Int /\ i \in Nat /\ x * i + Second <= clock + i /\ calls[s] - 1 - restarts = x - 1
    BY <1>1, <1>2 DEF Rate, Taken
  <2> HIDE DEF x, i
  <2>2. (x - 1) * i = x * i - i /\ x * i \in Int
    BY <2>1, OneMoreTimes
  <2>3. (x - 1) * i <= clock - Second
    BY <1>1, <2>1, <2>2
  <2> QED BY <2>1, <2>3 DEF i
<1>3. calls[s] * Second <= clock
  <2>1. Ticks(s) \in Nat /\ calls[s] <= Ticks(s)
    BY <1>1 DEF Ticks
  <2>2. calls[s] * Second <= Ticks(s) * Second /\ calls[s] * Second \in Int
        /\ Ticks(s) * Second \in Int
    BY <1>1, <2>1, TimesMonotone
  <2> QED BY <1>1, <2>2 DEF Once
<1>4. ASSUME ~slow, restarts = 0, turn = Sched!Waiting, ticked = 0
      PROVE  due - Second <= calls[s] * (Sched!TicksApart(s) * Second)
  <2>1. InTime /\ DoneNow(s)
    BY <1>1, <1>4 DEF InTime, DoneNow, SchedTypes
  <2>2. due - Second - 0 <= calls[s] * Gap(s) + 0
    BY <1>1, <1>4, <2>1 DEF OnTime, Punctual, Base
  <2>3. calls[s] * Gap(s) \in Nat
    BY <1>1, GapCovers, ProductOfNats
  <2> QED BY <1>1, <2>2, <2>3 DEF Gap
<1>5. ASSUME turn = Sched!Waiting PROVE calls[s] - enqueued[s] <= scheduleFaults
  BY <1>1, <1>5 DEF Lost, Sched!Waiting
<1> QED BY <1>2, <1>3, <1>4, <1>5

\* While a tick is under way, Run is at one of the schedules; what comes next.
LEMMA AtASchedule ==
  ASSUME SchedConstants, SchedTypes, turn.pc \in {"look", "enqueue"}
  PROVE  /\ turn \in [at : 1 .. Len(Schedules), pc : {"look", "enqueue"}]
         /\ turn # Sched!Waiting /\ tickTime # 0
         /\ Len(Schedules) \in Nat /\ DOMAIN Schedules = 1 .. Len(Schedules)
         /\ Sched!Sched \in Names
         /\ Sched!NextTurn = Sched!Waiting \/
              Sched!NextTurn \in [at : 1 .. Len(Schedules), pc : {"look", "enqueue"}]
<1>1. turn # Sched!Waiting
  BY DEF Sched!Waiting
<1>2. turn \in [at : 1 .. Len(Schedules), pc : {"look", "enqueue"}] /\ tickTime # 0
  BY <1>1 DEF SchedTypes, TurnTypes
<1>3. Len(Schedules) \in Nat /\ DOMAIN Schedules = 1 .. Len(Schedules)
  BY LenProperties DEF SchedConstants
<1>4. turn.at \in 1 .. Len(Schedules)
  BY <1>2
<1>5. Sched!Sched \in Names
  BY <1>3, <1>4 DEF Sched!Sched, Names, Sched!Names
<1>6. Sched!NextTurn = Sched!Waiting \/
        Sched!NextTurn \in [at : 1 .. Len(Schedules), pc : {"look", "enqueue"}]
  BY <1>3, <1>4 DEF Sched!NextTurn
<1> QED BY <1>1, <1>2, <1>3, <1>5, <1>6

\* The next tick is due a second after this one at least, and after now.
LEMMA FireDue ==
  ASSUME SchedConstants, SchedTypes, Sched!Fire
  PROVE  /\ due' \in Nat /\ due' >= due + Second /\ due' <= clock + Second /\ clock < due'
         /\ \E n \in Nat : due' = due + n * Second
<1>1. PICK n \in 1 .. MaxClock : due' = due + n * Second /\ clock < due' /\ due' <= clock + Second
  BY DEF Sched!Fire
<1>2. n \in Nat /\ 1 <= n /\ Second \in Nat \ {0} /\ due \in Nat /\ clock \in Nat
  BY DEF SchedConstants, SchedTypes
<1>3. 1 * Second <= n * Second /\ n * Second \in Nat
  BY <1>2, TimesMonotone, ProductOfNats
<1> QED BY <1>1, <1>2, <1>3

LEMMA SchedTypesStep ==
  ASSUME SchedConstants, SchedTypes, Sched!Next
  PROVE  SchedTypes'
<1>0. Second \in Nat \ {0}
  BY DEF SchedConstants
<1>d. Sched!Fire => due' \in Nat /\ due' >= due + Second /\ due' <= clock + Second
  BY FireDue
<1> USE DEF SchedTypes
<1>1. CASE Sched!Pass
  <2> USE <1>1 DEF Sched!Pass
  <2>1. clock' \in Nat /\ due' <= clock' + Second /\ ticked' \in 0 .. clock' /\ tickTime' \in 0 .. clock'
    BY <1>0
  <2>2. TurnTypes'
    BY DEF TurnTypes, Sched!Waiting
  <2> QED BY <2>1, <2>2
<1>2. CASE Sched!Fire
  <2> USE <1>2 DEF Sched!Fire
  <2>1. ticked' \in 0 .. clock'
    OBVIOUS
  <2>2. due' \in Nat /\ due' <= clock' + Second /\ Second <= due'
    <3>1. due' \in Nat /\ due' >= due + Second /\ due' <= clock + Second /\ clock' = clock
      BY ONLY <1>2, <1>d DEF Sched!Fire
    <3> QED BY <3>1, <1>0
  <2>3. TurnTypes' /\ slow' \in BOOLEAN
    BY DEF TurnTypes, Sched!Waiting
  <2> QED BY <2>1, <2>2, <2>3
<1>3. CASE Sched!TakeTick
  <2> USE <1>3 DEF Sched!TakeTick
  <2>1. Len(Schedules) \in Nat /\ Len(Schedules) >= 1
    BY EmptySeq DEF SchedConstants
  <2>2. TurnTypes'
    BY <2>1 DEF TurnTypes
  <2> QED BY <2>2
<1>4. CASE Sched!CallEnqueue
  <2> USE <1>4 DEF Sched!CallEnqueue
  <2>1. /\ turn \in [at : 1 .. Len(Schedules), pc : {"look", "enqueue"}]
        /\ tickTime # 0 /\ Sched!Sched \in Names
    BY AtASchedule
  <2>2. TurnTypes'
    BY <2>1 DEF TurnTypes
  <2>3. tickTime + Interval[Sched!Sched] \in Nat /\ calls[Sched!Sched] + 1 \in Nat
    <3>1. Interval[Sched!Sched] \in Nat
      BY <2>1 DEF SchedConstants, Names
    <3>2. tickTime \in Nat /\ calls[Sched!Sched] \in Nat
      BY <2>1
    <3> QED BY <3>1, <3>2
  <2>4. nextRun' \in [Names -> Nat] /\ called' \in [Names -> Nat] /\ calls' \in [Names -> Nat]
    BY <2>3
  <2>5. tooSoon' \in BOOLEAN
    OBVIOUS
  <2> QED BY <2>2, <2>4, <2>5
<1>5. ASSUME turn.pc \in {"look", "enqueue"}, turn' = Sched!NextTurn, tickTime' = tickTime
      PROVE  TurnTypes'
  BY <1>5, AtASchedule DEF TurnTypes, Sched!Waiting
<1>6. CASE Sched!NotDue
  BY <1>5, <1>6 DEF Sched!NotDue
<1>7. CASE Sched!EnqueueOk
  <2> USE <1>7 DEF Sched!EnqueueOk
  <2>1. enqueued' \in [Names -> Nat]
    BY AtASchedule
  <2> QED BY <1>5, <2>1
<1>8. CASE Sched!EnqueueFails
  <2>1. scheduleFaults' \in Nat
    BY <1>8 DEF Sched!EnqueueFails, Sched!Fault
  <2> QED BY <1>5, <1>8, <2>1 DEF Sched!EnqueueFails
<1>9. CASE Sched!Restart
  <2> USE <1>9 DEF Sched!Restart
  <2>1. scheduleFaults' \in Nat
    BY DEF Sched!Fault
  <2>2. TurnTypes' /\ nextRun' \in [Names -> Nat]
    BY DEF TurnTypes, Sched!Zeros, Names, Sched!Waiting
  <2>3. due' \in Nat /\ due' <= clock' + Second /\ Second <= due'
    BY <1>0
  <2> QED BY <2>1, <2>2, <2>3
<1> QED BY <1>1, <1>2, <1>3, <1>4, <1>6, <1>7, <1>8, <1>9 DEF Sched!Next

LEMMA RateStep ==
  ASSUME SchedConstants, SchedTypes, SchedTypes', Sched!Next, NEW s \in Names, Rate(s)
  PROVE  Rate(s)'
<1> DEFINE i == Interval[s]
           x == calls[s] - restarts
<1>1. /\ i \in Nat /\ x \in Int /\ calls[s] \in Nat /\ restarts \in Nat
      /\ Second \in Nat \ {0}
  <2>1. Interval \in [Names -> Nat] /\ Second \in Nat \ {0}
    BY DEF SchedConstants, Names
  <2>2. calls \in [Names -> Nat] /\ restarts \in Nat
    BY DEF SchedTypes
  <2> QED BY <2>1, <2>2
<1>2. Taken(s) \in Int /\ Taken(s) = x * i /\ (x + 1) * i = x * i + i /\ (x - 1) * i = x * i - i
  <2>1. Taken(s) = x * i
    BY DEF Taken
  <2> HIDE DEF x, i
  <2> QED BY <2>1, <1>1, OneMoreTimes
<1>3. ASSUME calls'[s] = calls[s], restarts' = restarts PROVE Taken(s)' = Taken(s)
  BY <1>3 DEF Taken
<1>4. /\ nextRun[s] \in Nat /\ clock \in Nat /\ due \in Nat /\ due <= clock + Second
      /\ ticked \in 0 .. clock /\ tickTime \in 0 .. clock
      /\ nextRun \in [Names -> Nat] /\ calls \in [Names -> Nat]
  BY DEF SchedTypes
<1>5. (Sched!Waiting)' = Sched!Waiting
  BY DEF Sched!Waiting
<1>6. /\ calls[s] > 0 => Taken(s) + Second <= clock + i
      /\ nextRun[s] # 0 => Taken(s) + Second <= nextRun[s] /\ nextRun[s] <= clock + i
      /\ nextRun[s] = 0 =>
           /\ Taken(s) + Second <= due
           /\ ticked # 0 => Taken(s) + Second <= ticked
           /\ turn # Sched!Waiting => Taken(s) + Second <= tickTime
  BY DEF Rate
<1>7. ASSUME calls'[s] = calls[s], restarts' = restarts, nextRun'[s] = nextRun[s],
             clock' \in Nat, clock' >= clock, due' \in Nat, due' >= due,
             ticked' = ticked \/ ticked' = 0 \/ (due <= ticked' /\ ticked' \in Nat),
             \/ turn' = Sched!Waiting
             \/ turn # Sched!Waiting /\ tickTime' = tickTime
             \/ ticked # 0 /\ tickTime' = ticked
      PROVE  Rate(s)'
  <2>1. Taken(s)' = Taken(s)
    BY <1>3, <1>7
  <2> HIDE DEF x
  <2>2. calls'[s] > 0 => Taken(s) + Second <= clock' + i
    BY <1>1, <1>2, <1>4, <1>6, <1>7
  <2>3. nextRun'[s] # 0 => Taken(s) + Second <= nextRun'[s] /\ nextRun'[s] <= clock' + i
    BY <1>1, <1>4, <1>6, <1>7
  <2>4. nextRun'[s] = 0 => Taken(s) + Second <= due'
    BY <1>1, <1>2, <1>4, <1>6, <1>7
  <2>5. nextRun'[s] = 0 /\ ticked' # 0 => Taken(s) + Second <= ticked'
    BY <1>1, <1>2, <1>4, <1>6, <1>7
  <2>6. nextRun'[s] = 0 /\ turn' # Sched!Waiting => Taken(s) + Second <= tickTime'
    BY <1>6, <1>7
  <2> QED BY <2>1, <2>2, <2>3, <2>4, <2>5, <2>6, <1>5 DEF Rate
<1>8. CASE Sched!Pass
  <2>1. /\ calls' = calls /\ restarts' = restarts /\ nextRun' = nextRun /\ clock' = clock + 1
        /\ due' = due /\ ticked' = ticked /\ tickTime' = tickTime /\ turn' = turn
    BY <1>8 DEF Sched!Pass
  <2> QED BY <2>1, <1>4, <1>7
<1>9. CASE Sched!Fire
  <2>1. /\ calls' = calls /\ restarts' = restarts /\ nextRun' = nextRun /\ clock' = clock
        /\ tickTime' = tickTime /\ turn' = turn
        /\ \E t \in due .. clock : ticked' = IF ticked = 0 THEN t ELSE ticked
    BY <1>9 DEF Sched!Fire
  <2>2. ticked' = ticked \/ (due <= ticked' /\ ticked' \in Nat)
    BY <2>1, <1>4
  <2>3. due' \in Nat /\ due' >= due
    BY <1>9, <1>1, <1>4, FireDue
  <2> QED BY <2>1, <2>2, <2>3, <1>4, <1>7
<1>10. CASE Sched!TakeTick
  <2>1. /\ calls' = calls /\ restarts' = restarts /\ nextRun' = nextRun /\ clock' = clock
        /\ due' = due /\ ticked # 0 /\ ticked' = 0 /\ tickTime' = ticked
    BY <1>10 DEF Sched!TakeTick
  <2> QED BY <2>1, <1>4, <1>7
<1>11. CASE Sched!CallEnqueue
  <2>1. Sched!Sched \in Names /\ turn # Sched!Waiting
    BY <1>11, AtASchedule DEF Sched!CallEnqueue
  <2>2. /\ restarts' = restarts /\ clock' = clock /\ due' = due /\ ticked' = ticked
        /\ tickTime' = tickTime
        /\ nextRun' = [nextRun EXCEPT ![Sched!Sched] = tickTime + Interval[Sched!Sched]]
        /\ calls' = [calls EXCEPT ![Sched!Sched] = @ + 1]
        /\ nextRun[Sched!Sched] = 0 \/ tickTime >= nextRun[Sched!Sched]
    BY <1>11 DEF Sched!CallEnqueue, Sched!Due
  <2>3. CASE s # Sched!Sched
    <3>1. calls'[s] = calls[s] /\ nextRun'[s] = nextRun[s]
      BY <2>2, <2>3, <1>4
    <3> QED BY <3>1, <2>2, <2>1, <1>4, <1>7
  <2>4. CASE s = Sched!Sched
    <3>1. calls'[s] = calls[s] + 1 /\ nextRun'[s] = tickTime + i /\ tickTime # 0
      <4>1. tickTime # 0
        BY <1>11, AtASchedule DEF Sched!CallEnqueue
      <4> QED BY <2>1, <2>2, <2>4, <1>4, <4>1
    <3>2. Taken(s) + Second <= tickTime
      <4> HIDE DEF i, x
      <4> QED BY <2>1, <2>2, <2>4, <1>1, <1>2, <1>4, <1>6
    <3>3. Taken(s)' = Taken(s) + i
      <4>1. calls'[s] - restarts' = x + 1
        BY <3>1, <2>2, <1>1
      <4>2. Taken(s)' = (x + 1) * i
        BY <4>1 DEF Taken
      <4> QED BY <4>2, <1>2
    <3>4. /\ Taken(s)' + Second <= nextRun'[s] /\ nextRun'[s] <= clock' + i /\ nextRun'[s] # 0
          /\ Taken(s)' + Second <= clock' + i
      <4> HIDE DEF i, x
      <4> QED BY <3>1, <3>2, <3>3, <2>2, <1>1, <1>2, <1>4
    <3> QED BY <3>4 DEF Rate
  <2> QED BY <2>3, <2>4
<1>12. CASE Sched!NotDue \/ Sched!EnqueueOk \/ Sched!EnqueueFails
  <2>1. /\ calls' = calls /\ restarts' = restarts /\ nextRun' = nextRun /\ clock' = clock
        /\ due' = due /\ ticked' = ticked /\ tickTime' = tickTime /\ turn # Sched!Waiting
    BY <1>12, AtASchedule DEF Sched!NotDue, Sched!EnqueueOk, Sched!EnqueueFails
  <2> QED BY <2>1, <1>4, <1>7
<1>13. CASE Sched!Restart
  <2>1. /\ calls' = calls /\ restarts' = restarts + 1 /\ clock' = clock /\ due' = clock + Second
        /\ ticked' = 0 /\ turn' = Sched!Waiting /\ nextRun'[s] = 0
    BY <1>13 DEF Sched!Restart, Sched!Zeros, Names
  <2>2. Taken(s)' = Taken(s) - i
    <3>1. calls'[s] - restarts' = x - 1
      BY <2>1, <1>1
    <3>2. Taken(s)' = (x - 1) * i
      BY <3>1 DEF Taken
    <3> QED BY <3>2, <1>2
  <2> HIDE DEF i, x
  <2>3. calls'[s] > 0 => Taken(s)' + Second <= clock' + i
    BY <2>1, <2>2, <1>1, <1>2, <1>4, <1>6
  <2>4. Taken(s)' + Second <= due'
    <3>1. Taken(s) + Second <= clock + Second + i
      BY <1>1, <1>2, <1>4, <1>6
    <3> QED BY <2>1, <2>2, <3>1, <1>1, <1>2, <1>4
  <2> QED BY <2>1, <2>3, <2>4, <1>5 DEF Rate, i
<1> QED BY <1>8, <1>9, <1>10, <1>11, <1>12, <1>13 DEF Sched!Next

LEMMA LostStep ==
  ASSUME SchedConstants, SchedTypes, Sched!Next, NEW s \in Names, Lost(s)
  PROVE  Lost(s)'
<1> DEFINE extra == IF turn.pc = "enqueue" /\ s = Sched!Sched THEN 1 ELSE 0
<1>1. /\ calls[s] \in Nat /\ enqueued[s] \in Nat /\ scheduleFaults \in Nat /\ extra \in {0, 1}
      /\ calls[s] - enqueued[s] <= scheduleFaults + extra
      /\ calls \in [Names -> Nat] /\ enqueued \in [Names -> Nat]
  BY DEF SchedTypes, Lost
<1>2. ASSUME calls'[s] - enqueued'[s] <= scheduleFaults', scheduleFaults' \in Nat PROVE Lost(s)'
  <2>1. calls'[s] - enqueued'[s] <= scheduleFaults' + 0
    BY <1>2
  <2>2. CASE (turn.pc = "enqueue" /\ s = Sched!Sched)'
    <3>1. calls'[s] - enqueued'[s] \in Int
      BY DEF Sched!Next, Sched!Pass, Sched!Fire, Sched!TakeTick, Sched!CallEnqueue, Sched!NotDue,
             Sched!EnqueueOk, Sched!EnqueueFails, Sched!Restart, SchedTypes
    <3>2. calls'[s] - enqueued'[s] <= scheduleFaults' + 1
      BY <1>2, <3>1
    <3> QED BY <2>2, <3>2 DEF Lost
  <2> QED BY <2>1, <2>2 DEF Lost
<1>3. CASE Sched!Pass \/ Sched!Fire
  BY <1>3 DEF Sched!Pass, Sched!Fire, Lost, Sched!Sched
<1>4. CASE Sched!TakeTick
  <2>1. calls' = calls /\ enqueued' = enqueued /\ scheduleFaults' = scheduleFaults /\ extra = 0
    BY <1>4 DEF Sched!TakeTick
  <2> QED BY <2>1, <1>1, <1>2
<1>5. CASE Sched!CallEnqueue
  <2>1. Sched!Sched \in Names /\ turn \in [at : 1 .. Len(Schedules), pc : {"look", "enqueue"}]
    BY <1>5, AtASchedule DEF Sched!CallEnqueue
  <2>2. /\ extra = 0 /\ enqueued' = enqueued /\ scheduleFaults' = scheduleFaults
        /\ calls' = [calls EXCEPT ![Sched!Sched] = @ + 1] /\ turn' = [turn EXCEPT !.pc = "enqueue"]
    BY <1>5 DEF Sched!CallEnqueue
  <2>3. turn'.pc = "enqueue" /\ turn'.at = turn.at
    BY <2>1, <2>2
  <2>4. (Sched!Sched)' = Sched!Sched
    BY <2>3 DEF Sched!Sched
  <2>5. CASE s = Sched!Sched
    <3>1. calls'[s] = calls[s] + 1
      BY <2>5, <2>2, <1>1
    <3>2. calls'[s] - enqueued'[s] <= scheduleFaults' + 1
      BY <3>1, <2>2, <1>1
    <3> QED BY <3>2, <2>3, <2>4, <2>5 DEF Lost
  <2>6. CASE s # Sched!Sched
    <3>1. calls'[s] = calls[s]
      BY <2>6, <2>2, <1>1
    <3> QED BY <3>1, <2>2, <1>1, <1>2
  <2> QED BY <2>5, <2>6
<1>6. CASE Sched!NotDue
  <2>1. calls' = calls /\ enqueued' = enqueued /\ scheduleFaults' = scheduleFaults /\ extra = 0
    BY <1>6 DEF Sched!NotDue
  <2> QED BY <2>1, <1>1, <1>2
<1>7. CASE Sched!EnqueueOk
  <2>1. /\ calls' = calls /\ scheduleFaults' = scheduleFaults /\ turn.pc = "enqueue"
        /\ enqueued' = [enqueued EXCEPT ![Sched!Sched] = @ + 1]
    BY <1>7 DEF Sched!EnqueueOk
  <2>2. enqueued'[s] = enqueued[s] + extra
    BY <2>1, <1>1
  <2>3. calls'[s] - enqueued'[s] <= scheduleFaults'
    BY <2>1, <2>2, <1>1
  <2> QED BY <2>1, <2>3, <1>1, <1>2
<1>8. CASE Sched!EnqueueFails \/ Sched!Restart
  <2>1. calls' = calls /\ enqueued' = enqueued /\ scheduleFaults' = scheduleFaults + 1
    BY <1>8 DEF Sched!EnqueueFails, Sched!Restart, Sched!Fault
  <2>2. calls'[s] - enqueued'[s] <= scheduleFaults' /\ scheduleFaults' \in Nat
    BY <2>1, <1>1
  <2> QED BY <2>2, <1>2
<1> QED BY <1>3, <1>4, <1>5, <1>6, <1>7, <1>8 DEF Sched!Next

\* A tick goes on to the next schedule, or all are done.
LEMMA DoneNext ==
  ASSUME SchedConstants, SchedTypes, turn.pc \in {"look", "enqueue"}, turn' = Sched!NextTurn,
         NEW s \in Names
  PROVE  DoneNow(s)' <=> (DoneNow(s) \/ s = Sched!Sched)
<1> DEFINE N == Len(Schedules)
           a == turn.at
<1>1. /\ turn \in [at : 1 .. N, pc : {"look", "enqueue"}] /\ turn # Sched!Waiting
      /\ N \in Nat /\ DOMAIN Schedules = 1 .. N
  BY AtASchedule
<1>2. a \in 1 .. N /\ Schedules[a] = Sched!Sched
  BY <1>1 DEF Sched!Sched
<1>3. DoneNow(s) \/ s = Sched!Sched <=> \E i \in 1 .. N : Schedules[i] = s /\ i <= a
  <2>1. DoneNow(s) <=> \E i \in 1 .. N : Schedules[i] = s /\ (i < a \/ (i = a /\ turn.pc = "enqueue"))
    BY <1>1 DEF DoneNow, Served
  <2>2. ASSUME DoneNow(s) \/ s = Sched!Sched PROVE \E i \in 1 .. N : Schedules[i] = s /\ i <= a
    BY <2>1, <2>2, <1>2
  <2>3. ASSUME NEW i \in 1 .. N, Schedules[i] = s, i <= a PROVE DoneNow(s) \/ s = Sched!Sched
    <3>1. i = a \/ i < a
      BY <2>3, <1>2
    <3> QED BY <3>1, <2>1, <2>3, <1>2
  <2> QED BY <2>2, <2>3
<1>4. (Sched!Waiting)' = Sched!Waiting
  BY DEF Sched!Waiting
<1>5. CASE a = N
  <2>1. turn' = Sched!Waiting
    BY <1>5 DEF Sched!NextTurn
  <2>2. DoneNow(s)'
    BY <2>1, <1>4 DEF DoneNow
  <2>3. PICK i \in 1 .. N : Schedules[i] = s
    BY <1>1 DEF Names, Sched!Names
  <2>4. i <= a
    BY <2>3, <1>5
  <2> QED BY <2>2, <2>3, <2>4, <1>3
<1>6. CASE a # N
  <2>1. turn' = [at |-> a + 1, pc |-> "look"] /\ turn'.at = a + 1 /\ turn'.pc = "look"
    BY <1>6 DEF Sched!NextTurn
  <2>2. turn' # Sched!Waiting
    BY <2>1 DEF Sched!Waiting
  <2>3. DoneNow(s)' <=> \E i \in 1 .. N : Schedules[i] = s /\ i < a + 1
    BY <2>1, <2>2, <1>4, <1>1 DEF DoneNow, Served
  <2>4. \A i \in 1 .. N : i < a + 1 <=> i <= a
    BY <1>2, <1>1
  <2> QED BY <2>3, <2>4, <1>3
<1> QED BY <1>5, <1>6

\* What CallEnqueue changes of a tick's progress: s is done if it is the one that
\* is called, and was not before.
LEMMA DoneByCall ==
  ASSUME SchedConstants, SchedTypes, Sched!CallEnqueue, NEW s \in Names
  PROVE  /\ DoneNow(s)' <=> (DoneNow(s) \/ s = Sched!Sched)
         /\ ~DoneNow(Sched!Sched)
<1>1. /\ turn # Sched!Waiting /\ turn.pc = "look"
      /\ turn \in [at : 1 .. Len(Schedules), pc : {"look", "enqueue"}]
      /\ DOMAIN Schedules = 1 .. Len(Schedules) /\ Len(Schedules) \in Nat
      /\ turn' = [turn EXCEPT !.pc = "enqueue"]
  BY AtASchedule DEF Sched!CallEnqueue
<1>2. /\ turn'.pc = "enqueue" /\ turn'.at = turn.at /\ turn' # Sched!Waiting
      /\ turn.at \in DOMAIN Schedules
  BY <1>1 DEF Sched!Waiting
<1>3. (Sched!Waiting)' = Sched!Waiting
  BY DEF Sched!Waiting
<1>4. \A r \in Names : DoneNow(r) <=> \E i \in DOMAIN Schedules : Schedules[i] = r /\ i < turn.at
  BY <1>1 DEF DoneNow, Served
<1>5. DoneNow(s)' <=> \E i \in DOMAIN Schedules : Schedules[i] = s /\ (i < turn.at \/ i = turn.at)
  BY <1>2, <1>3 DEF DoneNow, Served
<1>6. DoneNow(s)' <=> (DoneNow(s) \/ s = Sched!Sched)
  BY <1>2, <1>4, <1>5 DEF Sched!Sched
<1>7. ~DoneNow(Sched!Sched)
  <2>1. Sched!Sched \in Names
    BY AtASchedule DEF Sched!CallEnqueue
  <2>2. \A i \in DOMAIN Schedules : Schedules[i] = Sched!Sched => i = turn.at
    BY <1>2 DEF SchedConstants, Sched!Sched
  <2> QED BY <2>1, <2>2, <1>1, <1>4
<1> QED BY <1>6, <1>7

\* A tick is taken: none of the schedules is done.
LEMMA DoneAtTick ==
  ASSUME SchedConstants, SchedTypes, Sched!TakeTick, NEW s \in Names
  PROVE  DoneNow(s) /\ ~DoneNow(s)'
<1>1. turn = Sched!Waiting /\ turn' = [at |-> 1, pc |-> "look"]
  BY DEF Sched!TakeTick, SchedTypes, TurnTypes
<1>2. turn' # Sched!Waiting /\ turn'.at = 1 /\ turn'.pc = "look"
  BY <1>1 DEF Sched!Waiting
<1>3. DOMAIN Schedules = 1 .. Len(Schedules) /\ Len(Schedules) \in Nat
  BY LenProperties DEF SchedConstants
<1>4. (Sched!Waiting)' = Sched!Waiting
  BY DEF Sched!Waiting
<1>5. ~DoneNow(s)'
  BY <1>2, <1>3, <1>4 DEF DoneNow, Served
<1> QED BY <1>1, <1>5 DEF DoneNow

\* The time that passes and the ticker do not change what a tick has done.
LEMMA DoneStays ==
  ASSUME turn' = turn, NEW s
  PROVE  DoneNow(s)' = DoneNow(s)
BY DEF DoneNow, Served, Sched!Waiting

LEMMA OnceStep ==
  ASSUME SchedConstants, SchedTypes, SchedTypes', Sched!Next, NEW s \in Names, Once(s)
  PROVE  Once(s)'
<1>1. /\ calls[s] \in Nat /\ due \in Nat /\ due <= clock + Second /\ clock \in Nat
      /\ Second \in Nat \ {0} /\ calls \in [Names -> Nat] /\ due' \in Nat /\ calls'[s] \in Nat
  BY DEF SchedTypes, SchedConstants
<1>2. Ticks(s) \in Nat /\ Ticks(s)' \in Nat /\ Ticks(s) * Second + Second <= due
  BY <1>1 DEF Ticks, Once
<1>3. ASSUME Ticks(s)' <= Ticks(s), due' >= due PROVE Once(s)'
  <2>1. /\ Ticks(s)' * Second <= Ticks(s) * Second
        /\ Ticks(s)' * Second \in Int /\ Ticks(s) * Second \in Int
    BY <1>1, <1>2, <1>3, TimesMonotone
  <2> QED BY <1>1, <1>2, <1>3, <2>1 DEF Once
<1>4. CASE Sched!Pass
  <2>1. calls' = calls /\ ticked' = ticked /\ turn' = turn /\ due' = due
    BY <1>4 DEF Sched!Pass
  <2>2. Ticks(s)' = Ticks(s)
    BY <2>1, DoneStays DEF Ticks
  <2> QED BY <1>1, <1>2, <1>3, <2>1, <2>2
<1>5. CASE Sched!Fire
  <2>1. calls' = calls /\ turn' = turn /\ due' >= due + Second
    BY <1>5, FireDue DEF Sched!Fire
  <2>2. DoneNow(s)' = DoneNow(s)
    BY <2>1, DoneStays
  <2>3. Ticks(s)' <= Ticks(s) + 1
    BY <2>1, <2>2, <1>1 DEF Ticks
  <2>4. /\ Ticks(s)' * Second <= (Ticks(s) + 1) * Second /\ Ticks(s)' * Second \in Int
    BY <1>1, <1>2, <2>3, TimesMonotone
  <2>5. (Ticks(s) + 1) * Second = Ticks(s) * Second + Second /\ Ticks(s) * Second \in Int
    BY <1>1, <1>2, OneMoreTimes
  <2> QED BY <1>1, <1>2, <2>1, <2>4, <2>5 DEF Once
<1>6. CASE Sched!TakeTick
  <2>1. calls' = calls /\ ticked # 0 /\ ticked' = 0 /\ due' = due
    BY <1>6 DEF Sched!TakeTick
  <2>2. DoneNow(s) /\ ~DoneNow(s)'
    BY <1>6, DoneAtTick
  <2>3. Ticks(s)' = Ticks(s)
    BY <2>1, <2>2, <1>1 DEF Ticks
  <2> QED BY <1>1, <1>2, <1>3, <2>1, <2>3
<1>7. CASE Sched!CallEnqueue
  <2>1. /\ ticked' = ticked /\ due' = due /\ calls' = [calls EXCEPT ![Sched!Sched] = @ + 1]
    BY <1>7 DEF Sched!CallEnqueue
  <2>2. /\ DoneNow(s)' <=> (DoneNow(s) \/ s = Sched!Sched)
        /\ ~DoneNow(Sched!Sched)
    BY <1>7, DoneByCall
  <2>3. CASE s = Sched!Sched
    <3>1. calls'[s] = calls[s] + 1
      BY <2>1, <2>3, <1>1
    <3>2. Ticks(s)' = Ticks(s)
      BY <2>1, <2>2, <2>3, <3>1, <1>1 DEF Ticks
    <3> QED BY <1>1, <1>2, <1>3, <2>1, <3>2
  <2>4. CASE s # Sched!Sched
    <3>1. calls'[s] = calls[s]
      BY <2>1, <2>4, <1>1
    <3>2. Ticks(s)' = Ticks(s)
      BY <2>1, <2>2, <2>4, <3>1 DEF Ticks
    <3> QED BY <1>1, <1>2, <1>3, <2>1, <3>2
  <2> QED BY <2>3, <2>4
<1>8. CASE Sched!NotDue \/ Sched!EnqueueOk \/ Sched!EnqueueFails
  <2>1. /\ calls' = calls /\ ticked' = ticked /\ due' = due
        /\ turn' = Sched!NextTurn /\ turn.pc \in {"look", "enqueue"}
    BY <1>8 DEF Sched!NotDue, Sched!EnqueueOk, Sched!EnqueueFails
  <2>2. DoneNow(s) => DoneNow(s)'
    BY <2>1, DoneNext
  <2>3. Ticks(s)' <= Ticks(s)
    BY <2>1, <2>2, <1>1 DEF Ticks
  <2> QED BY <1>1, <1>3, <2>1, <2>3
<1>9. CASE Sched!Restart
  <2>1. calls' = calls /\ ticked' = 0 /\ due' = clock + Second /\ turn' = Sched!Waiting
    BY <1>9 DEF Sched!Restart
  <2>2. DoneNow(s)'
    BY <2>1 DEF DoneNow, Sched!Waiting
  <2>3. Ticks(s)' <= Ticks(s) /\ due' >= due
    BY <2>1, <2>2, <1>1 DEF Ticks
  <2> QED BY <1>3, <2>3
<1> QED BY <1>4, <1>5, <1>6, <1>7, <1>8, <1>9 DEF Sched!Next

LEMMA OnTimeStep ==
  ASSUME SchedConstants, SchedTypes, SchedTypes', Sched!Next, OnTime
  PROVE  OnTime'
<1> SUFFICES ASSUME InTime' PROVE AtTheTick' /\ \A s \in Names : Punctual(s)'
  BY DEF OnTime
<1>1. slow' = FALSE /\ restarts' = 0
  BY DEF InTime
<1>2. slow = FALSE /\ restarts = 0
  <2>1. slow' = slow \/ slow' = (slow \/ ticked # 0 \/ turn.pc # "wait" \/ clock > due + Jitter)
    BY DEF Sched!Next, Sched!Pass, Sched!Fire, Sched!TakeTick, Sched!CallEnqueue, Sched!NotDue,
           Sched!EnqueueOk, Sched!EnqueueFails, Sched!Restart
  <2>2. slow = FALSE
    BY <2>1, <1>1 DEF SchedTypes
  <2>3. restarts' = restarts \/ restarts' = restarts + 1
    BY DEF Sched!Next, Sched!Pass, Sched!Fire, Sched!TakeTick, Sched!CallEnqueue, Sched!NotDue,
           Sched!EnqueueOk, Sched!EnqueueFails, Sched!Restart
  <2>4. restarts = 0
    BY <2>3, <1>1 DEF SchedTypes
  <2> QED BY <2>2, <2>4
<1>3. AtTheTick /\ \A s \in Names : Punctual(s)
  BY <1>2 DEF OnTime, InTime
<1>4. (Sched!Waiting)' = Sched!Waiting
  BY DEF Sched!Waiting
<1>5. /\ Second \in Nat \ {0} /\ Jitter \in Nat /\ Jitter < Second
      /\ clock \in Nat /\ due \in Nat /\ Second <= due /\ ticked \in Nat /\ tickTime \in Nat
  BY DEF SchedConstants, SchedTypes
<1>6. ASSUME NEW s \in Names
      PROVE  /\ nextRun[s] \in Nat /\ calls[s] \in Nat /\ Interval[s] \in Nat /\ Gap(s) \in Nat
             /\ calls[s] * Gap(s) \in Nat
             /\ (calls[s] + 1) * Gap(s) = calls[s] * Gap(s) + Gap(s)
             /\ Second <= Gap(s) /\ Interval[s] + Jitter <= Gap(s)
  <2>1. nextRun[s] \in Nat /\ calls[s] \in Nat /\ Interval[s] \in Nat
    BY DEF SchedConstants, SchedTypes, Names
  <2> QED BY <2>1, GapCovers, ProductOfNats, OneMoreTimes
<1>7. CASE Sched!Pass
  <2>1. /\ tickTime' = tickTime /\ turn' = turn /\ nextRun' = nextRun /\ due' = due
        /\ calls' = calls /\ ticked' = ticked
    BY <1>7 DEF Sched!Pass
  <2>2. AtTheTick'
    BY <2>1, <1>3, <1>4 DEF AtTheTick, OneTickOf
  <2>3. ASSUME NEW s \in Names PROVE Punctual(s)'
    BY <2>1, <1>3, DoneStays DEF Punctual, Base, Gap, Sched!TicksApart
  <2> QED BY <2>2, <2>3
<1>8. CASE Sched!Fire
  <2>1. /\ tickTime' = tickTime /\ turn' = turn /\ nextRun' = nextRun /\ calls' = calls
        /\ clock >= due /\ \E t \in due .. clock : ticked' = IF ticked = 0 THEN t ELSE ticked
    BY <1>8 DEF Sched!Fire
  <2>2. ticked = 0 /\ turn.pc = "wait" /\ clock <= due + Jitter
    <3>1. slow' = (slow \/ ticked # 0 \/ turn.pc # "wait" \/ clock > due + Jitter)
      BY <1>8 DEF Sched!Fire
    <3>2. ~(ticked # 0) /\ ~(turn.pc # "wait") /\ ~(clock > due + Jitter)
      BY ONLY <3>1, <1>1, Zenon
    <3> QED BY <3>2, <1>5
  <2>3. turn = Sched!Waiting
    BY <2>2 DEF SchedTypes, TurnTypes
  <2>4. ticked' \in Nat /\ due <= ticked' /\ ticked' <= due + Jitter /\ ticked' # 0
    BY <2>1, <2>2, <1>5
  <2>5. due' = due + Second
    <3>1. PICK n \in Nat : due' = due + n * Second
      BY <1>8, FireDue
    <3>2. due' >= due + Second /\ due' <= clock + Second
      BY <1>8, FireDue
    <3>3. n * Second \in Nat /\ n * Second < 1 * Second + Second
      BY <3>1, <3>2, <2>2, <1>5, ProductOfNats
    <3>4. n <= 1
      BY <3>3, <1>5, CancelProduct
    <3>5. n = 0 \/ n = 1
      BY <3>4
    <3> QED BY <3>1, <3>2, <3>5, <1>5
  <2>6. PICK m \in Nat : due = m * Second + Second
    BY <1>3 DEF AtTheTick
  <2>7. due' = (m + 1) * Second + Second /\ m + 1 \in Nat
    BY <2>5, <2>6, <1>5, OneMoreTimes
  <2>8. AtTheTick'
    <3>1. \E n \in Nat : due' = n * Second + Second
      BY <2>7
    <3>2. turn' = (Sched!Waiting)'
      BY <2>1, <2>3, <1>4
    <3>3. due' - Second <= ticked' /\ ticked' <= due' - Second + Jitter
      BY ONLY <2>4, <2>5, <1>5
    <3> QED BY ONLY <3>1, <3>2, <3>3, <2>4 DEF AtTheTick, OneTickOf
  <2>9. ASSUME NEW s \in Names PROVE Punctual(s)'
    <3>1. DoneNow(s)' = DoneNow(s)
      BY <2>1, DoneStays
    <3>2. Base' = Base
      BY <2>2, <2>4, <2>5, <1>5 DEF Base
    <3>3. Gap(s)' = Gap(s)
      BY DEF Gap, Sched!TicksApart
    <3> QED BY <2>1, <3>1, <3>2, <3>3, <1>3 DEF Punctual
  <2> QED BY <2>8, <2>9
<1>9. CASE Sched!TakeTick
  <2>1. /\ due' = due /\ tickTime' = ticked /\ ticked' = 0 /\ ticked # 0 /\ nextRun' = nextRun
        /\ calls' = calls
    BY <1>9 DEF Sched!TakeTick
  <2>2. AtTheTick'
    BY <2>1, <1>3 DEF AtTheTick, OneTickOf
  <2>3. ASSUME NEW s \in Names PROVE Punctual(s)'
    <3>1. DoneNow(s) /\ ~DoneNow(s)'
      BY <1>9, DoneAtTick
    <3>2. Base' = Base + Second /\ Base \in Int
      BY <2>1, <1>5 DEF Base
    <3>3. Gap(s)' = Gap(s)
      BY DEF Gap, Sched!TicksApart
    <3>4. Base <= calls[s] * Gap(s)
      BY <3>1, <1>3, <1>6 DEF Punctual
    <3>5. Base' <= calls[s] * Gap(s) + Second
      BY <3>2, <3>4, <1>5, <1>6
    <3> QED BY <2>1, <3>1, <3>3, <3>5, <1>3 DEF Punctual
  <2> QED BY <2>2, <2>3
<1>10. ASSUME turn # Sched!Waiting
       PROVE  ticked = 0 /\ OneTickOf(tickTime) /\ Base = due - Second
  <2>1. ticked = 0 /\ tickTime # 0
    BY <1>3, <1>10 DEF AtTheTick, SchedTypes, TurnTypes
  <2> QED BY <2>1, <1>3, <1>5 DEF AtTheTick, Base
<1>11. CASE Sched!CallEnqueue
  <2> DEFINE d == Sched!Sched
  <2>1. d \in Names /\ turn # Sched!Waiting
    BY <1>11, AtASchedule DEF Sched!CallEnqueue
  <2>2. /\ nextRun' = [nextRun EXCEPT ![d] = tickTime + Interval[d]]
        /\ calls' = [calls EXCEPT ![d] = @ + 1]
        /\ due' = due /\ ticked' = ticked /\ tickTime' = tickTime
    BY <1>11 DEF Sched!CallEnqueue
  <2>3. AtTheTick'
    BY <1>10, <2>1, <2>2, <1>3 DEF AtTheTick, OneTickOf
  <2>4. ASSUME NEW s \in Names PROVE Punctual(s)'
    <3>1. /\ DoneNow(s)' <=> (DoneNow(s) \/ s = d)
          /\ ~DoneNow(d)
      BY <1>11, DoneByCall
    <3>2. Gap(s)' = Gap(s) /\ Base' = Base /\ Base \in Int
      BY <2>2, <1>5 DEF Gap, Sched!TicksApart, Base
    <3>3. CASE s # d
      <4>1. nextRun'[s] = nextRun[s] /\ calls'[s] = calls[s]
        BY <2>2, <3>3 DEF SchedTypes
      <4>2. DoneNow(s)' <=> DoneNow(s)
        BY <3>1, <3>3
      <4>3. Punctual(s)
        BY <1>3
      <4> QED BY ONLY <4>1, <4>2, <4>3, <3>2 DEF Punctual
    <3>4. CASE s = d
      <4>1. nextRun'[s] = tickTime + Interval[s] /\ calls'[s] = calls[s] + 1 /\ DoneNow(s)'
        BY <2>1, <2>2, <3>1, <3>4 DEF SchedTypes
      <4>2. Base <= calls[s] * Gap(s) + Second
        BY <3>1, <3>4, <1>3, <1>6 DEF Punctual
      <4>3. tickTime <= Base + Jitter
        BY <2>1, <1>5, <1>10 DEF OneTickOf
      <4> DEFINE c == calls[s] * Gap(s)
      <4>4. c \in Nat /\ (calls[s] + 1) * Gap(s) = c + Gap(s)
        BY <1>6
      <4>5. tickTime + Interval[s] <= c + Gap(s) + Second /\ Base <= c + Gap(s)
        <5> HIDE DEF c
        <5> QED BY <4>2, <4>3, <4>4, <3>2, <1>5, <1>6 DEF c
      <4>6. nextRun'[s] <= calls'[s] * Gap(s) + Second /\ Base <= calls'[s] * Gap(s) + 0
        <5> HIDE DEF c
        <5> QED BY <4>1, <4>4, <4>5, <1>6
      <4> QED BY <4>1, <4>6, <3>2 DEF Punctual
    <3> QED BY <3>3, <3>4
  <2> QED BY <2>3, <2>4
<1>12. CASE Sched!NotDue \/ Sched!EnqueueOk \/ Sched!EnqueueFails
  <2> DEFINE d == Sched!Sched
  <2>1. /\ d \in Names /\ turn # Sched!Waiting /\ turn.pc \in {"look", "enqueue"}
        /\ turn' = Sched!NextTurn /\ due' = due /\ ticked' = ticked /\ tickTime' = tickTime
        /\ nextRun' = nextRun /\ calls' = calls
        /\ turn.pc = "look" => nextRun[d] # 0 /\ tickTime < nextRun[d]
    <3>1. turn.pc \in {"look", "enqueue"}
      BY <1>12 DEF Sched!NotDue, Sched!EnqueueOk, Sched!EnqueueFails
    <3>2. d \in Names /\ turn # Sched!Waiting
      BY <3>1, AtASchedule
    <3>3. /\ turn' = Sched!NextTurn /\ due' = due /\ ticked' = ticked /\ tickTime' = tickTime
          /\ nextRun' = nextRun /\ calls' = calls
      BY <1>12 DEF Sched!NotDue, Sched!EnqueueOk, Sched!EnqueueFails
    <3>4. turn.pc = "look" => ~(nextRun[d] = 0 \/ tickTime >= nextRun[d])
      BY <1>12 DEF Sched!NotDue, Sched!EnqueueOk, Sched!EnqueueFails, Sched!Due
    <3>5. nextRun[d] \in Nat
      BY <3>2, <1>6
    <3> QED BY <3>1, <3>2, <3>3, <3>4, <3>5, <1>5
  <2>2. AtTheTick'
    BY <1>10, <2>1, <1>3 DEF AtTheTick, OneTickOf
  <2>3. ASSUME NEW s \in Names PROVE Punctual(s)'
    <3>1. DoneNow(s)' <=> (DoneNow(s) \/ s = d)
      BY <2>1, DoneNext
    <3>2. Gap(s)' = Gap(s) /\ Base' = Base /\ Base \in Int
      BY <2>1, <1>5 DEF Gap, Sched!TicksApart, Base
    <3>3. s = d => Base <= calls[s] * Gap(s)
      <4>1. CASE turn.pc = "enqueue"
        <5>1. DoneNow(d)
          BY <4>1, <2>1, AtASchedule DEF DoneNow, Served, Sched!Sched
        <5> QED BY <5>1, <1>3, <1>6 DEF Punctual
      <4>2. CASE turn.pc = "look" /\ s = d
        <5>1. nextRun[s] <= calls[s] * Gap(s) + Second /\ tickTime < nextRun[s]
          BY <2>1, <4>2, <1>3 DEF Punctual
        <5>2. PICK m \in Nat : due = m * Second + Second
          BY <1>3 DEF AtTheTick
        <5> DEFINE q == calls[s] * Sched!TicksApart(s)
        <5>3. q \in Int /\ calls[s] * Gap(s) = q * Second
          BY <1>5, <1>6, GapCovers, ProductsAssociate DEF Gap
        <5>4. m * Second \in Nat /\ q * Second \in Nat
          BY <1>5, <1>6, <5>3, ProductOfNats
        <5> HIDE DEF q
        <5>5. m * Second < q * Second + Second
          BY <1>5, <1>6, <1>10, <2>1, <5>1, <5>2, <5>3, <5>4 DEF OneTickOf
        <5>6. m <= q
          BY <1>5, <5>3, <5>5, CancelProduct
        <5>7. m * Second <= q * Second
          BY <1>5, <5>3, <5>6, TimesMonotone
        <5> QED BY <1>5, <1>10, <2>1, <5>2, <5>3, <5>4, <5>7
      <4> QED BY <4>1, <4>2, <2>1
    <3>4. Base <= calls[s] * Gap(s) + (IF DoneNow(s)' THEN 0 ELSE Second)
      <4>1. CASE s = d
        BY <3>1, <3>2, <3>3, <4>1, <1>6
      <4>2. CASE s # d
        BY <3>1, <4>2, <1>3 DEF Punctual
      <4> QED BY <4>1, <4>2
    <3> QED BY <2>1, <3>2, <3>4, <1>3 DEF Punctual
  <2> QED BY <2>2, <2>3
<1>13. CASE Sched!Restart
  BY <1>1, <1>2, <1>13 DEF Sched!Restart
<1> QED BY <1>7, <1>8, <1>9, <1>11, <1>12, <1>13 DEF Sched!Next

\* Over time a schedule never runs more often than its Interval allows, but once
\* more for each restart, nor more than once per second; while no tick is late it
\* is put off for no more than the tick it just misses; and it loses no run but to
\* a fault: Run, tick and due, for any schedules and any Intervals, none at all
\* included, and for ticks of any lateness.
THEOREM IntervalsKept ==
  ASSUME SchedConstants
  PROVE  Sched!Spec => []KeepsInterval
<1>1. Sched!Init => SchedInv
  <2> SUFFICES ASSUME Sched!Init PROVE SchedInv
    OBVIOUS
  <2> USE DEF Sched!Init
  <2>0. Second \in Nat \ {0} /\ Jitter \in Nat
    BY DEF SchedConstants
  <2>1. /\ nextRun = [s \in Names |-> 0] /\ called = [s \in Names |-> 0]
        /\ calls = [s \in Names |-> 0] /\ enqueued = [s \in Names |-> 0]
    BY DEF Sched!Zeros, Names
  <2>2. SchedTypes
    <3>1. TurnTypes
      BY DEF TurnTypes
    <3>2. slow \in BOOLEAN /\ tooSoon \in BOOLEAN
      OBVIOUS
    <3>3. [s \in Names |-> 0] \in [Names -> Nat]
      OBVIOUS
    <3>4. /\ nextRun \in [Names -> Nat] /\ called \in [Names -> Nat]
          /\ calls \in [Names -> Nat] /\ enqueued \in [Names -> Nat]
      BY <2>1, <3>3
    <3>5. /\ clock \in Nat /\ ticked \in 0 .. clock /\ tickTime \in 0 .. clock
          /\ restarts \in Nat /\ scheduleFaults \in Nat
          /\ due \in Nat /\ due <= clock + Second /\ Second <= due
      BY <2>0
    <3> QED BY <3>1, <3>2, <3>4, <3>5 DEF SchedTypes
  <2>3. ASSUME NEW s \in Names PROVE Rate(s) /\ Lost(s) /\ Once(s) /\ Punctual(s)
    <3>1. Interval[s] \in Nat /\ calls[s] = 0 /\ enqueued[s] = 0 /\ nextRun[s] = 0
      BY <2>1 DEF SchedConstants, Names
    <3>2. Taken(s) = 0
      BY <3>1 DEF Taken
    <3>3. DoneNow(s)
      BY DEF DoneNow
    <3>4. Ticks(s) = 0
      BY <3>1, <3>3 DEF Ticks
    <3>5. Once(s)
      BY <2>0, <3>4 DEF Once
    <3>6. Punctual(s)
      <4>1. calls[s] * Gap(s) = 0
        BY <3>1, GapCovers
      <4>2. Base = 0
        BY <2>0 DEF Base
      <4> QED BY <3>1, <3>3, <4>1, <4>2 DEF Punctual
    <3> QED BY <2>0, <3>1, <3>2, <3>5, <3>6 DEF Rate, Lost, Sched!Waiting
  <2>4. AtTheTick
    <3>1. due = 0 * Second + Second
      BY <2>0
    <3> QED BY <3>1 DEF AtTheTick
  <2> QED BY <2>2, <2>3, <2>4 DEF SchedInv, OnTime
<1>2. SchedInv /\ [Sched!Next]_(Sched!vars) => SchedInv'
  <2> SUFFICES ASSUME SchedInv, [Sched!Next]_(Sched!vars) PROVE SchedInv'
    OBVIOUS
  <2>1. CASE UNCHANGED Sched!vars
    <3>1. SchedTypes'
      BY <2>1 DEF Sched!vars, SchedInv, SchedTypes, TurnTypes, Sched!Waiting
    <3>0. turn' = turn
      BY <2>1 DEF Sched!vars
    <3>2. ASSUME NEW s \in Names PROVE Rate(s)' /\ Lost(s)' /\ Once(s)'
      <4>1. Rate(s) /\ Lost(s) /\ Once(s)
        BY DEF SchedInv
      <4>2. Rate(s)'
        BY <2>1, <4>1 DEF Sched!vars, Rate, Taken, Sched!Waiting
      <4>3. Lost(s)'
        BY <2>1, <4>1 DEF Sched!vars, Lost, Sched!Sched
      <4>4. Once(s)'
        BY <2>1, <3>0, <4>1, DoneStays DEF Sched!vars, Once, Ticks
      <4> QED BY <4>2, <4>3, <4>4
    <3>3. OnTime'
      <4>1. \A s \in Names : Punctual(s)' = Punctual(s)
        BY <2>1, <3>0, DoneStays DEF Sched!vars, Punctual, Base, Gap, Sched!TicksApart
      <4>2. AtTheTick' = AtTheTick /\ InTime' = InTime
        BY <2>1 DEF Sched!vars, AtTheTick, OneTickOf, InTime, Sched!Waiting
      <4> QED BY <4>1, <4>2 DEF SchedInv, OnTime
    <3> QED BY <3>1, <3>2, <3>3 DEF SchedInv
  <2>2. CASE Sched!Next
    <3>1. SchedTypes /\ SchedTypes' /\ OnTime'
      BY <2>2, SchedTypesStep, OnTimeStep DEF SchedInv
    <3>2. \A s \in Names : Rate(s)' /\ Lost(s)' /\ Once(s)'
      BY <2>2, <3>1, RateStep, LostStep, OnceStep DEF SchedInv
    <3> QED BY <3>1, <3>2 DEF SchedInv
  <2> QED BY <2>1, <2>2
<1>3. SchedInv => Sched!KeepsInterval
  BY IntervalFollows
<1> QED BY <1>1, <1>2, <1>3, PTL DEF Sched!Spec, KeepsInterval

-----------------------------------------------------------------------------
(* DbBroadcaster: the first rows by id                                       *)

\* What FirstOf returns when there is such a sequence.
IsFirstOf(q, n, R) ==
  /\ q \in Cast!Sequences(n, R)
  /\ Cast!SortedById(q)
  /\ \A r \in R \ Range(q) : Len(q) = n /\ \A x \in Range(q) : x.id < r.id

\* The rows of R have numbers of their own.
Numbered(R) ==
  /\ \A r \in R : r.id \in Nat
  /\ \A r, x \in R : r.id = x.id => r = x

\* A sequence of at most n rows, as a sequence.
LEMMA InSequences ==
  ASSUME NEW n \in Nat, NEW R, NEW q \in Cast!Sequences(n, R)
  PROVE  q \in Seq(R) /\ Len(q) \in 0 .. n /\ DOMAIN q = 1 .. Len(q)
<1>1. PICK k \in 0 .. n : q \in [1 .. k -> R]
  BY DEF Cast!Sequences
<1>2. k \in Nat
  OBVIOUS
<1> QED BY <1>1, <1>2

\* Of more than n rows the first n + 1 are the first n and the next one.
LEMMA OneMoreRow ==
  ASSUME NEW n \in Nat, NEW R, Numbered(R), NEW q, IsFirstOf(q, n, R)
  PROVE  \E p : IsFirstOf(p, n + 1, R)
<1>0. q \in Seq(R) /\ Len(q) \in 0 .. n /\ DOMAIN q = 1 .. Len(q)
  BY InSequences DEF IsFirstOf
<1>a. PICK k \in 0 .. n : q \in [1 .. k -> R]
  BY DEF IsFirstOf, Cast!Sequences
<1>1. CASE R \ Range(q) = {}
  <2>1. q \in Cast!Sequences(n + 1, R)
    BY <1>a DEF Cast!Sequences
  <2> QED BY <1>1, <2>1 DEF IsFirstOf
<1>2. CASE R \ Range(q) # {}
  <2> DEFINE T == R \ Range(q)
             N == {r.id : r \in T}
  <2>1. N \in SUBSET Nat /\ N # {}
    BY <1>2 DEF Numbered
  <2>2. PICK m \in N : \A i \in N : m <= i
    BY <2>1, SmallestExists
  <2>3. PICK r \in T : r.id = m
    BY <2>2
  <2>4. Len(q) = n
    BY <1>2 DEF IsFirstOf
  <2>5. k = n
    BY <1>a, <2>4
  <2> DEFINE p == [i \in 1 .. (n + 1) |-> IF i = n + 1 THEN r ELSE q[i]]
  <2>6. p \in [1 .. (n + 1) -> R]
    BY <1>a, <2>3, <2>5
  <2>7. p \in Cast!Sequences(n + 1, R)
    BY <2>6 DEF Cast!Sequences
  <2>8. Len(p) = n + 1
    BY <2>6
  <2>9. Range(p) = Range(q) \cup {r}
    <3>1. ASSUME NEW x \in Range(p) PROVE x \in Range(q) \cup {r}
      BY <1>a, <2>5 DEF Range
    <3>2. ASSUME NEW x \in Range(q) PROVE x \in Range(p)
      <4>1. PICK i \in 1 .. n : x = q[i]
        BY <1>a, <2>5 DEF Range
      <4>2. i \in 1 .. (n + 1) /\ p[i] = x
        BY <4>1
      <4> QED BY <4>2 DEF Range
    <3>3. r \in Range(p)
      <4>1. n + 1 \in 1 .. (n + 1) /\ p[n + 1] = r
        OBVIOUS
      <4> QED BY <4>1 DEF Range
    <3> QED BY <3>1, <3>2, <3>3
  <2>10. \A x \in Range(q) : x.id < r.id
    BY <2>3 DEF IsFirstOf
  <2>11. Cast!SortedById(p)
    <3>1. ASSUME NEW i \in 1 .. (n + 1), NEW j \in 1 .. (n + 1), i < j PROVE p[i].id < p[j].id
      <4>1. i \in 1 .. n /\ p[i] = q[i] /\ q[i] \in Range(q)
        BY <1>a, <2>5, <3>1 DEF Range
      <4>2. CASE j = n + 1
        BY <4>1, <4>2, <2>10
      <4>3. CASE j \in 1 .. n
        BY <4>1, <4>3, <3>1, <1>a, <2>5 DEF IsFirstOf, Cast!SortedById
      <4> QED BY <4>2, <4>3
    <3>2. DOMAIN p = 1 .. (n + 1)
      OBVIOUS
    <3> HIDE DEF p
    <3> QED BY <3>1, <3>2 DEF Cast!SortedById
  <2>12. ASSUME NEW y \in R \ Range(p)
         PROVE  Len(p) = n + 1 /\ \A x \in Range(p) : x.id < y.id
    <3>1. y \in T /\ y # r
      BY <2>9
    <3>2. y.id \in Nat /\ r.id \in Nat /\ r.id <= y.id /\ r.id # y.id
      BY <3>1, <2>2, <2>3 DEF Numbered
    <3>3. r.id < y.id
      BY <3>2
    <3>4. ASSUME NEW x \in Range(q) PROVE x.id < y.id
      BY <3>1 DEF IsFirstOf
    <3> HIDE DEF p
    <3> QED BY <3>3, <3>4, <2>8, <2>9
  <2> HIDE DEF p
  <2> QED BY <2>7, <2>11, <2>12 DEF IsFirstOf
<1> QED BY <1>1, <1>2

\* There are always first n rows by id.
LEMMA FirstOfIs ==
  ASSUME NEW n \in Nat, NEW R, Numbered(R)
  PROVE  IsFirstOf(Cast!FirstOf(n, R), n, R)
<1> DEFINE E(k) == \E q : IsFirstOf(q, k, R)
<1>1. E(0)
  <2> DEFINE q == [i \in 1 .. 0 |-> 0]
  <2>1. q \in [1 .. 0 -> R] /\ Len(q) = 0 /\ Range(q) = {}
    BY DEF Range
  <2>2. q \in Cast!Sequences(0, R)
    BY <2>1 DEF Cast!Sequences
  <2>3. Cast!SortedById(q)
    BY <2>1 DEF Cast!SortedById
  <2> HIDE DEF q
  <2>4. IsFirstOf(q, 0, R)
    BY <2>1, <2>2, <2>3 DEF IsFirstOf
  <2> QED BY <2>4
<1>2. ASSUME NEW k \in Nat, E(k) PROVE E(k + 1)
  BY <1>2, OneMoreRow
<1>3. E(n)
  <2> SUFFICES ASSUME ~E(n) PROVE FALSE
    OBVIOUS
  <2> DEFINE S == {k \in Nat : ~E(k)}
  <2> HIDE DEF E
  <2>1. S \in SUBSET Nat /\ S # {}
    OBVIOUS
  <2>2. PICK m \in S : \A k \in S : m <= k
    BY <2>1, SmallestExists
  <2>3. m \in Nat /\ ~E(m) /\ m # 0
    BY <2>2, <1>1
  <2>4. m - 1 \in Nat /\ (m - 1) + 1 = m
    BY <2>3
  <2>5. m - 1 \notin S
    BY <2>2, <2>4
  <2>6. E(m - 1)
    BY <2>4, <2>5
  <2>7. E((m - 1) + 1)
    BY <2>4, <2>6, <1>2
  <2> QED BY <2>3, <2>4, <2>7
<1>4. PICK q \in Cast!Sequences(n, R) : IsFirstOf(q, n, R)
  BY <1>3 DEF IsFirstOf
<1> QED BY <1>4 DEF Cast!FirstOf, IsFirstOf, Cast!ToSet, Range

-----------------------------------------------------------------------------
(* DbBroadcaster: no row skipped, none sent twice                            *)

\* Batches have a size.
CastConstants == BatchSize \in Nat \ {0}

CastRow == [id : Nat, topic : Topics \cup {""}]
SubPhases == {"new", "open", "left", "closed"}

CastTypes ==
  /\ lastRow \in Nat /\ cursor \in Nat
  /\ rows \subseteq CastRow
  /\ publish \in [Publishers -> [pc : {"idle", "inserted"}, row : CastRow]]
  /\ loop.pc \in {"idle", "deliver", "trim"}
  /\ listeners \subseteq Subscriptions /\ closing \subseteq Subscriptions
  /\ sub \in [Subscriptions -> [pc : SubPhases, topic : Topics \cup {""}, messages : Seq(Nat)]]
  /\ backend \in {"new", "open", "closed"}
  /\ owed \in [Subscriptions -> SUBSET Nat]
  /\ arrived \in [Subscriptions -> Seq(Nat)]

\* An id is given out once: to a row that is there or to one that is to commit.
RowsNumbered ==
  /\ \A r \in rows : r.id \in 1 .. lastRow
  /\ \A r, x \in rows : r.id = x.id => r = x
  /\ \A p \in Publishers : publish[p].pc = "inserted" =>
       publish[p].row.id \in 1 .. lastRow /\ \A r \in rows : r.id # publish[p].row.id
  /\ \A p, q \in Publishers :
       publish[p].pc = "inserted" /\ publish[q].pc = "inserted" /\ p # q
         => publish[p].row.id # publish[q].row.id

\* What poll has read lies after the cursor, in order.
ReadAhead ==
  loop.pc = "deliver" =>
    /\ loop.got \in Seq(CastRow) /\ loop.got # <<>>
    /\ Cast!SortedById(loop.got)
    /\ \A k \in DOMAIN loop.got : loop.got[k].id > cursor

\* Before New there is nobody to deliver to; after Close there is nobody left.
Attached ==
  /\ backend = "new" => listeners = {} /\ loop.pc = "idle" /\ cursor = 0
  /\ backend = "closed" => listeners = {}
  /\ backend # "closed" => closing = {}
  /\ \A s \in listeners : sub[s].pc = "open"

\* A channel holds what it can, and was sent only what the cursor has passed.
SentBehind ==
  \A s \in Subscriptions :
    /\ Len(sub[s].messages) <= BufferSize
    /\ \A k \in DOMAIN arrived[s] : arrived[s][k] <= cursor
    /\ \A k, l \in DOMAIN arrived[s] : k < l => arrived[s][k] < arrived[s][l]

\* What is owed committed late, is with Run, or is there to be read and not passed.
OwedStays ==
  \A s \in Subscriptions : \A i \in owed[s] :
    /\ s \in listeners
    /\ \/ i \in late
       \/ i \in Cast!IdsOf(Cast!Batch) \/ (i \in Cast!IdsOf(rows) /\ ~Cast!Passed(i))

CastInv == CastTypes /\ RowsNumbered /\ ReadAhead /\ Attached /\ SentBehind /\ OwedStays

\* The newest row's id, or none.
LEMMA NewestRow ==
  ASSUME CastTypes, RowsNumbered
  PROVE  Cast!Max(Cast!IdsOf(rows) \cup {0}) \in Nat
<1> DEFINE S == Cast!IdsOf(rows)
<1>1. S \in SUBSET (1 .. lastRow)
  BY DEF RowsNumbered, Cast!IdsOf
<1>2. lastRow \in Nat
  BY DEF CastTypes
<1>3. \E m \in S \cup {0} : \A n \in S \cup {0} : m >= n
  <2>1. CASE S = {}
    BY <2>1
  <2>2. CASE S # {}
    <3>1. PICK m \in S : \A n \in S : n <= m
      BY <1>1, <1>2, <2>2, LargestExists
    <3>2. m >= 0 /\ \A n \in S : m >= n
      BY <1>1, <3>1
    <3> QED BY <3>2
  <2> QED BY <2>1, <2>2
<1> HIDE DEF S
<1>4. PICK m \in S \cup {0} : m = Cast!Max(S \cup {0})
  BY <1>3 DEF Cast!Max
<1> QED BY <1>1, <1>4 DEF S

\* The rows poll selects, and those of them that are one subscription's.
LEMMA FirstRows ==
  ASSUME NEW n \in Nat, NEW R, Numbered(R), NEW q, q = Cast!FirstOf(n, R)
  PROVE  /\ q \in Seq(R) /\ Len(q) <= n /\ DOMAIN q = 1 .. Len(q)
         /\ Cast!SortedById(q)
         /\ \A r \in R : r \in Range(q) \/ \A x \in Range(q) : x.id < r.id
         /\ n > 0 /\ R # {} => q # <<>>
<1>1. IsFirstOf(q, n, R)
  BY FirstOfIs
<1>2. q \in Seq(R) /\ Len(q) \in 0 .. n /\ DOMAIN q = 1 .. Len(q)
  BY <1>1, InSequences DEF IsFirstOf
<1>3. ASSUME n > 0, R # {}, q = <<>> PROVE FALSE
  <2>1. Range(q) = {} /\ Len(q) = 0
    BY <1>3 DEF Range
  <2> QED BY <1>1, <1>3, <2>1 DEF IsFirstOf
<1>4. \A r \in R : r \in Range(q) \/ \A x \in Range(q) : x.id < r.id
  BY <1>1 DEF IsFirstOf
<1>5. Cast!SortedById(q)
  BY <1>1 DEF IsFirstOf
<1>6. Len(q) <= n
  BY <1>2
<1> QED BY <1>2, <1>3, <1>4, <1>5, <1>6

\* Between two reads the batch is empty; what is owed then lies after the cursor.
LEMMA BatchFacts ==
  ASSUME CastTypes, ReadAhead, loop.pc = "deliver"
  PROVE  /\ Cast!Batch = Range(loop.got) /\ Numbered(Cast!Batch)
         /\ Cast!NextCursor \in Nat /\ Cast!NextCursor > cursor
         /\ \A r \in Cast!Batch : r \in CastRow /\ cursor < r.id /\ r.id <= Cast!NextCursor
         /\ \E r \in Cast!Batch : r.id = Cast!NextCursor
<1> DEFINE q == loop.got
           L == Len(q)
<1>1. Cast!Batch = Range(q)
  BY DEF Cast!Batch, Cast!ToSet, Range
<1>2. /\ q \in Seq(CastRow) /\ q # <<>>
      /\ Cast!SortedById(q)
      /\ \A k \in DOMAIN q : q[k].id > cursor
  BY Zenon DEF ReadAhead
<1>c. cursor \in Nat
  BY DEF CastTypes
<1> HIDE DEF q
<1>3. L \in Nat /\ L > 0 /\ DOMAIN q = 1 .. L /\ L \in DOMAIN q
  BY <1>2
<1>4. \A k \in 1 .. L : q[k] \in CastRow /\ q[k].id \in Nat
  <2>1. \A k \in 1 .. L : q[k] \in CastRow
    BY <1>2, <1>3
  <2> QED BY <2>1 DEF CastRow
<1>5. Cast!NextCursor = q[L].id
  BY DEF Cast!NextCursor, Cast!Last, q
<1>6. \A i, j \in 1 .. L : i < j => q[i].id < q[j].id
  BY <1>2, <1>3 DEF Cast!SortedById
<1>7. \A r \in Range(q) : \E k \in 1 .. L : r = q[k]
  BY <1>3 DEF Range
<1> HIDE DEF L
<1>8. \A r \in Range(q) : r \in CastRow /\ r.id \in Nat /\ cursor < r.id
  <2>1. \A k \in 1 .. L : cursor < q[k].id
    BY <1>2, <1>3, <1>4, <1>c
  <2> QED BY <1>4, <1>7, <2>1
<1>9. \A k \in 1 .. L : q[k].id <= q[L].id
  BY <1>3, <1>4, <1>6
<1>10. \A r, x \in Range(q) : r.id = x.id => r = x
  <2> SUFFICES ASSUME NEW r \in Range(q), NEW x \in Range(q), r.id = x.id PROVE r = x
    OBVIOUS
  <2>1. PICK i \in 1 .. L : r = q[i]
    BY <1>7
  <2>2. PICK j \in 1 .. L : x = q[j]
    BY <1>7
  <2>3. ~(i < j) /\ ~(j < i)
    BY <1>4, <1>6, <2>1, <2>2
  <2>4. i = j
    BY <1>3, <2>3
  <2> QED BY <2>1, <2>2, <2>4
<1>11. Numbered(Range(q))
  BY <1>8, <1>10 DEF Numbered
<1>12. q[L] \in Range(q)
  BY <1>3 DEF Range
<1>13. \A r \in Range(q) : r.id <= q[L].id
  BY <1>7, <1>9
<1>14. q[L].id \in Nat /\ q[L].id > cursor
  BY <1>8, <1>12, <1>c
<1> QED BY <1>1, <1>5, <1>8, <1>11, <1>12, <1>13, <1>14 DEF q

\* What deliver sends one subscription: as much as there is room for, in order,
\* all of it between the old cursor and the new one.
LEMMA SentFacts ==
  ASSUME CastInv, loop.pc = "deliver", NEW s \in Subscriptions
  PROVE  /\ Cast!Sent(s) \in Seq(Nat)
         /\ Len(Cast!Sent(s)) + Len(sub[s].messages) <= BufferSize
         /\ \A k \in DOMAIN Cast!Sent(s) : cursor < Cast!Sent(s)[k] /\ Cast!Sent(s)[k] <= Cast!NextCursor
         /\ \A k, l \in DOMAIN Cast!Sent(s) : k < l => Cast!Sent(s)[k] < Cast!Sent(s)[l]
<1> DEFINE n == BufferSize - Len(sub[s].messages)
           R == {r \in Cast!Batch : r.topic = sub[s].topic}
           q == Cast!FirstOf(n, R)
<1>1. /\ Numbered(Cast!Batch)
      /\ \A r \in Cast!Batch : r \in CastRow /\ cursor < r.id /\ r.id <= Cast!NextCursor
  BY BatchFacts DEF CastInv
<1>2. Numbered(R)
  BY <1>1 DEF Numbered
<1>3. sub[s].messages \in Seq(Nat) /\ Len(sub[s].messages) <= BufferSize
  BY DEF CastInv, CastTypes, SentBehind
<1>4. n \in Nat /\ n + Len(sub[s].messages) = BufferSize /\ Len(sub[s].messages) \in Nat
  BY <1>3, HubAssumption
<1>5. Cast!Sent(s) = [k \in DOMAIN q |-> q[k].id]
  BY DEF Cast!Sent
<1>6. \A r \in R : r.id \in Nat /\ cursor < r.id /\ r.id <= Cast!NextCursor
  BY <1>1 DEF CastRow
<1> HIDE DEF n, R, q
<1>7. /\ q \in Seq(R) /\ Len(q) <= n /\ DOMAIN q = 1 .. Len(q)
      /\ Cast!SortedById(q)
  BY <1>2, <1>4, FirstRows DEF q
<1>8. Len(q) \in Nat /\ \A k \in 1 .. Len(q) : q[k] \in R
  BY <1>7
<1> DEFINE S == [k \in 1 .. Len(q) |-> q[k].id]
<1>9. S \in Seq(Nat) /\ Len(S) = Len(q) /\ DOMAIN S = 1 .. Len(q)
  BY <1>6, <1>8
<1>10. \A k \in 1 .. Len(q) : cursor < S[k] /\ S[k] <= Cast!NextCursor
  BY <1>6, <1>8
<1>11. \A k, l \in 1 .. Len(q) : k < l => S[k] < S[l]
  BY <1>7, <1>8 DEF Cast!SortedById
<1>12. Cast!Sent(s) = S
  BY <1>5, <1>7
<1>13. Len(S) + Len(sub[s].messages) <= BufferSize
  BY <1>4, <1>7, <1>8, <1>9, HubAssumption
<1> HIDE DEF S
<1> QED BY <1>9, <1>10, <1>11, <1>12, <1>13

\* What poll's SELECT reads is in order and after the cursor.
LEMMA Selected ==
  ASSUME CastConstants, CastTypes, RowsNumbered, Cast!PollSelect
  PROVE  /\ loop'.pc = "deliver" /\ loop'.got \in Seq(CastRow) /\ loop'.got # <<>>
         /\ Cast!SortedById(loop'.got)
         /\ \A k \in DOMAIN loop'.got : loop'.got[k].id > cursor
         /\ Range(loop'.got) \subseteq rows
         /\ \A r \in rows : r.id > cursor =>
              r \in Range(loop'.got) \/ \A x \in Range(loop'.got) : x.id < r.id
<1> DEFINE R == {r \in rows : r.id > cursor}
           q == Cast!FirstOf(BatchSize, R)
<1>1. loop' = [pc |-> "deliver", got |-> q] /\ R # {}
  BY DEF Cast!PollSelect
<1>2. Numbered(R)
  BY DEF RowsNumbered, CastTypes, CastRow, Numbered
<1>3. BatchSize \in Nat /\ BatchSize > 0
  BY DEF CastConstants
<1>r. \A r \in R : r \in CastRow /\ r.id > cursor /\ r \in rows
  BY DEF CastTypes
<1>s. \A r \in rows : r.id > cursor => r \in R
  OBVIOUS
<1> HIDE DEF R, q
<1>4. /\ q \in Seq(R) /\ DOMAIN q = 1 .. Len(q)
      /\ Cast!SortedById(q)
      /\ \A r \in R : r \in Range(q) \/ \A x \in Range(q) : x.id < r.id
      /\ q # <<>>
  BY <1>1, <1>2, <1>3, FirstRows DEF q
<1>5. \A k \in DOMAIN q : q[k] \in R
  BY <1>4
<1>6. q \in Seq(CastRow)
  BY <1>4, <1>r, <1>5
<1>7. Range(q) \subseteq rows
  BY <1>5, <1>r DEF Range
<1>8. loop'.pc = "deliver" /\ loop'.got = q
  BY <1>1
<1> QED BY <1>4, <1>5, <1>6, <1>7, <1>8, <1>r, <1>s

\* The types hold after every step.
LEMMA CastTypesStep ==
  ASSUME CastConstants, CastInv, [Cast!Next]_castVars
  PROVE  CastTypes'
<1> USE DEF CastTypes
<1>0. CastTypes
  BY DEF CastInv
<1>1. CASE UNCHANGED castVars
  BY <1>0, <1>1 DEF castVars
<1>2. CASE Cast!New
  BY <1>0, <1>2, NewestRow DEF Cast!New, CastInv
<1>3. CASE Cast!Close
  BY <1>0, <1>3 DEF Cast!Close
<1>4. CASE Cast!PollSelect
  BY <1>0, <1>4 DEF Cast!PollSelect
<1>5. CASE Cast!Deliver
  <2>1. loop.pc = "deliver"
    BY <1>5 DEF Cast!Deliver
  <2>2. \A s \in Subscriptions : Cast!Sent(s) \in Seq(Nat)
    BY <2>1, SentFacts
  <2>3. cursor' \in Nat
    BY <1>5, <2>1, BatchFacts DEF Cast!Deliver, CastInv
  <2>4. arrived' \in [Subscriptions -> Seq(Nat)]
    <3>0. \A s \in Subscriptions : arrived[s] \in Seq(Nat)
      BY <1>0
    <3>1. \A s \in Subscriptions : arrived[s] \o Cast!Sent(s) \in Seq(Nat)
      BY <3>0, <2>2
    <3> QED BY <1>0, <1>5, <3>1 DEF Cast!Deliver
  <2>5. sub' \in [Subscriptions -> [pc : SubPhases, topic : Topics \cup {""}, messages : Seq(Nat)]]
    <3>0. \A s \in Subscriptions : sub[s].messages \in Seq(Nat)
      BY <1>0
    <3>1. \A s \in Subscriptions : sub[s].messages \o Cast!Sent(s) \in Seq(Nat)
      BY <3>0, <2>2
    <3>2. \A s \in Subscriptions : [sub[s] EXCEPT !.messages = sub[s].messages \o Cast!Sent(s)]
            \in [pc : SubPhases, topic : Topics \cup {""}, messages : Seq(Nat)]
      BY <1>0, <3>1
    <3> QED BY <1>0, <1>5, <3>2 DEF Cast!Deliver
  <2>6. owed' \in [Subscriptions -> SUBSET Nat]
    BY <1>0, <1>5 DEF Cast!Deliver
  <2>7. loop'.pc = "idle" /\ UNCHANGED <<lastRow, rows, publish, listeners, closing, backend>>
    BY <1>5 DEF Cast!Deliver, Cast!Idle
  <2> QED BY <1>0, <2>3, <2>4, <2>5, <2>6, <2>7
<1>6. CASE Cast!TrimSelect
  <2>1. loop'.pc = "trim"
    BY <1>6 DEF Cast!TrimSelect
  <2> QED BY <1>0, <1>6, <2>1 DEF Cast!TrimSelect
<1>7. CASE Cast!TrimDelete
  BY <1>0, <1>7 DEF Cast!TrimDelete, Cast!Vanish, Cast!Idle
<1>8. CASE Cast!StatementFails
  BY <1>0, <1>8 DEF Cast!StatementFails, Cast!Idle
<1>9. CASE Cast!TrimElsewhere
  BY <1>0, <1>9 DEF Cast!TrimElsewhere, Cast!Vanish
<1>10. ASSUME NEW p \in Publishers, Cast!Insert(p) PROVE CastTypes'
  <2>0. lastRow \in Nat /\ lastRow + 1 \in Nat
    <3>1. lastRow \in Nat
      BY <1>0
    <3> QED BY <3>1
  <2>1. PICK t \in Topics :
          publish' = [publish EXCEPT ![p] = [pc |-> "inserted", row |-> [id |-> lastRow + 1, topic |-> t]]]
    BY <1>10 DEF Cast!Insert
  <2>2. [pc |-> "inserted", row |-> [id |-> lastRow + 1, topic |-> t]] \in [pc : {"idle", "inserted"}, row : CastRow]
    BY <2>0 DEF CastRow
  <2>3. publish' \in [Publishers -> [pc : {"idle", "inserted"}, row : CastRow]]
    BY <1>0, <2>1, <2>2
  <2>4. lastRow' \in Nat
    BY <2>0, <1>10 DEF Cast!Insert
  <2> QED BY <1>0, <1>10, <2>3, <2>4 DEF Cast!Insert
<1>11. ASSUME NEW p \in Publishers, Cast!Commit(p) PROVE CastTypes'
  <2>1. publish[p].row \in CastRow /\ publish[p].row.id \in Nat
    BY <1>0 DEF CastRow
  <2>2. Cast!NoPublish \in [pc : {"idle", "inserted"}, row : CastRow]
    BY DEF Cast!NoPublish, CastRow
  <2>3. publish' \in [Publishers -> [pc : {"idle", "inserted"}, row : CastRow]] /\ rows' \subseteq CastRow
    BY <1>0, <1>11, <2>1, <2>2 DEF Cast!Commit
  <2>4. owed' \in [Subscriptions -> SUBSET Nat]
    BY <1>0, <1>11, <2>1 DEF Cast!Commit
  <2> QED BY <1>0, <1>11, <2>3, <2>4 DEF Cast!Commit
<1>12. ASSUME NEW s \in Subscriptions, Cast!Subscribe(s) PROVE CastTypes'
  <2>1. PICK t \in Topics :
          /\ sub' = [sub EXCEPT ![s] = [pc |-> "open", topic |-> t, messages |-> <<>>]]
          /\ owed' = [owed EXCEPT ![s] = Cast!IdsOf({r \in rows \cup Cast!Batch :
               r.topic = t /\ (r \in Cast!Batch \/ ~Cast!Passed(r.id))})]
    BY <1>12 DEF Cast!Subscribe
  <2>2. Cast!Batch \subseteq CastRow
    <3>1. CASE loop.pc = "deliver"
      BY <3>1, BatchFacts DEF CastInv
    <3>2. CASE loop.pc # "deliver"
      BY <3>2 DEF Cast!Batch
    <3> QED BY <3>1, <3>2
  <2>3. \A r \in rows \cup Cast!Batch : r.id \in Nat
    BY <1>0, <2>2 DEF CastRow
  <2>4. owed' \in [Subscriptions -> SUBSET Nat]
    BY <1>0, <2>1, <2>3 DEF Cast!IdsOf
  <2>5. sub' \in [Subscriptions -> [pc : SubPhases, topic : Topics \cup {""}, messages : Seq(Nat)]]
    <3>1. <<>> \in Seq(Nat)
      OBVIOUS
    <3>2. [pc |-> "open", topic |-> t, messages |-> <<>>]
            \in [pc : SubPhases, topic : Topics \cup {""}, messages : Seq(Nat)]
      BY <3>1 DEF SubPhases
    <3> QED BY <1>0, <2>1, <3>2
  <2> QED BY <1>0, <1>12, <2>4, <2>5 DEF Cast!Subscribe
<1>13. ASSUME NEW s \in Subscriptions, Cast!Leave(s) PROVE CastTypes'
  BY <1>0, <1>13 DEF Cast!Leave, SubPhases
<1>14. ASSUME NEW s \in Subscriptions, Cast!End(s) PROVE CastTypes'
  BY <1>0, <1>14 DEF Cast!End, SubPhases
<1>15. ASSUME NEW s \in Subscriptions, Cast!CloseOne(s) PROVE CastTypes'
  BY <1>0, <1>15 DEF Cast!CloseOne, SubPhases
<1>16. ASSUME NEW s \in Subscriptions, Cast!Receive(s) PROVE CastTypes'
  <2>1. Tail(sub[s].messages) \in Seq(Nat)
    <3>1. sub[s].messages \in Seq(Nat) /\ sub[s].messages # <<>>
      BY <1>0, <1>16 DEF Cast!Receive
    <3> QED BY <3>1
  <2> QED BY <1>0, <1>16, <2>1 DEF Cast!Receive
<1>17. ASSUME NEW i \in Cast!Ids, Cast!GrowStale(i) PROVE CastTypes'
  BY <1>0, <1>17 DEF Cast!GrowStale
<1> QED
  BY <1>1, <1>2, <1>3, <1>4, <1>5, <1>6, <1>7, <1>8, <1>9, <1>10, <1>11, <1>12, <1>13, <1>14, <1>15, <1>16, <1>17
  DEF Cast!Next

\* Every id stays the id of one row.
LEMMA RowsStep ==
  ASSUME CastConstants, CastInv, [Cast!Next]_castVars
  PROVE  RowsNumbered'
<1>0. CastTypes /\ RowsNumbered
  BY DEF CastInv
<1>n. lastRow \in Nat
  BY <1>0 DEF CastTypes
<1>1. ASSUME UNCHANGED <<lastRow, publish>>, rows' \subseteq rows PROVE RowsNumbered'
  BY <1>0, <1>1 DEF RowsNumbered
<1>2. ASSUME NEW p \in Publishers, Cast!Insert(p) PROVE RowsNumbered'
  <2>1. PICK t \in Topics :
          publish' = [publish EXCEPT ![p] = [pc |-> "inserted", row |-> [id |-> lastRow + 1, topic |-> t]]]
    BY <1>2 DEF Cast!Insert
  <2>2. lastRow' = lastRow + 1 /\ rows' = rows
    BY <1>2 DEF Cast!Insert
  <2>3. publish'[p].row.id = lastRow + 1
    BY <1>0, <2>1 DEF CastTypes
  <2>4. \A q \in Publishers : q # p => publish'[q] = publish[q]
    BY <1>0, <2>1 DEF CastTypes
  <2>5. \A r \in rows' : r.id \in 1 .. lastRow'
    BY <1>0, <1>n, <2>2 DEF RowsNumbered
  <2>6. \A r, x \in rows' : r.id = x.id => r = x
    BY <1>0, <2>2 DEF RowsNumbered
  <2>7. ASSUME NEW q \in Publishers, publish'[q].pc = "inserted"
        PROVE  publish'[q].row.id \in 1 .. lastRow' /\ \A r \in rows' : r.id # publish'[q].row.id
    <3>1. CASE q = p
      BY <3>1, <2>3, <2>2, <1>0, <1>n DEF RowsNumbered
    <3>2. CASE q # p
      BY <3>2, <2>4, <2>7, <2>2, <1>0, <1>n DEF RowsNumbered
    <3> QED BY <3>1, <3>2
  <2>8. ASSUME NEW q \in Publishers, NEW u \in Publishers, q # u,
               publish'[q].pc = "inserted", publish'[u].pc = "inserted"
        PROVE  publish'[q].row.id # publish'[u].row.id
    <3>1. \A w \in Publishers : w # p /\ publish'[w].pc = "inserted" => publish'[w].row.id \in 1 .. lastRow
      BY <2>4, <1>0 DEF RowsNumbered
    <3>2. CASE q = p
      BY <3>1, <3>2, <2>8, <2>3, <1>n
    <3>3. CASE u = p
      BY <3>1, <3>3, <2>8, <2>3, <1>n
    <3>4. CASE q # p /\ u # p
      BY <3>4, <2>4, <2>8, <1>0 DEF RowsNumbered
    <3> QED BY <3>2, <3>3, <3>4
  <2> QED BY <2>5, <2>6, <2>7, <2>8 DEF RowsNumbered
<1>3. ASSUME NEW p \in Publishers, Cast!Commit(p) PROVE RowsNumbered'
  <2>1. publish[p].pc = "inserted" /\ rows' = rows \cup {publish[p].row} /\ lastRow' = lastRow
    BY <1>3 DEF Cast!Commit
  <2>2. \A q \in Publishers : publish'[q].pc = "inserted" => q # p /\ publish'[q] = publish[q]
    BY <1>0, <1>3 DEF Cast!Commit, Cast!NoPublish, CastTypes
  <2>3. \A r \in rows' : r.id \in 1 .. lastRow'
    BY <1>0, <2>1 DEF RowsNumbered
  <2>4. \A r, x \in rows' : r.id = x.id => r = x
    BY <1>0, <2>1 DEF RowsNumbered
  <2>5. ASSUME NEW q \in Publishers, publish'[q].pc = "inserted"
        PROVE  publish'[q].row.id \in 1 .. lastRow' /\ \A r \in rows' : r.id # publish'[q].row.id
    BY <1>0, <2>1, <2>2, <2>5 DEF RowsNumbered
  <2>6. ASSUME NEW q \in Publishers, NEW u \in Publishers, q # u,
               publish'[q].pc = "inserted", publish'[u].pc = "inserted"
        PROVE  publish'[q].row.id # publish'[u].row.id
    BY <1>0, <2>2, <2>6 DEF RowsNumbered
  <2> QED BY <2>3, <2>4, <2>5, <2>6 DEF RowsNumbered
<1>4. CASE UNCHANGED castVars
  BY <1>1, <1>4 DEF castVars
<1>5. CASE Cast!New \/ Cast!Close \/ Cast!PollSelect \/ Cast!Deliver \/ Cast!TrimSelect \/ Cast!StatementFails
  BY <1>1, <1>5 DEF Cast!New, Cast!Close, Cast!PollSelect, Cast!Deliver, Cast!TrimSelect, Cast!StatementFails
<1>6. CASE Cast!TrimDelete \/ Cast!TrimElsewhere
  BY <1>1, <1>6 DEF Cast!TrimDelete, Cast!TrimElsewhere, Cast!Vanish
<1>7. ASSUME NEW s \in Subscriptions,
             Cast!Subscribe(s) \/ Cast!Leave(s) \/ Cast!End(s) \/ Cast!CloseOne(s) \/ Cast!Receive(s)
      PROVE  RowsNumbered'
  BY <1>1, <1>7 DEF Cast!Subscribe, Cast!Leave, Cast!End, Cast!CloseOne, Cast!Receive
<1>8. ASSUME NEW i \in Cast!Ids, Cast!GrowStale(i) PROVE RowsNumbered'
  BY <1>1, <1>8 DEF Cast!GrowStale
<1> QED BY <1>2, <1>3, <1>4, <1>5, <1>6, <1>7, <1>8 DEF Cast!Next

\* Nobody is in the map before New or after Close, and who is in it is open.
LEMMA AttachedStep ==
  ASSUME CastConstants, CastInv, [Cast!Next]_castVars
  PROVE  Attached'
<1> USE DEF Attached
<1>0. CastTypes /\ Attached
  BY DEF CastInv
<1>1. CASE UNCHANGED castVars
  BY <1>0, <1>1 DEF castVars
<1>2. CASE Cast!New
  BY <1>0, <1>2 DEF Cast!New
<1>3. CASE Cast!Close
  BY <1>0, <1>3 DEF Cast!Close
<1>4. CASE Cast!PollSelect \/ Cast!TrimSelect \/ Cast!TrimDelete \/ Cast!StatementFails \/ Cast!TrimElsewhere
  <2>1. UNCHANGED <<backend, listeners, closing, cursor, sub>>
    BY <1>4 DEF Cast!PollSelect, Cast!TrimSelect, Cast!TrimDelete, Cast!StatementFails, Cast!TrimElsewhere
  <2>2. backend # "new" \/ loop.pc = "trim" \/ UNCHANGED loop
    BY <1>4 DEF Cast!PollSelect, Cast!TrimSelect, Cast!TrimDelete, Cast!StatementFails, Cast!TrimElsewhere
  <2> QED BY <1>0, <2>1, <2>2
<1>5. CASE Cast!Deliver
  <2>1. UNCHANGED <<backend, listeners, closing>> /\ loop.pc = "deliver"
    BY <1>5 DEF Cast!Deliver
  <2>2. \A s \in Subscriptions : sub'[s].pc = sub[s].pc
    BY <1>0, <1>5 DEF Cast!Deliver, CastTypes
  <2> QED BY <1>0, <2>1, <2>2 DEF CastTypes
<1>6. ASSUME NEW p \in Publishers, Cast!Insert(p) \/ Cast!Commit(p) PROVE Attached'
  BY <1>0, <1>6 DEF Cast!Insert, Cast!Commit
<1>7. ASSUME NEW s \in Subscriptions, Cast!Subscribe(s) PROVE Attached'
  <2>1. backend = "open" /\ UNCHANGED <<backend, closing>> /\ listeners' = listeners \cup {s}
    BY <1>7 DEF Cast!Subscribe
  <2>t. PICK t \in Topics : sub' = [sub EXCEPT ![s] = [pc |-> "open", topic |-> t, messages |-> <<>>]]
    BY <1>7 DEF Cast!Subscribe
  <2>2. \A x \in Subscriptions : sub'[x].pc = IF x = s THEN "open" ELSE sub[x].pc
    BY <1>0, <2>t DEF CastTypes
  <2> QED BY <1>0, <2>1, <2>2 DEF CastTypes
<1>8. ASSUME NEW s \in Subscriptions, Cast!Leave(s) PROVE Attached'
  <2>1. UNCHANGED <<backend, closing, loop, cursor>> /\ listeners' = listeners \ {s}
    BY <1>8 DEF Cast!Leave
  <2>2. \A x \in Subscriptions : x # s => sub'[x] = sub[x]
    BY <1>0, <1>8 DEF Cast!Leave, CastTypes
  <2> QED BY <1>0, <2>1, <2>2 DEF CastTypes
<1>9. ASSUME NEW s \in Subscriptions, Cast!End(s) \/ Cast!CloseOne(s) PROVE Attached'
  <2>1. UNCHANGED <<backend, listeners, loop, cursor>> /\ closing' \subseteq closing
    BY <1>9 DEF Cast!End, Cast!CloseOne
  <2>2. s \notin listeners
    BY <1>0, <1>9 DEF Cast!End, Cast!CloseOne, CastTypes
  <2>3. \A x \in Subscriptions : x # s => sub'[x] = sub[x]
    BY <1>0, <1>9 DEF Cast!End, Cast!CloseOne, CastTypes
  <2> QED BY <1>0, <2>1, <2>2, <2>3 DEF CastTypes
<1>10. ASSUME NEW s \in Subscriptions, Cast!Receive(s) PROVE Attached'
  <2>1. UNCHANGED <<backend, listeners, loop, cursor, closing>>
    BY <1>10 DEF Cast!Receive
  <2>2. \A x \in Subscriptions : sub'[x].pc = sub[x].pc
    BY <1>0, <1>10 DEF Cast!Receive, CastTypes
  <2> QED BY <1>0, <2>1, <2>2 DEF CastTypes
<1>11. ASSUME NEW i \in Cast!Ids, Cast!GrowStale(i) PROVE Attached'
  BY <1>0, <1>11 DEF Cast!GrowStale
<1> QED
  BY <1>1, <1>2, <1>3, <1>4, <1>5, <1>6, <1>7, <1>8, <1>9, <1>10, <1>11 DEF Cast!Next

\* poll reads on only after it has delivered, and New comes before its first read.
LEMMA ReadAheadStep ==
  ASSUME CastConstants, CastInv, [Cast!Next]_castVars
  PROVE  ReadAhead'
<1>0. CastTypes /\ RowsNumbered /\ ReadAhead /\ Attached
  BY DEF CastInv
<1>1. ASSUME UNCHANGED <<loop, cursor>> PROVE ReadAhead'
  BY <1>0, <1>1 DEF ReadAhead
<1>2. ASSUME loop'.pc # "deliver" PROVE ReadAhead'
  BY <1>2 DEF ReadAhead
<1>3. CASE UNCHANGED castVars
  BY <1>1, <1>3 DEF castVars
<1>4. CASE Cast!New
  <2>1. loop' = loop /\ loop.pc = "idle"
    BY <1>0, <1>4 DEF Cast!New, Attached
  <2>2. loop'.pc # "deliver"
    BY <2>1
  <2> QED BY <1>2, <2>2
<1>5. CASE Cast!Close \/ Cast!TrimElsewhere
  BY <1>1, <1>5 DEF Cast!Close, Cast!TrimElsewhere
<1>6. CASE Cast!PollSelect
  <2>1. cursor' = cursor
    BY <1>6 DEF Cast!PollSelect
  <2> QED BY <1>0, <1>6, <2>1, Selected DEF ReadAhead
<1>7. CASE Cast!Deliver \/ Cast!TrimSelect \/ Cast!TrimDelete \/ Cast!StatementFails
  <2>1. loop'.pc \in {"idle", "trim"}
    <3>1. CASE Cast!TrimSelect
      BY <3>1 DEF Cast!TrimSelect
    <3>2. CASE Cast!Deliver \/ Cast!TrimDelete \/ Cast!StatementFails
      BY <3>2 DEF Cast!Deliver, Cast!TrimDelete, Cast!StatementFails, Cast!Idle
    <3> QED BY <1>7, <3>1, <3>2
  <2> QED BY <1>2, <2>1
<1>8. ASSUME NEW p \in Publishers, Cast!Insert(p) \/ Cast!Commit(p) PROVE ReadAhead'
  BY <1>1, <1>8 DEF Cast!Insert, Cast!Commit
<1>9. ASSUME NEW s \in Subscriptions,
             Cast!Subscribe(s) \/ Cast!Leave(s) \/ Cast!End(s) \/ Cast!CloseOne(s) \/ Cast!Receive(s)
      PROVE  ReadAhead'
  BY <1>1, <1>9 DEF Cast!Subscribe, Cast!Leave, Cast!End, Cast!CloseOne, Cast!Receive
<1>10. ASSUME NEW i \in Cast!Ids, Cast!GrowStale(i) PROVE ReadAhead'
  BY <1>1, <1>10 DEF Cast!GrowStale
<1> QED
  BY <1>3, <1>4, <1>5, <1>6, <1>7, <1>8, <1>9, <1>10 DEF Cast!Next

\* A channel is sent each id once and in order.
LEMMA SentStep ==
  ASSUME CastConstants, CastInv, [Cast!Next]_castVars
  PROVE  SentBehind'
<1>0. CastTypes /\ RowsNumbered /\ ReadAhead /\ Attached /\ SentBehind
  BY DEF CastInv
<1>a. \A s \in Subscriptions : arrived[s] \in Seq(Nat) /\ sub[s].messages \in Seq(Nat)
  BY <1>0 DEF CastTypes
<1>1. ASSUME UNCHANGED <<cursor, arrived>>, \A s \in Subscriptions : Len(sub'[s].messages) <= BufferSize
      PROVE  SentBehind'
  BY <1>0, <1>1 DEF SentBehind
<1>2. ASSUME UNCHANGED <<cursor, arrived, sub>> PROVE SentBehind'
  BY <1>0, <1>2 DEF SentBehind
<1>3. CASE Cast!New
  <2>1. cursor = 0 /\ cursor' \in Nat /\ UNCHANGED <<arrived, sub>>
    BY <1>0, <1>3, NewestRow DEF Cast!New, Attached
  <2>2. \A s \in Subscriptions : \A k \in DOMAIN arrived[s] : arrived[s][k] <= cursor'
    <3> SUFFICES ASSUME NEW s \in Subscriptions, NEW k \in DOMAIN arrived[s] PROVE arrived[s][k] <= cursor'
      OBVIOUS
    <3>1. arrived[s][k] \in Nat /\ arrived[s][k] <= cursor
      BY <1>0, <1>a DEF SentBehind
    <3> QED BY <2>1, <3>1
  <2> QED BY <1>0, <2>1, <2>2 DEF SentBehind
<1>4. CASE Cast!Deliver
  <2>1. loop.pc = "deliver" /\ cursor' = Cast!NextCursor /\ cursor \in Nat
    BY <1>0, <1>4 DEF Cast!Deliver, CastTypes
  <2>2. cursor' \in Nat /\ cursor < cursor'
    BY <1>0, <2>1, BatchFacts
  <2> SUFFICES ASSUME NEW s \in Subscriptions
               PROVE  /\ Len(sub'[s].messages) <= BufferSize
                      /\ \A k \in DOMAIN arrived'[s] : arrived'[s][k] <= cursor'
                      /\ \A k, l \in DOMAIN arrived'[s] : k < l => arrived'[s][k] < arrived'[s][l]
    BY DEF SentBehind
  <2> DEFINE A == arrived[s]
             S == Cast!Sent(s)
             M == sub[s].messages
  <2>3. /\ A \in Seq(Nat) /\ M \in Seq(Nat) /\ Len(M) <= BufferSize
        /\ \A k \in DOMAIN A : A[k] <= cursor
        /\ \A k, l \in DOMAIN A : k < l => A[k] < A[l]
    BY <1>0, <1>a DEF SentBehind
  <2>4. /\ S \in Seq(Nat) /\ Len(S) + Len(M) <= BufferSize
        /\ \A k \in DOMAIN S : cursor < S[k] /\ S[k] <= cursor'
        /\ \A k, l \in DOMAIN S : k < l => S[k] < S[l]
    BY <2>1, SentFacts
  <2>5. CASE s \notin listeners
    <3>1. arrived'[s] = A /\ sub'[s].messages = M
      BY <1>4, <2>5 DEF Cast!Deliver
    <3> HIDE DEF A, S, M
    <3>2. \A k \in DOMAIN A : A[k] \in Nat /\ A[k] <= cursor'
      BY <2>1, <2>2, <2>3
    <3> QED BY <2>3, <3>1, <3>2
  <2>6. CASE s \in listeners
    <3>1. arrived'[s] = A \o S /\ sub'[s].messages = M \o S
      BY <1>0, <1>4, <2>6 DEF Cast!Deliver, CastTypes
    <3> HIDE DEF A, S, M
    <3>2. Len(M \o S) <= BufferSize
      BY <2>3, <2>4, HubAssumption
    <3> DEFINE Q == A \o S
    <3>3. /\ Q \in Seq(Nat) /\ Len(Q) = Len(A) + Len(S) /\ DOMAIN Q = 1 .. (Len(A) + Len(S))
          /\ \A k \in 1 .. Len(Q) : Q[k] = IF k <= Len(A) THEN A[k] ELSE S[k - Len(A)]
      BY <2>3, <2>4
    <3>4. Len(A) \in Nat /\ Len(S) \in Nat /\ DOMAIN A = 1 .. Len(A) /\ DOMAIN S = 1 .. Len(S)
      BY <2>3, <2>4
    <3> HIDE DEF Q
    <3>5. ASSUME NEW k \in DOMAIN Q
          PROVE  \/ k \in DOMAIN A /\ Q[k] = A[k]
                 \/ k > Len(A) /\ k - Len(A) \in DOMAIN S /\ Q[k] = S[k - Len(A)]
      BY <3>3, <3>4
    <3>6. ASSUME NEW k \in DOMAIN Q PROVE Q[k] <= cursor'
      <4>1. CASE k \in DOMAIN A /\ Q[k] = A[k]
        BY <4>1, <2>1, <2>2, <2>3
      <4>2. CASE k - Len(A) \in DOMAIN S /\ Q[k] = S[k - Len(A)]
        BY <4>2, <2>4
      <4> QED BY <3>5, <4>1, <4>2
    <3>7. ASSUME NEW k \in DOMAIN Q, NEW l \in DOMAIN Q, k < l PROVE Q[k] < Q[l]
      <4>0. k \in Nat /\ l \in Nat
        BY <3>3, <3>4
      <4>1. CASE l \in DOMAIN A /\ Q[l] = A[l]
        <5>1. k \in DOMAIN A /\ Q[k] = A[k]
          BY <3>3, <3>4, <3>7, <4>0, <4>1
        <5> QED BY <4>1, <5>1, <3>7, <2>3
      <4>2. CASE /\ l > Len(A) /\ l - Len(A) \in DOMAIN S /\ Q[l] = S[l - Len(A)]
                 /\ k \in DOMAIN A /\ Q[k] = A[k]
        <5>1. A[k] <= cursor /\ A[k] \in Nat
          BY <4>2, <2>3
        <5>2. cursor < S[l - Len(A)] /\ S[l - Len(A)] \in Nat
          BY <4>2, <2>4
        <5> QED BY <4>2, <5>1, <5>2, <2>1
      <4>3. CASE /\ l > Len(A) /\ l - Len(A) \in DOMAIN S /\ Q[l] = S[l - Len(A)]
                 /\ k > Len(A) /\ k - Len(A) \in DOMAIN S /\ Q[k] = S[k - Len(A)]
        <5>1. k - Len(A) < l - Len(A)
          BY <3>4, <3>7, <4>0
        <5> QED BY <4>3, <5>1, <2>4
      <4> QED BY <3>5, <4>1, <4>2, <4>3
    <3> QED BY <3>1, <3>2, <3>6, <3>7 DEF Q
  <2> QED BY <2>5, <2>6
<1>5. CASE \/ UNCHANGED castVars
           \/ Cast!Close \/ Cast!PollSelect \/ Cast!TrimSelect \/ Cast!TrimDelete
           \/ Cast!StatementFails \/ Cast!TrimElsewhere
  <2>1. UNCHANGED <<cursor, arrived, sub>>
    BY <1>5 DEF castVars, Cast!Close, Cast!PollSelect, Cast!TrimSelect, Cast!TrimDelete,
         Cast!StatementFails, Cast!TrimElsewhere
  <2> QED BY <1>2, <2>1
<1>6. ASSUME NEW p \in Publishers, Cast!Insert(p) \/ Cast!Commit(p) PROVE SentBehind'
  BY <1>2, <1>6 DEF Cast!Insert, Cast!Commit
<1>7. ASSUME NEW i \in Cast!Ids, Cast!GrowStale(i) PROVE SentBehind'
  BY <1>2, <1>7 DEF Cast!GrowStale
<1>8. ASSUME NEW s \in Subscriptions,
             Cast!Subscribe(s) \/ Cast!Leave(s) \/ Cast!End(s) \/ Cast!CloseOne(s) \/ Cast!Receive(s)
      PROVE  SentBehind'
  <2>1. UNCHANGED <<cursor, arrived>>
    BY <1>8 DEF Cast!Subscribe, Cast!Leave, Cast!End, Cast!CloseOne, Cast!Receive
  <2>2. \A x \in Subscriptions : x # s => sub'[x] = sub[x]
    BY <1>0, <1>8 DEF Cast!Subscribe, Cast!Leave, Cast!End, Cast!CloseOne, Cast!Receive, CastTypes
  <2>3. Len(sub'[s].messages) <= BufferSize
    <3>0. Len(sub[s].messages) <= BufferSize
      BY <1>0 DEF SentBehind
    <3>1. CASE Cast!Subscribe(s)
      <4>t. PICK t \in Topics : sub' = [sub EXCEPT ![s] = [pc |-> "open", topic |-> t, messages |-> <<>>]]
        BY <3>1 DEF Cast!Subscribe
      <4>1. sub'[s].messages = <<>>
        BY <1>0, <4>t DEF CastTypes
      <4> QED BY <4>1, HubAssumption
    <3>2. CASE Cast!Leave(s) \/ Cast!End(s) \/ Cast!CloseOne(s)
      <4>0. PICK c \in {"left", "closed"} : sub' = [sub EXCEPT ![s].pc = c]
        BY <3>2 DEF Cast!Leave, Cast!End, Cast!CloseOne
      <4>1. sub'[s].messages = sub[s].messages
        BY <1>0, <4>0 DEF CastTypes
      <4> QED BY <4>1, <3>0
    <3>3. CASE Cast!Receive(s)
      <4>1. sub'[s].messages = Tail(sub[s].messages) /\ sub[s].messages # <<>>
        BY <1>0, <3>3 DEF Cast!Receive, CastTypes
      <4>2. Len(Tail(sub[s].messages)) = Len(sub[s].messages) - 1 /\ Len(sub[s].messages) \in Nat
        BY <1>a, <4>1
      <4> QED BY <4>1, <4>2, <3>0, HubAssumption
    <3> QED BY <1>8, <3>1, <3>2, <3>3
  <2>4. \A x \in Subscriptions : Len(sub'[x].messages) <= BufferSize
    BY <1>0, <2>2, <2>3 DEF SentBehind
  <2> QED BY <1>1, <2>1, <2>4
<1> QED BY <1>3, <1>4, <1>5, <1>6, <1>7, <1>8 DEF Cast!Next

\* What is not passed lies after the cursor and after all that was read.
LEMMA NotPassed ==
  ASSUME NEW i \in Nat, CastTypes, ReadAhead
  PROVE  ~Cast!Passed(i) <=> i > cursor /\ \A r \in Cast!Batch : i > r.id
<1>1. \A r \in Cast!Batch : r.id \in Nat
  <2>1. CASE loop.pc = "deliver"
    BY <2>1, BatchFacts DEF CastRow
  <2>2. CASE loop.pc # "deliver"
    BY <2>2 DEF Cast!Batch
  <2> QED BY <2>1, <2>2
<1>2. cursor \in Nat
  BY DEF CastTypes
<1> QED BY <1>1, <1>2 DEF Cast!Passed, Cast!IdsOf

\* No step of Run, of a trim or of a subscriber loses what is owed.
LEMMA OwedStep ==
  ASSUME CastConstants, CastInv, [Cast!Next]_castVars
  PROVE  OwedStays'
<1>0. CastTypes /\ RowsNumbered /\ ReadAhead /\ Attached /\ OwedStays
  BY DEF CastInv
<1>o. \A s \in Subscriptions : \A i \in owed[s] : i \in Nat /\ s \in listeners
  BY <1>0 DEF CastTypes, OwedStays
<1>l. late \subseteq late'
  <2>1. ASSUME late' = late PROVE late \subseteq late'
    BY <2>1
  <2>2. CASE UNCHANGED castVars
    BY <2>1, <2>2 DEF castVars
  <2>3. CASE Cast!New \/ Cast!Close \/ Cast!PollSelect \/ Cast!Deliver
    BY <2>1, <2>3 DEF Cast!New, Cast!Close, Cast!PollSelect, Cast!Deliver
  <2>4. CASE Cast!TrimSelect \/ Cast!TrimDelete \/ Cast!StatementFails \/ Cast!TrimElsewhere
    BY <2>1, <2>4 DEF Cast!TrimSelect, Cast!TrimDelete, Cast!StatementFails, Cast!TrimElsewhere
  <2>5. ASSUME NEW p \in Publishers, Cast!Insert(p) \/ Cast!Commit(p) PROVE late \subseteq late'
    BY <2>5 DEF Cast!Insert, Cast!Commit
  <2>6. ASSUME NEW s \in Subscriptions,
               Cast!Subscribe(s) \/ Cast!Leave(s) \/ Cast!End(s) \/ Cast!CloseOne(s) \/ Cast!Receive(s)
        PROVE  late \subseteq late'
    BY <2>1, <2>6 DEF Cast!Subscribe, Cast!Leave, Cast!End, Cast!CloseOne, Cast!Receive
  <2>7. ASSUME NEW i \in Cast!Ids, Cast!GrowStale(i) PROVE late \subseteq late'
    BY <2>1, <2>7 DEF Cast!GrowStale
  <2> QED BY <2>2, <2>3, <2>4, <2>5, <2>6, <2>7 DEF Cast!Next
<1>1. ASSUME UNCHANGED <<loop, cursor>>, rows \subseteq rows',
             \A s \in Subscriptions : owed'[s] # {} => owed'[s] \subseteq owed[s] /\ s \in listeners'
      PROVE  OwedStays'
  BY <1>0, <1>l, <1>1 DEF OwedStays, Cast!Batch, Cast!Passed, Cast!IdsOf
<1>2. CASE UNCHANGED castVars
  BY <1>1, <1>2, <1>o DEF castVars
<1>3. CASE Cast!New
  <2>1. listeners = {} /\ owed' = owed
    BY <1>0, <1>3 DEF Cast!New, Attached
  <2>2. \A s \in Subscriptions : owed'[s] = {}
    BY <2>1, <1>o
  <2> QED BY <2>2 DEF OwedStays
<1>4. CASE Cast!Close
  <2>1. \A s \in Subscriptions : owed'[s] = {}
    BY <1>4 DEF Cast!Close
  <2> QED BY <2>1 DEF OwedStays
<1>5. CASE Cast!PollSelect
  <2>1. UNCHANGED <<owed, listeners, rows, cursor>> /\ loop.pc = "idle"
    BY <1>5 DEF Cast!PollSelect
  <2>2. Cast!Batch = {}
    BY <2>1 DEF Cast!Batch
  <2>3. Cast!Batch' = Range(loop'.got)
    BY <1>0, <1>5, Selected DEF Cast!Batch, Cast!ToSet, Range
  <2> SUFFICES ASSUME NEW s \in Subscriptions, NEW i \in owed[s]
               PROVE  /\ s \in listeners
                      /\ \/ i \in late
                         \/ i \in Cast!IdsOf(Cast!Batch)' \/ (i \in Cast!IdsOf(rows) /\ ~Cast!Passed(i)')
    BY <1>l, <2>1 DEF OwedStays, Cast!IdsOf
  <2>l. CASE i \in late
    BY <1>o, <2>l
  <2>k. CASE i \notin late
    <3>1. i \in Nat /\ s \in listeners /\ i \in Cast!IdsOf(rows) /\ ~Cast!Passed(i)
      BY <1>0, <1>o, <2>2, <2>k DEF OwedStays, Cast!IdsOf
    <3>2. i > cursor
      BY <1>0, <3>1, NotPassed
    <3>3. PICK r \in rows : r.id = i
      BY <3>1 DEF Cast!IdsOf
    <3>4. r \in Range(loop'.got) \/ \A x \in Range(loop'.got) : x.id < i
      BY <1>0, <1>5, <3>2, <3>3, Selected
    <3>5. CASE r \in Range(loop'.got)
      BY <2>3, <3>1, <3>3, <3>5 DEF Cast!IdsOf
    <3>6. CASE \A x \in Range(loop'.got) : x.id < i
      <4>1. CastTypes' /\ ReadAhead'
        BY CastTypesStep, ReadAheadStep
      <4>2. \A x \in Range(loop'.got) : x.id \in Nat
        BY <1>0, <1>5, Selected DEF CastTypes, CastRow
      <4>3. i > cursor' /\ \A x \in Cast!Batch' : i > x.id
        BY <2>1, <2>3, <3>1, <3>2, <3>6, <4>2
      <4>4. cursor' \in Nat
        BY <4>1 DEF CastTypes
      <4>5. ~Cast!Passed(i)'
        BY <2>3, <3>1, <4>2, <4>3, <4>4 DEF Cast!Passed, Cast!IdsOf
      <4> QED BY <3>1, <4>5
    <3> QED BY <3>4, <3>5, <3>6
  <2> QED BY <2>l, <2>k
<1>6. CASE Cast!Deliver
  <2>1. loop.pc = "deliver" /\ cursor' = Cast!NextCursor /\ UNCHANGED <<rows, listeners>>
    BY <1>6 DEF Cast!Deliver
  <2>2. \A s \in Subscriptions : owed'[s] = owed[s] \ Cast!IdsOf(Cast!Batch)
    BY <1>6 DEF Cast!Deliver
  <2>3. Cast!Batch' = {}
    BY <1>6 DEF Cast!Deliver, Cast!Batch, Cast!Idle
  <2>4. cursor' \in Nat /\ \E r \in Cast!Batch : r.id = cursor'
    BY <1>0, <2>1, BatchFacts
  <2> SUFFICES ASSUME NEW s \in Subscriptions, NEW i \in owed'[s]
               PROVE  s \in listeners /\ (i \in late \/ (i \in Cast!IdsOf(rows) /\ ~Cast!Passed(i)'))
    BY <1>l, <2>1 DEF OwedStays, Cast!IdsOf
  <2>5. i \in Nat /\ s \in listeners
        /\ (i \notin late => i \in Cast!IdsOf(rows) /\ ~Cast!Passed(i))
    BY <1>0, <1>o, <2>2 DEF OwedStays
  <2>6. i \notin late => i > cursor'
    BY <1>0, <2>4, <2>5, NotPassed
  <2>7. i \notin late => ~Cast!Passed(i)'
    BY <2>3, <2>4, <2>5, <2>6 DEF Cast!Passed, Cast!IdsOf
  <2> QED BY <2>5, <2>7
<1>7. CASE Cast!TrimSelect \/ Cast!StatementFails
  <2>1. UNCHANGED <<rows, cursor, listeners, owed>> /\ loop.pc # "deliver"
    BY <1>7 DEF Cast!TrimSelect, Cast!StatementFails
  <2>2. loop'.pc # "deliver"
    <3>1. CASE Cast!TrimSelect
      BY <3>1 DEF Cast!TrimSelect
    <3>2. CASE Cast!StatementFails
      BY <3>2 DEF Cast!StatementFails, Cast!Idle
    <3> QED BY <1>7, <3>1, <3>2
  <2>3. Cast!Batch = {} /\ Cast!Batch' = {}
    BY <2>1, <2>2 DEF Cast!Batch
  <2> QED BY <1>0, <1>l, <2>1, <2>3 DEF OwedStays, Cast!Passed, Cast!IdsOf
<1>8. ASSUME NEW R, Cast!Vanish(R), UNCHANGED <<cursor, listeners>>, Cast!Batch' = Cast!Batch PROVE OwedStays'
  <2>1. rows' = rows \ R /\ \A s \in Subscriptions : owed'[s] = owed[s] \ (Cast!IdsOf(R) \ Cast!IdsOf(Cast!Batch))
    BY <1>8 DEF Cast!Vanish
  <2> SUFFICES ASSUME NEW s \in Subscriptions, NEW i \in owed'[s]
               PROVE  /\ s \in listeners
                      /\ \/ i \in late
                         \/ i \in Cast!IdsOf(Cast!Batch) \/ (i \in Cast!IdsOf(rows \ R) /\ ~Cast!Passed(i))
    BY <1>8, <1>l, <2>1 DEF OwedStays, Cast!IdsOf, Cast!Passed
  <2>2. i \in owed[s] /\ (i \in Cast!IdsOf(R) => i \in Cast!IdsOf(Cast!Batch))
    BY <2>1
  <2>3. i \in Cast!IdsOf(rows) /\ i \notin Cast!IdsOf(R) => i \in Cast!IdsOf(rows \ R)
    BY DEF Cast!IdsOf
  <2> QED BY <1>0, <2>2, <2>3 DEF OwedStays
<1>9. CASE Cast!TrimDelete
  <2>1. Cast!Batch' = Cast!Batch /\ UNCHANGED <<cursor, listeners>> /\ Cast!Vanish(Cast!ToSet(loop.got))
    BY <1>9 DEF Cast!TrimDelete, Cast!Batch, Cast!Idle
  <2> QED BY <1>8, <2>1
<1>10. CASE Cast!TrimElsewhere
  <2>1. Cast!Batch' = Cast!Batch /\ UNCHANGED <<cursor, listeners>>
    BY <1>10 DEF Cast!TrimElsewhere, Cast!Batch
  <2>2. PICK R : Cast!Vanish(R)
    BY <1>10 DEF Cast!TrimElsewhere
  <2> QED BY <1>8, <2>1, <2>2
<1>11. ASSUME NEW p \in Publishers, Cast!Insert(p) PROVE OwedStays'
  BY <1>1, <1>11, <1>o DEF Cast!Insert
<1>12. ASSUME NEW p \in Publishers, Cast!Commit(p) PROVE OwedStays'
  <2> DEFINE r == publish[p].row
  <2>1. rows' = rows \cup {r} /\ UNCHANGED <<cursor, loop, listeners>>
    BY <1>12 DEF Cast!Commit
  <2>2. Cast!Batch' = Cast!Batch
    BY <2>1 DEF Cast!Batch
  <2>3. \A s \in Subscriptions : owed'[s] = owed[s] \cup
          {i \in {r.id} : s \in listeners /\ sub[s].topic = r.topic}
    BY <1>12 DEF Cast!Commit
  <2>l. late' = late \cup {i \in {r.id} : Cast!Passed(i)}
    BY <1>12 DEF Cast!Commit
  <2> SUFFICES ASSUME NEW s \in Subscriptions, NEW i \in owed'[s]
               PROVE  /\ s \in listeners
                      /\ \/ i \in late'
                         \/ i \in Cast!IdsOf(Cast!Batch) \/ (i \in Cast!IdsOf(rows') /\ ~Cast!Passed(i))
    BY <2>1, <2>2 DEF OwedStays, Cast!IdsOf, Cast!Passed
  <2> HIDE DEF r
  <2>4. CASE i \in owed[s]
    BY <1>0, <1>l, <2>1, <2>4 DEF OwedStays, Cast!IdsOf
  <2>5. CASE i = r.id /\ s \in listeners
    <3>1. i \in Cast!IdsOf(rows')
      BY <2>1, <2>5 DEF Cast!IdsOf
    <3>2. Cast!Passed(i) => i \in late'
      BY <2>5, <2>l
    <3> QED BY <2>5, <3>1, <3>2
  <2> QED BY <2>3, <2>4, <2>5
<1>13. ASSUME NEW s \in Subscriptions, Cast!Subscribe(s) PROVE OwedStays'
  <2>1. UNCHANGED <<rows, cursor, loop>> /\ listeners' = listeners \cup {s}
    BY <1>13 DEF Cast!Subscribe
  <2>2. PICK t \in Topics :
          owed' = [owed EXCEPT ![s] = Cast!IdsOf({r \in rows \cup Cast!Batch :
               r.topic = t /\ (r \in Cast!Batch \/ ~Cast!Passed(r.id))})]
    BY <1>13 DEF Cast!Subscribe
  <2>3. Cast!Batch' = Cast!Batch
    BY <2>1 DEF Cast!Batch
  <2> SUFFICES ASSUME NEW x \in Subscriptions, NEW i \in owed'[x]
               PROVE  /\ x \in listeners'
                      /\ \/ i \in late
                         \/ i \in Cast!IdsOf(Cast!Batch) \/ (i \in Cast!IdsOf(rows) /\ ~Cast!Passed(i))
    BY <1>l, <2>1, <2>3 DEF OwedStays, Cast!IdsOf, Cast!Passed
  <2>4. CASE x # s
    <3>1. i \in owed[x]
      BY <1>0, <2>2, <2>4 DEF CastTypes
    <3> QED BY <1>0, <2>1, <3>1 DEF OwedStays
  <2>5. CASE x = s
    <3>1. i \in Cast!IdsOf({r \in rows \cup Cast!Batch : r.topic = t /\ (r \in Cast!Batch \/ ~Cast!Passed(r.id))})
      BY <1>0, <2>2, <2>5 DEF CastTypes
    <3>2. PICK r \in rows \cup Cast!Batch : i = r.id /\ (r \in Cast!Batch \/ ~Cast!Passed(r.id))
      BY <3>1 DEF Cast!IdsOf
    <3>3. i \in Cast!IdsOf(Cast!Batch) \/ (i \in Cast!IdsOf(rows) /\ ~Cast!Passed(i))
      BY <3>2 DEF Cast!IdsOf
    <3> QED BY <2>1, <2>5, <3>3
  <2> QED BY <2>4, <2>5
<1>14. ASSUME NEW s \in Subscriptions, Cast!Leave(s) PROVE OwedStays'
  <2>1. UNCHANGED <<rows, cursor, loop>> /\ listeners' = listeners \ {s}
    BY <1>14 DEF Cast!Leave
  <2>2. owed' = [owed EXCEPT ![s] = {}]
    BY <1>14 DEF Cast!Leave
  <2>3. \A x \in Subscriptions : owed'[x] = IF x = s THEN {} ELSE owed[x]
    BY <1>0, <2>2 DEF CastTypes
  <2>4. \A x \in Subscriptions : owed'[x] # {} => owed'[x] \subseteq owed[x] /\ x \in listeners'
    BY <1>o, <2>1, <2>3
  <2> QED BY <1>1, <2>1, <2>4
<1>15. ASSUME NEW s \in Subscriptions, Cast!End(s) \/ Cast!CloseOne(s) \/ Cast!Receive(s) PROVE OwedStays'
  BY <1>1, <1>15, <1>o DEF Cast!End, Cast!CloseOne, Cast!Receive
<1>16. ASSUME NEW i \in Cast!Ids, Cast!GrowStale(i) PROVE OwedStays'
  BY <1>1, <1>16, <1>o DEF Cast!GrowStale
<1> QED
  BY <1>2, <1>3, <1>4, <1>5, <1>6, <1>7, <1>9, <1>10, <1>11, <1>12, <1>13, <1>14, <1>15, <1>16 DEF Cast!Next

\* Polling from a cursor skips no row but those that commit after the cursor has
\* passed their ids, and sends none twice, out of order or to a channel that is
\* closed, for any number of publishers, subscriptions and topics and any size of
\* batch.
THEOREM NoneSkippedNoneTwice == ASSUME CastConstants PROVE Cast!Spec => []DeliveredOnce
<1>1. Cast!Init => CastInv
  <2> SUFFICES ASSUME Cast!Init PROVE CastInv
    OBVIOUS
  <2>0. <<>> \in Seq(Nat) /\ Len(<<>>) = 0
    OBVIOUS
  <2>1. CastTypes
    <3>1. Cast!NoPublish \in [pc : {"idle", "inserted"}, row : CastRow]
      BY DEF Cast!NoPublish, CastRow
    <3>2. Cast!NoSubscription \in [pc : SubPhases, topic : Topics \cup {""}, messages : Seq(Nat)]
      BY <2>0 DEF Cast!NoSubscription, SubPhases
    <3> QED BY <2>0, <3>1, <3>2 DEF Cast!Init, Cast!Idle, CastTypes
  <2>2. RowsNumbered
    BY DEF Cast!Init, Cast!NoPublish, RowsNumbered
  <2>3. ReadAhead /\ Attached
    BY DEF Cast!Init, Cast!Idle, ReadAhead, Attached
  <2>4. SentBehind
    <3>1. \A s \in Subscriptions : sub[s].messages = <<>> /\ arrived[s] = <<>>
      BY DEF Cast!Init, Cast!NoSubscription
    <3> QED BY <2>0, <3>1, HubAssumption DEF SentBehind
  <2>5. OwedStays
    BY DEF Cast!Init, OwedStays
  <2> QED BY <2>1, <2>2, <2>3, <2>4, <2>5 DEF CastInv
<1>2. CastInv /\ [Cast!Next]_castVars => CastInv'
  BY CastTypesStep, RowsStep, ReadAheadStep, AttachedStep, SentStep, OwedStep DEF CastInv
<1>3. CastInv => DeliveredOnce
  <2> SUFFICES ASSUME CastInv PROVE DeliveredOnce
    OBVIOUS
  <2>1. Cast!OwedIsAhead
    <3> SUFFICES ASSUME NEW s \in Subscriptions, NEW i \in owed[s]
                 PROVE  /\ s \in listeners
                        /\ \/ i \in late
                           \/ i \in Cast!IdsOf(Cast!Batch) \/ (i \in Cast!IdsOf(rows) /\ i > cursor)
      BY DEF Cast!OwedIsAhead, Cast!IsAhead
    <3>1. i \in Nat
      BY DEF CastInv, CastTypes
    <3> QED BY <3>1, NotPassed DEF CastInv, OwedStays
  <2>2. Cast!SentOnceInOrder
    BY DEF CastInv, CastTypes, Attached, SentBehind, Cast!SentOnceInOrder
  <2> QED BY <2>1, <2>2 DEF DeliveredOnce, Cast!DeliveredOnce
<1> QED BY <1>1, <1>2, <1>3, PTL DEF Cast!Spec, Cast!vars, castVars
=============================================================================
