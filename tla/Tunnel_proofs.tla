---------------------------- MODULE Tunnel_proofs ----------------------------
(***************************************************************************)
(* Proofs about Tunnel, for any number of connections, requests and        *)
(* faults, and any capacity of the channels and of the cache.              *)
(***************************************************************************)
EXTENDS Tunnel, SequenceTheorems, TLAPS

\* The types, and what a query about a revision can come to.  The gauge does not
\* go under zero because of RegistrySound.
TypeInv ==
  /\ TypeOK
  /\ RegistrySound
  /\ \A d \in Diff, s \in Side : query[<<d, s>>].result \in Outcomes \union {None}

-----------------------------------------------------------------------------
(* Queries and what is said about them. *)

LEMMA QueryCases ==
  /\ \A q \in Query : q \in FileQuery \/ \E d \in Diff, s \in Side : q = <<d, s>>
  /\ \A d \in Diff, s \in Side : <<d, s>> \in Query /\ <<d, s>> \notin FileQuery
  BY TunnelAssumption DEF Query

LEMMA ConnIsNot == None \notin Conn /\ \A c \in Conn : c \in Nat
  BY TunnelAssumption DEF Conn

LEMMA ToldType == \A q \in Query : \A a \in Answers(q) : Told(a) \in Statuses
  BY DEF Told, Statuses

LEMMA TunnelType ==
  ASSUME NEW q \in Query, NEW s \in Statuses
  PROVE  /\ q \in FileQuery => FromTunnel(q, s) \in {"ok", "denied", "failed"}
         /\ q \notin FileQuery => FromTunnel(q, s) \in Outcomes \union {None}
  BY DEF FromTunnel, Statuses, Outcomes

LEMMA HttpType ==
  ASSUME NEW q \in Query, NEW a
  PROVE  /\ q \in FileQuery => FromHttp(q, a) \in {"ok", "denied", "large", "failed"}
         /\ q \notin FileQuery => FromHttp(q, a) \in Outcomes
  BY DEF FromHttp, Outcomes

LEMMA RecordType ==
  ASSUME NEW q, NEW s \in Statuses
  PROVE  Record(q, s) \in Statuses \union {None}
  BY DEF Record

LEMMA FreshType == Fresh \in Asked /\ OnHttp \in Asked
  /\ Fresh.at = "idle" /\ OnHttp.at = "http" /\ Fresh.result = None /\ OnHttp.result = None
  /\ Fresh.audit = None /\ OnHttp.audit = None
  BY DEF Fresh, OnHttp, Asked

LEMMA DoneType ==
  ASSUME NEW r \in Outcomes \union {None, "denied", "large", "failed"},
         NEW a \in Statuses \union {None}
  PROVE  Done(r, a) \in Asked /\ Done(r, a).at = "done" /\ Done(r, a).result = r
         /\ Done(r, a).audit = a
  BY DEF Done, Asked

\* What becomes of the queries that have waited for a status.
LEMMA Settled ==
  ASSUME query \in [Query -> Asked], NEW s, NEW st \in Statuses \union {None}, NEW q \in Query
  PROVE  /\ Settle(s, st)[q] \in Asked
         /\ q \notin s \/ query[q].at # "waiting" => Settle(s, st)[q] = query[q]
         /\ q \in s /\ query[q].at = "waiting" =>
              \/ Settle(s, st)[q] = OnHttp
              \/ /\ st \in Statuses /\ FromTunnel(q, st) # None
                 /\ Settle(s, st)[q] = Done(FromTunnel(q, st), Record(q, st))
<1>1. query[q] \in Asked /\ OnHttp \in Asked
  BY FreshType
<1>2. CASE q \notin s \/ query[q].at # "waiting"
  BY <1>1, <1>2 DEF Settle
<1>3. CASE q \in s /\ query[q].at = "waiting" /\ (st = None \/ FromTunnel(q, st) = None)
  BY <1>1, <1>3 DEF Settle
<1>4. CASE q \in s /\ query[q].at = "waiting" /\ st # None /\ FromTunnel(q, st) # None
  <2>1. Settle(s, st)[q] = Done(FromTunnel(q, st), Record(q, st)) /\ st \in Statuses
    BY <1>4 DEF Settle
  <2>2. FromTunnel(q, st) \in Outcomes \union {None, "denied", "large", "failed"}
    BY <2>1, TunnelType DEF Outcomes
  <2> QED
    BY <1>4, <2>1, <2>2, RecordType, DoneType
<1> QED
  BY <1>2, <1>3, <1>4

LEMMA SettleTypes ==
  ASSUME TypeInv, NEW s, NEW st \in Statuses \union {None}
  PROVE  /\ Settle(s, st) \in [Query -> Asked]
         /\ \A q \in Query : Settle(s, st)[q].at = "waiting" => query[q].at = "waiting" /\ q \notin s
         /\ \A d \in Diff, v \in Side : Settle(s, st)[<<d, v>>].result \in Outcomes \union {None}
<1>1. query \in [Query -> Asked]
  BY DEF TypeInv, TypeOK
<1>2. Settle(s, st) \in [Query -> Asked]
  <2>1. \A q \in Query : Settle(s, st)[q] \in Asked
    BY <1>1, Settled
  <2> QED
    BY <2>1 DEF Settle
<1>3. ASSUME NEW q \in Query, Settle(s, st)[q].at = "waiting"
      PROVE  query[q].at = "waiting" /\ q \notin s
  <2>1. \A r, a : Done(r, a).at = "done"
    BY DEF Done
  <2> QED
    BY <1>1, <1>3, <2>1, Settled, FreshType
<1>4. ASSUME NEW d \in Diff, NEW v \in Side
      PROVE  Settle(s, st)[<<d, v>>].result \in Outcomes \union {None}
  <2>1. <<d, v>> \in Query /\ <<d, v>> \notin FileQuery
        /\ query[<<d, v>>].result \in Outcomes \union {None}
    BY QueryCases DEF TypeInv
  <2>2. \A r, a : Done(r, a).result = r
    BY DEF Done
  <2> QED
    BY <1>1, <2>1, <2>2, Settled, FreshType, TunnelType
<1> QED
  BY <1>2, <1>3, <1>4

-----------------------------------------------------------------------------
(* Queues, and the cache. *)

LEMMA Appended ==
  ASSUME NEW S, NEW s \in Seq(S), NEW e \in S
  PROVE  /\ Append(s, e) \in Seq(S) /\ Len(Append(s, e)) = Len(s) + 1
         /\ Items(Append(s, e)) = Items(s) \union {e}
<1>1. /\ Append(s, e) \in Seq(S) /\ Len(Append(s, e)) = Len(s) + 1 /\ Len(s) \in Nat
      /\ DOMAIN s = 1..Len(s) /\ DOMAIN Append(s, e) = 1..Len(s) + 1
      /\ \A k \in 1..Len(s) : Append(s, e)[k] = s[k]
      /\ Append(s, e)[Len(s) + 1] = e
  BY AppendProperties, LenProperties
<1>2. 1..Len(s) + 1 = (1..Len(s)) \union {Len(s) + 1}
  BY <1>1
<1> QED
  BY <1>1, <1>2 DEF Items

LEMMA Taken ==
  ASSUME NEW S, NEW s \in Seq(S), s # <<>>
  PROVE  /\ Head(s) \in S /\ Head(s) \in Items(s)
         /\ Tail(s) \in Seq(S) /\ Items(Tail(s)) \subseteq Items(s)
         /\ Len(s) \in Nat /\ Len(Tail(s)) = Len(s) - 1
<1>1. /\ Tail(s) \in Seq(S) /\ Len(Tail(s)) = Len(s) - 1 /\ Len(s) \in Nat /\ Len(s) # 0
      /\ Head(s) = s[1] /\ DOMAIN s = 1..Len(s) /\ DOMAIN Tail(s) = 1..Len(s) - 1
      /\ \A k \in 1..Len(s) - 1 : Tail(s)[k] = s[k + 1]
  BY HeadTailProperties, LenProperties, EmptySeq
<1>2. 1 \in DOMAIN s /\ \A k \in DOMAIN Tail(s) : k + 1 \in DOMAIN s
  BY <1>1
<1>3. Items(Tail(s)) \subseteq Items(s)
  BY <1>1, <1>2 DEF Items
<1>4. s[1] \in S
  BY <1>2, ElementOfSeq
<1> QED
  BY <1>1, <1>2, <1>3, <1>4 DEF Items

LEMMA Cut ==
  ASSUME NEW S, NEW s \in Seq(S), NEW m \in Nat \ {0}, NEW n \in Nat, n <= Len(s)
  PROVE  /\ SubSeq(s, m, n) \in Seq(S)
         /\ Items(SubSeq(s, m, n)) \subseteq Items(s)
         /\ Len(SubSeq(s, m, n)) = IF m <= n THEN n - m + 1 ELSE 0
         /\ \A k \in 1..Len(SubSeq(s, m, n)) : SubSeq(s, m, n)[k] = s[m + k - 1]
<1>1. Len(s) \in Nat /\ DOMAIN s = 1..Len(s)
  BY LenProperties
<1>2. CASE m <= n
  <2>1. /\ SubSeq(s, m, n) \in Seq(S) /\ Len(SubSeq(s, m, n)) = n - m + 1
        /\ \A k \in 1..n - m + 1 : SubSeq(s, m, n)[k] = s[m + k - 1]
    BY <1>1, <1>2, SubSeqProperties
  <2>2. DOMAIN SubSeq(s, m, n) = 1..n - m + 1
    BY <2>1, LenProperties
  <2>3. \A k \in 1..n - m + 1 : m + k - 1 \in DOMAIN s
    BY <1>1
  <2> QED
    BY <1>2, <2>1, <2>2, <2>3 DEF Items
<1>3. CASE m > n
  <2>1. SubSeq(s, m, n) = <<>>
    BY <1>3, SubSeqEmpty
  <2> QED
    BY <1>3, <2>1 DEF Items
<1> QED
  BY <1>2, <1>3

LEMMA Joined ==
  ASSUME NEW S, NEW s \in Seq(S), NEW t \in Seq(S)
  PROVE  s \o t \in Seq(S) /\ Items(s \o t) \subseteq Items(s) \union Items(t)
<1>1. /\ s \o t \in Seq(S) /\ Len(s \o t) = Len(s) + Len(t)
      /\ \A k \in 1..Len(s) + Len(t) :
           (s \o t)[k] = IF k <= Len(s) THEN s[k] ELSE t[k - Len(s)]
  BY ConcatProperties
<1>2. /\ Len(s) \in Nat /\ Len(t) \in Nat /\ DOMAIN s = 1..Len(s) /\ DOMAIN t = 1..Len(t)
      /\ DOMAIN (s \o t) = 1..Len(s) + Len(t)
  BY <1>1, LenProperties
<1>3. ASSUME NEW k \in 1..Len(s) + Len(t)
      PROVE  k \in DOMAIN s \/ (k > Len(s) /\ k - Len(s) \in DOMAIN t)
  BY <1>2
<1> QED
  BY <1>1, <1>2, <1>3 DEF Items

LEMMA WithoutFacts ==
  ASSUME NEW S, cache \in Seq(S), NEW f
  PROVE  Without(f) \in Seq(S) /\ Items(Without(f)) \subseteq Items(cache)
<1> DEFINE Found(k) == cache[k].format = f
           n == CHOOSE k \in DOMAIN cache : Found(k)
<1>1. CASE \E k \in DOMAIN cache : Found(k)
  <2>1. n \in DOMAIN cache
    BY <1>1
  <2>2. Len(cache) \in Nat /\ DOMAIN cache = 1..Len(cache)
    BY LenProperties
  <2>3. n \in 1..Len(cache)
    BY <2>1, <2>2
  <2>4. Without(f) = SubSeq(cache, 1, n - 1) \o SubSeq(cache, n + 1, Len(cache))
    BY <1>1 DEF Without
  <2> HIDE DEF n
  <2>5. /\ SubSeq(cache, 1, n - 1) \in Seq(S) /\ Items(SubSeq(cache, 1, n - 1)) \subseteq Items(cache)
        /\ SubSeq(cache, n + 1, Len(cache)) \in Seq(S)
        /\ Items(SubSeq(cache, n + 1, Len(cache))) \subseteq Items(cache)
    <3>1. n - 1 \in Nat /\ n - 1 <= Len(cache) /\ n + 1 \in Nat \ {0}
      BY <2>2, <2>3
    <3> QED
      BY <2>2, <3>1, Cut
  <2> DEFINE a == SubSeq(cache, 1, n - 1)
             b == SubSeq(cache, n + 1, Len(cache))
  <2>6. a \in Seq(S) /\ b \in Seq(S) /\ Items(a) \union Items(b) \subseteq Items(cache)
        /\ Without(f) = a \o b
    BY <2>4, <2>5
  <2> HIDE DEF a, b
  <2>7. a \o b \in Seq(S) /\ Items(a \o b) \subseteq Items(a) \union Items(b)
    BY <2>6, Joined
  <2> QED
    BY <2>6, <2>7
<1>2. CASE ~ \E k \in DOMAIN cache : Found(k)
  BY <1>2 DEF Without
<1> QED
  BY <1>1, <1>2

\* The cache after a put is within its size and holds old entries and the new one.
LEMMA PutFacts ==
  ASSUME NEW S, cache \in Seq(S), NEW e \in S
  PROVE  /\ Put(e) \in Seq(S) /\ Len(Put(e)) <= CacheSize
         /\ Items(Put(e)) \subseteq Items(cache) \union {e}
<1> DEFINE t == Append(Without(e.format), e)
<1>1. /\ t \in Seq(S) /\ Items(t) \subseteq Items(cache) \union {e}
      /\ Len(t) \in Nat
  BY WithoutFacts, Appended, LenProperties
<1> DEFINE m == IF Len(t) > CacheSize THEN Len(t) - CacheSize + 1 ELSE 1
<1>2. Put(e) = SubSeq(t, m, Len(t))
  BY DEF Put, LastOf
<1> HIDE DEF t
<1>3. m \in Nat \ {0} /\ CacheSize \in Nat \ {0}
  BY <1>1, TunnelAssumption
<1>4. Len(t) <= Len(t)
  BY <1>1
<1>5. (IF m <= Len(t) THEN Len(t) - m + 1 ELSE 0) <= CacheSize
  BY <1>1, <1>3
<1> HIDE DEF m
<1>6. /\ SubSeq(t, m, Len(t)) \in Seq(S) /\ Items(SubSeq(t, m, Len(t))) \subseteq Items(t)
      /\ Len(SubSeq(t, m, Len(t))) <= CacheSize
  BY <1>1, <1>3, <1>4, <1>5, Cut
<1> QED
  BY <1>1, <1>2, <1>6

-----------------------------------------------------------------------------
(* The types, and the registry. *)

LEMMA TypeInit == Init => TypeInv
<1> SUFFICES ASSUME Init PROVE TypeInv
  OBVIOUS
<1>1. query = [q \in Query |-> Fresh] /\ Fresh \in Asked
  BY FreshType DEF Init
<1>2. \A q \in Query : query[q] = Fresh
  BY <1>1
<1>3. NotAsked \in Reply
  BY DEF NotAsked, Reply, Shown
<1>4. diff \in [Diff -> Reply] /\ query \in [Query -> Asked]
  BY <1>1, <1>3 DEF Init
<1>5. cache \in Seq(Entry) /\ Len(cache) <= CacheSize /\ <<>> \in Seq(Query) /\ <<>> \in Seq(Message)
  BY TunnelAssumption, EmptySeq DEF Init
<1>6. TypeOK
  BY <1>4, <1>5, TunnelAssumption DEF Init, TypeOK
<1>7. RegistrySound
  BY <1>2, FreshType DEF Init, RegistrySound
<1> QED
  BY <1>2, <1>6, <1>7, QueryCases, FreshType DEF TypeInv

\* The history of an answer.
LEMMA NotedType ==
  ASSUME TypeInv, NEW q \in Query, NEW a \in Answers(q) \union {"error"}
  PROVE  /\ Noted(q, a) \in [Diff -> SUBSET Side]
         /\ q \in FileQuery => Noted(q, a) = missed
<1>1. missed \in [Diff -> SUBSET Side]
  BY DEF TypeInv, TypeOK
<1>2. CASE q \in FileQuery
  <2>1. a # "gone"
    BY <1>2 DEF Answers, Of
  <2> QED
    BY <1>1, <2>1 DEF Noted
<1>3. CASE q \notin FileQuery
  <2>1. PICK d \in Diff, s \in Side : q = <<d, s>>
    BY <1>3, QueryCases
  <2> QED
    BY <1>1, <1>3, <2>1 DEF Noted
<1> QED
  BY <1>2, <1>3

\* A query is settled, or set to a value, and the registry keeps what it says.
LEMMA SetQuery ==
  ASSUME TypeInv, NEW q \in Query, NEW v \in Asked, query' = [query EXCEPT ![q] = v],
         q \notin FileQuery => v.result \in Outcomes \union {None}
  PROVE  /\ query' \in [Query -> Asked] /\ query'[q] = v
         /\ \A p \in Query \ {q} : query'[p] = query[p]
         /\ \A d \in Diff, s \in Side : query'[<<d, s>>].result \in Outcomes \union {None}
<1>1. /\ query' \in [Query -> Asked] /\ query'[q] = v
      /\ \A p \in Query \ {q} : query'[p] = query[p]
  BY DEF TypeInv, TypeOK
<1> QED
  BY <1>1, QueryCases DEF TypeInv

\* The steps of a query or of a diff, which leave the registry alone.
LEMMA OffTunnel ==
  ASSUME TypeInv, UNCHANGED <<tunnelVars, pending>>,
         query' \in [Query -> Asked], diff' \in [Diff -> Reply],
         cache' \in Seq(Entry), Len(cache') <= CacheSize,
         hashes' = hashes, blobs' \subseteq hashes, faults' \in 0..MaxFaults,
         missed' \in [Diff -> SUBSET Side], gaps' \subseteq {FormatOf[d] : d \in Diff} \X Side,
         \A q \in Query : query'[q].at = "waiting" => query[q].at = "waiting",
         \A d \in Diff, s \in Side : query'[<<d, s>>].result \in Outcomes \union {None}
  PROVE  TypeInv'
  BY DEF TypeInv, TypeOK, RegistrySound, tunnelVars

\* The steps of the connections.
LEMMA OnTunnel ==
  ASSUME TypeInv, UNCHANGED <<diff, cache, gaps, hashes, blobs>>,
         missed' \in [Diff -> SUBSET Side],
         agent' \in Conn \union {None},
         conn' \in [Conn -> {"none", "accepted", "entering", "open", "ended", "gone"}],
         current' \in Conn \union {None}, pending' \subseteq Query, gauge' \in Nat,
         down' \in [Conn -> Seq(Query)], up' \in [Conn -> Seq(Message)],
         \A c \in Conn : Len(down'[c]) <= Capacity /\ Len(up'[c]) <= Capacity,
         query' \in [Query -> Asked], faults' \in 0..MaxFaults, alone' \subseteq Conn,
         RegistrySound',
         \A d \in Diff, s \in Side : query'[<<d, s>>].result \in Outcomes \union {None}
  PROVE  TypeInv'
  BY DEF TypeInv, TypeOK

LEMMA TypeStep == TypeInv /\ [Next]_vars => TypeInv'
<1> SUFFICES ASSUME TypeInv, [Next]_vars PROVE TypeInv'
  OBVIOUS
<1> USE TunnelAssumption
<1>0. /\ agent \in Conn \union {None} /\ current \in Conn \union {None}
      /\ conn \in [Conn -> {"none", "accepted", "entering", "open", "ended", "gone"}]
      /\ pending \subseteq Query /\ gauge \in Nat
      /\ down \in [Conn -> Seq(Query)] /\ up \in [Conn -> Seq(Message)]
      /\ query \in [Query -> Asked] /\ diff \in [Diff -> Reply]
      /\ cache \in Seq(Entry) /\ Len(cache) <= CacheSize
      /\ faults \in 0..MaxFaults /\ alone \subseteq Conn
      /\ \A c \in Conn : Len(down[c]) <= Capacity /\ Len(up[c]) <= Capacity
      /\ missed \in [Diff -> SUBSET Side] /\ gaps \subseteq {FormatOf[d] : d \in Diff} \X Side
      /\ hashes \subseteq Side /\ blobs \subseteq hashes
  BY DEF TypeInv, TypeOK
<1>a. /\ current # None => conn[current] \in {"open", "ended"}
      /\ current = None => pending = {}
      /\ \A q \in Query : query[q].at = "waiting" => q \in pending
      /\ gauge >= IF current = None THEN 0 ELSE 1
      /\ \A d \in Diff, s \in Side : query[<<d, s>>].result \in Outcomes \union {None}
  BY DEF TypeInv, RegistrySound
<1>b. None \notin Conn
  BY ConnIsNot
<1>1. CASE UNCHANGED vars
  BY <1>1 DEF TypeInv, TypeOK, RegistrySound, vars
<1>2. ASSUME NEW c \in Conn, Connect(c) PROVE TypeInv'
  <2>1. RegistrySound'
    BY <1>0, <1>a, <1>b, <1>2 DEF Connect, RegistrySound
  <2>2. /\ conn' \in [Conn -> {"none", "accepted", "entering", "open", "ended", "gone"}]
        /\ alone' \subseteq Conn
    BY <1>0, <1>2 DEF Connect
  <2> QED
    BY <1>0, <1>a, <1>2, <2>1, <2>2, OnTunnel DEF Connect, diffVars
<1>3. ASSUME NEW c \in Conn, Register(c) PROVE TypeInv'
  <2>1. /\ query' \in [Query -> Asked]
        /\ \A q \in Query : query'[q].at # "waiting"
        /\ \A d \in Diff, v \in Side : query'[<<d, v>>].result \in Outcomes \union {None}
    BY <1>a, <1>3, SettleTypes DEF Register
  <2>2. /\ conn' \in [Conn -> {"none", "accepted", "entering", "open", "ended", "gone"}]
        /\ current' \in Conn \union {None} /\ gauge' \in Nat
        /\ current' # None => conn'[current'] = "open"
        /\ gauge' >= IF current' = None THEN 0 ELSE 1
    <3>1. CASE /\ conn[c] = "accepted" /\ conn' = [conn EXCEPT ![c] = "entering"]
               /\ current' = None /\ UNCHANGED gauge
      BY <1>0, <3>1
    <3>2. CASE /\ conn[c] = "entering" /\ conn' = [conn EXCEPT ![c] = "open"]
               /\ current' = c /\ gauge' = gauge + 1
      BY <1>0, <1>b, <3>2
    <3> QED
      BY <1>3, <3>1, <3>2 DEF Register, Enter
  <2>3. RegistrySound'
    BY <1>3, <2>1, <2>2 DEF Register, RegistrySound
  <2> QED
    BY <1>0, <1>3, <2>1, <2>2, <2>3, OnTunnel DEF Register, diffVars
<1>4. ASSUME NEW c \in Conn, Leave(c) PROVE TypeInv'
  <2>1. RegistrySound'
    BY <1>a, <1>4 DEF Leave, RegistrySound
  <2>2. /\ down' \in [Conn -> Seq(Query)] /\ faults' \in 0..MaxFaults
        /\ \A d \in Conn : Len(down'[d]) <= Capacity
    BY <1>0, <1>4, EmptySeq DEF Leave, Fault
  <2> QED
    BY <1>0, <1>a, <1>4, <2>1, <2>2, OnTunnel DEF Leave, diffVars
<1>5. ASSUME NEW c \in Conn, Hangup(c) PROVE TypeInv'
  <2>1. /\ conn' \in [Conn -> {"none", "accepted", "entering", "open", "ended", "gone"}]
        /\ conn'[c] = "ended" /\ \A d \in Conn \ {c} : conn'[d] = conn[d]
        /\ UNCHANGED <<agent, current, pending, gauge, query, alone>>
    BY <1>0, <1>5 DEF Hangup
  <2>2. RegistrySound'
    BY <1>0, <1>a, <2>1 DEF RegistrySound
  <2>3. /\ down' \in [Conn -> Seq(Query)] /\ up' \in [Conn -> Seq(Message)] /\ faults' \in 0..MaxFaults
        /\ \A d \in Conn : Len(down'[d]) <= Capacity /\ Len(up'[d]) <= Capacity
    BY <1>0, <1>5, EmptySeq DEF Hangup, Fault
  <2> QED
    BY <1>0, <1>a, <1>5, <2>1, <2>2, <2>3, OnTunnel DEF Hangup, diffVars
<1>6. ASSUME NEW c \in Conn, Unregister(c) PROVE TypeInv'
  <2>1. /\ conn' \in [Conn -> {"none", "accepted", "entering", "open", "ended", "gone"}]
        /\ UNCHANGED <<agent, down, up, diffVars, hashes, blobs, faults, alone>>
    BY <1>0, <1>6 DEF Unregister
  <2>2. CASE current # None
    <3>1. current' = None /\ gauge' = gauge - 1 /\ query' = Settle(pending, "error") /\ pending' = {}
      BY <1>6, <2>2 DEF Unregister, Removes
    <3>2. "error" \in Statuses
      BY DEF Statuses
    <3>3. /\ query' \in [Query -> Asked]
          /\ \A q \in Query : query'[q].at # "waiting"
          /\ \A d \in Diff, v \in Side : query'[<<d, v>>].result \in Outcomes \union {None}
      BY <1>a, <3>1, <3>2, SettleTypes
    <3>4. RegistrySound' /\ gauge' \in Nat
      BY <1>0, <1>a, <2>2, <3>1, <3>3, SMTT(40) DEF RegistrySound
    <3> QED
      BY <1>0, <2>1, <3>1, <3>3, <3>4, OnTunnel DEF diffVars
  <2>3. CASE current = None
    <3>1. UNCHANGED <<current, gauge, query, pending>>
      BY <1>6, <2>3 DEF Unregister, Removes
    <3>2. RegistrySound'
      BY <1>a, <2>3, <3>1 DEF RegistrySound
    <3> QED
      BY <1>0, <1>a, <2>1, <3>1, <3>2, OnTunnel DEF diffVars
  <2> QED
    BY <2>2, <2>3
<1>7. ASSUME NEW c \in Conn, Serve(c) PROVE TypeInv'
  <2>1. down[c] \in Seq(Query) /\ down[c] # <<>> /\ up[c] \in Seq(Message)
    BY <1>0, <1>7 DEF Serve
  <2>2. /\ Head(down[c]) \in Query /\ Tail(down[c]) \in Seq(Query)
        /\ Len(Tail(down[c])) = Len(down[c]) - 1 /\ Len(down[c]) \in Nat
    BY <2>1, Taken
  <2>3. PICK a \in Answers(Head(down[c])) :
          /\ up' = [up EXCEPT ![c] = Append(@, [about |-> Head(down[c]), status |-> Told(a)])]
          /\ missed' = Noted(Head(down[c]), a)
    BY <1>7 DEF Serve
  <2>4. [about |-> Head(down[c]), status |-> Told(a)] \in Message
    BY <2>2, ToldType DEF Message
  <2> DEFINE u == Append(up[c], [about |-> Head(down[c]), status |-> Told(a)])
  <2>5. u \in Seq(Message) /\ Len(u) = Len(up[c]) + 1 /\ Len(up[c]) \in Nat
    BY <2>1, <2>4, Appended, LenProperties
  <2>9. up' = [up EXCEPT ![c] = u] /\ down' = [down EXCEPT ![c] = Tail(@)] /\ Len(up[c]) < Capacity
    BY <1>7, <2>3 DEF Serve
  <2> HIDE DEF u
  <2>6. /\ up' \in [Conn -> Seq(Message)] /\ down' \in [Conn -> Seq(Query)]
        /\ \A d \in Conn : Len(down'[d]) <= Capacity /\ Len(up'[d]) <= Capacity
    BY <1>0, <2>2, <2>5, <2>9, SMTT(40)
  <2>8. missed' \in [Diff -> SUBSET Side]
    BY <2>2, <2>3, NotedType
  <2>7. RegistrySound'
    BY <1>a, <1>7 DEF Serve, RegistrySound
  <2> QED
    BY <1>0, <1>a, <1>7, <2>6, <2>7, <2>8, OnTunnel DEF Serve
<1>8. ASSUME NEW c \in Conn, Deliver(c) PROVE TypeInv'
  <2> DEFINE m == Head(up[c])
  <2>1. up[c] \in Seq(Message) /\ up[c] # <<>>
    BY <1>0, <1>8 DEF Deliver
  <2>2. /\ m \in Message /\ Tail(up[c]) \in Seq(Message)
        /\ Len(Tail(up[c])) = Len(up[c]) - 1 /\ Len(up[c]) \in Nat
    BY <2>1, Taken
  <2>3. /\ query' = Settle(Answered(m.about), m.status) /\ pending' = pending \ Answered(m.about)
        /\ up' = [up EXCEPT ![c] = Tail(@)]
        /\ UNCHANGED <<agent, conn, current, gauge, down, diffVars, hashes, blobs, faults, alone>>
    BY <1>8 DEF Deliver
  <2>4. m.status \in Statuses
    BY <2>2 DEF Message
  <2> HIDE DEF m
  <2>5. /\ query' \in [Query -> Asked]
        /\ \A q \in Query : query'[q].at = "waiting" => query[q].at = "waiting" /\ q \notin Answered(m.about)
        /\ \A d \in Diff, v \in Side : query'[<<d, v>>].result \in Outcomes \union {None}
    BY <2>3, <2>4, SettleTypes
  <2>6. /\ up' \in [Conn -> Seq(Message)] /\ pending' \subseteq Query
        /\ \A d \in Conn : Len(up'[d]) <= Capacity
    BY <1>0, <2>2, <2>3
  <2>7. RegistrySound'
    BY <1>a, <2>3, <2>5 DEF RegistrySound
  <2> QED
    BY <1>0, <2>3, <2>5, <2>6, <2>7, OnTunnel DEF diffVars
\* Queries.
<1>9. ASSUME NEW q \in Query, Ask(q) PROVE TypeInv'
  <2> DEFINE v == [query[q] EXCEPT !.at = "waiting"]
  <2>1. query[q] \in Asked /\ q \notin FileQuery => query[q].result \in Outcomes \union {None}
    BY <1>0, <1>a, QueryCases
  <2>2. query[q] \in Asked
    BY <1>0
  <2>3. v \in Asked /\ v.result = query[q].result
    BY <2>2 DEF Asked
  <2>4. query' = [query EXCEPT ![q] = v]
    BY <1>9 DEF Ask
  <2> HIDE DEF v
  <2>5. /\ query' \in [Query -> Asked]
        /\ \A p \in Query \ {q} : query'[p] = query[p]
        /\ \A d \in Diff, s \in Side : query'[<<d, s>>].result \in Outcomes \union {None}
    BY <2>1, <2>2, <2>3, <2>4, SetQuery
  <2>6. /\ current \in Conn /\ down[current] \in Seq(Query)
        /\ Append(down[current], q) \in Seq(Query)
        /\ Len(Append(down[current], q)) = Len(down[current]) + 1
        /\ Len(down[current]) \in Nat /\ Len(down[current]) < Capacity
    BY <1>0, <1>9, Appended, LenProperties DEF Ask
  <2>7. /\ down' \in [Conn -> Seq(Query)] /\ \A c \in Conn : Len(down'[c]) <= Capacity
        /\ pending' = pending \union {q}
        /\ UNCHANGED <<agent, conn, current, gauge, up, diffVars, hashes, blobs, faults, alone>>
    BY <1>0, <1>9, <2>6 DEF Ask
  <2>8. RegistrySound'
    BY <1>a, <1>9, <2>5, <2>7 DEF RegistrySound, Ask
  <2> QED
    BY <1>0, <2>5, <2>7, <2>8, OnTunnel DEF diffVars
\* A query goes to HTTP, or ends.
<1>10. ASSUME NEW q \in Query, NEW v \in Asked, query' = [query EXCEPT ![q] = v],
              v.at # "waiting", q \notin FileQuery => v.result \in Outcomes \union {None},
              missed' \in [Diff -> SUBSET Side],
              UNCHANGED <<tunnelVars, pending, diff, cache, gaps, hashes, blobs, faults>>
       PROVE  TypeInv'
  <2>1. /\ query' \in [Query -> Asked] /\ query'[q] = v
        /\ \A p \in Query \ {q} : query'[p] = query[p]
        /\ \A d \in Diff, s \in Side : query'[<<d, s>>].result \in Outcomes \union {None}
    BY <1>10, SetQuery
  <2>2. \A p \in Query : query'[p].at = "waiting" => query[p].at = "waiting"
    BY <1>10, <2>1
  <2> QED
    BY <1>0, <1>10, <2>1, <2>2, OffTunnel
<1>11. ASSUME NEW q \in Query, AskFails(q) \/ TimeOut(q) PROVE TypeInv'
  BY <1>0, <1>10, <1>11, FreshType DEF AskFails, TimeOut, diffVars
<1>12. ASSUME NEW q \in Query, Fetch(q) PROVE TypeInv'
  <2>1. PICK a \in Answers(q) \union {"error"} :
          LET r == FromHttp(q, Replied(a)) IN
          /\ query' = [query EXCEPT ![q] =
               Done(r, Record(q, IF r = "ok" THEN "success" ELSE "denied"))]
          /\ missed' = Noted(q, a)
    BY <1>12 DEF Fetch
  <2> DEFINE r == FromHttp(q, Replied(a))
             st == IF r = "ok" THEN "success" ELSE "denied"
  <2>2. query' = [query EXCEPT ![q] = Done(r, Record(q, st))]
    BY <2>1
  <2>3. /\ q \in FileQuery => r \in {"ok", "denied", "large", "failed"}
        /\ q \notin FileQuery => r \in Outcomes
    BY HttpType
  <2>4. st \in Statuses
    BY DEF Statuses
  <2> HIDE DEF r, st
  <2>5. r \in Outcomes \union {None, "denied", "large", "failed"} /\ Record(q, st) \in Statuses \union {None}
    BY <2>3, <2>4, RecordType DEF Outcomes
  <2>6. Done(r, Record(q, st)) \in Asked /\ Done(r, Record(q, st)).at = "done"
        /\ Done(r, Record(q, st)).result = r
    BY <2>5, DoneType
  <2>7. UNCHANGED <<tunnelVars, pending, diff, cache, gaps, hashes, blobs, faults>>
    BY <1>12 DEF Fetch
  <2>8. missed' \in [Diff -> SUBSET Side]
    BY <2>1, NotedType
  <2> QED
    BY <1>10, <2>2, <2>3, <2>6, <2>7, <2>8
\* Diffs.
<1>13. ASSUME NEW d \in Diff, Hit(d) PROVE TypeInv'
  <2>1. PICK k \in DOMAIN cache :
          /\ diff' = [diff EXCEPT ![d] =
               [at |-> "done", code |-> 200, prev |-> cache[k].prev, curr |-> cache[k].curr,
                unavailable |-> FALSE]]
          /\ cache' = Put(cache[k])
    BY <1>13 DEF Hit
  <2>2. cache[k] \in Entry
    BY <1>0, <2>1, ElementOfSeq, LenProperties
  <2>3. [at |-> "done", code |-> 200, prev |-> cache[k].prev, curr |-> cache[k].curr,
         unavailable |-> FALSE] \in Reply
    BY <2>2 DEF Entry, Reply
  <2>4. diff' \in [Diff -> Reply]
    BY <1>0, <2>1, <2>3
  <2>5. cache' \in Seq(Entry) /\ Len(cache') <= CacheSize
    BY <1>0, <2>1, <2>2, PutFacts
  <2> QED
    BY <1>0, <1>a, <1>13, <2>4, <2>5, OffTunnel DEF Hit
<1>14. ASSUME NEW d \in Diff, Miss(d) PROVE TypeInv'
  <2>1. diff[d] \in Reply
    BY <1>0
  <2>2. [diff[d] EXCEPT !.at = "fetching"] \in Reply
    BY <2>1 DEF Reply
  <2>3. diff' \in [Diff -> Reply] /\ cache' = cache
    BY <1>0, <1>14, <2>2 DEF Miss
  <2> QED
    BY <1>0, <1>a, <1>14, <2>3, OffTunnel DEF Miss
<1>15. ASSUME NEW d \in Diff, Render(d) PROVE TypeInv'
  <2> DEFINE p == Outcome(d, "prev")
             c == Outcome(d, "curr")
             e == [format |-> FormatOf[d], prev |-> p, curr |-> c]
  <2>1. PICK code \in {Refusal(d), 200, 500} :
          /\ code = Refusal(d) => Refusal(d) # None
          /\ diff' = [diff EXCEPT ![d] =
               [at |-> "done", code |-> code, prev |-> p, curr |-> c,
                unavailable |-> code = 200 /\ p = "gone"]]
          /\ cache' \in {cache, Put(e)} /\ faults' \in 0..MaxFaults
          /\ UNCHANGED <<tunnelVars, pending, query, hashes, blobs>>
    BY <1>0, <1>15, SMTT(40) DEF Render, Fault
  <2>8. /\ missed' \in [Diff -> SUBSET Side]
        /\ gaps' \subseteq gaps \union ({FormatOf[d]} \X missed[d])
    BY <1>0, <1>15 DEF Render
  <2>9. gaps' \subseteq {FormatOf[b] : b \in Diff} \X Side
    BY <1>0, <2>8
  <2>2. Refusal(d) \in {503, 410, None}
    BY DEF Refusal
  <2>3. p \in Shown /\ c \in Shown
    BY <1>a DEF Outcome, Shown, Side
  <2> HIDE DEF p, c
  <2>4. e \in Entry
    BY <2>3 DEF Entry
  <2>5. [at |-> "done", code |-> code, prev |-> p, curr |-> c,
         unavailable |-> code = 200 /\ p = "gone"] \in Reply
    BY <2>1, <2>2, <2>3 DEF Reply
  <2>6. diff' \in [Diff -> Reply]
    BY <1>0, <2>1, <2>5
  <2> HIDE DEF e
  <2>7. cache' \in Seq(Entry) /\ Len(cache') <= CacheSize
    BY <1>0, <2>1, <2>4, PutFacts
  <2> QED
    BY <1>0, <1>a, <2>1, <2>6, <2>7, <2>8, <2>9, OffTunnel
<1>16. ASSUME NEW d \in Diff, Again(d) PROVE TypeInv'
  <2>1. /\ query' \in [Query -> Asked]
        /\ \A q \in Query : query'[q] = Fresh \/ query'[q] = query[q]
    BY <1>0, <1>16, FreshType DEF Again
  <2>2. \A q \in Query : query'[q].at = "waiting" => query[q].at = "waiting"
    BY <2>1, FreshType
  <2>3. \A e \in Diff, s \in Side : query'[<<e, s>>].result \in Outcomes \union {None}
    BY <1>a, <2>1, FreshType, QueryCases
  <2>4. NotAsked \in Reply
    BY DEF NotAsked, Reply, Shown
  <2>5. diff' \in [Diff -> Reply] /\ UNCHANGED <<tunnelVars, pending, cache, missed, gaps, hashes, blobs, faults>>
    BY <1>0, <1>16, <2>4 DEF Again
  <2> QED
    BY <1>0, <2>1, <2>2, <2>3, <2>5, OffTunnel
<1>17. ASSUME NEW s \in Side, Sweep(s) PROVE TypeInv'
  BY <1>0, <1>a, <1>17, OffTunnel DEF Sweep, diffVars
<1>20. ASSUME NEW s \in Side, Keep(s) PROVE TypeInv'
  BY <1>0, <1>a, <1>20, OffTunnel DEF Keep, diffVars
<1>18. \A d \in Diff, s \in Side : <<d, s>> \in Query
  BY QueryCases
<1>19. FileQuery \subseteq Query
  BY DEF Query
<1> QED
  BY <1>1, <1>2, <1>3, <1>4, <1>5, <1>6, <1>7, <1>8, <1>9, <1>11, <1>12, <1>13, <1>14, <1>15,
     <1>16, <1>17, <1>18, <1>19, <1>20 DEF Next, Link, Answering, Rendering

\* Every variable keeps its type, the channels and the cache their bounds, and the gauge of the
\* connections never goes under zero.
THEOREM TypeCorrect == Spec => []TypeOK
<1>1. TypeInv => TypeOK
  BY DEF TypeInv
<1> QED
  BY <1>1, TypeInit, TypeStep, PTL DEF Spec

\* The entry of the registry is that of a handler that is still there, and no
\* query waits outside it, whatever order handlers register and leave in.
THEOREM RegistryCorrect == Spec => []RegistrySound
<1>1. TypeInv => RegistrySound
  BY DEF TypeInv
<1> QED
  BY <1>1, TypeInit, TypeStep, PTL DEF Spec

-----------------------------------------------------------------------------
(* The route to the agent. *)

\* A connection that was alone stays so but for later ones: the handlers of the
\* earlier ones have left, so only its own steps, or a later one, touch the entry.
RouteInv ==
  \A c \in alone :
    /\ \A d \in Conn : d < c => conn[d] = "gone"
    /\ (conn[c] = "open" /\ \A d \in Conn : d > c => conn[d] = "none") => current = c

\* A step of the handler of connection h, other than its registration.
LEMMA RouteHandler ==
  ASSUME TypeInv, RouteInv, NEW h \in Conn, conn[h] \notin {"none", "gone"},
         NEW s \in {"entering", "open", "ended", "gone"}, conn' = [conn EXCEPT ![h] = s],
         s = "open" => current' = h,
         alone' = alone
  PROVE  RouteInv'
<1>1. /\ conn \in [Conn -> {"none", "accepted", "entering", "open", "ended", "gone"}]
      /\ alone \subseteq Conn /\ \A c \in Conn : c \in Nat
  BY ConnIsNot DEF TypeInv, TypeOK
<1>2. conn'[h] = s /\ \A d \in Conn \ {h} : conn'[d] = conn[d]
  BY <1>1
<1>3. ASSUME NEW c \in alone', NEW d \in Conn, d < c PROVE conn'[d] = "gone"
  BY <1>1, <1>2, <1>3 DEF RouteInv
<1>4. ASSUME NEW c \in alone', conn'[c] = "open", \A d \in Conn : d > c => conn'[d] = "none"
      PROVE  current' = c
  <2>1. c = h
    <3>1. ~(h > c)
      BY <1>2, <1>4
    <3>2. ~(h < c)
      BY <1>1 DEF RouteInv
    <3>3. c \in Nat /\ h \in Nat
      BY <1>1
    <3> QED
      BY <3>1, <3>2, <3>3
  <2> QED
    BY <1>2, <1>4, <2>1
<1> QED
  BY <1>3, <1>4 DEF RouteInv

LEMMA RouteStep == TypeInv /\ RouteInv /\ [Next]_vars => RouteInv'
<1> SUFFICES ASSUME TypeInv, RouteInv, [Next]_vars PROVE RouteInv'
  OBVIOUS
<1>0. /\ conn \in [Conn -> {"none", "accepted", "entering", "open", "ended", "gone"}]
      /\ alone \subseteq Conn /\ \A c \in Conn : c \in Nat
  BY ConnIsNot DEF TypeInv, TypeOK
<1>1. CASE UNCHANGED <<conn, current, alone>>
  BY <1>1 DEF RouteInv
<1>2. ASSUME NEW c \in Conn, Connect(c) PROVE RouteInv'
  <2>1. conn'[c] = "accepted" /\ \A d \in Conn \ {c} : conn'[d] = conn[d]
    BY <1>0, <1>2 DEF Connect
  <2>2. conn[c] = "none" /\ current' = current /\ alone' \subseteq alone \union {c}
        /\ (c \in alone' => c \in alone \/ \A d \in Conn : d < c => conn[d] = "gone")
    BY <1>0, <1>2 DEF Connect, Conn
  <2>3. ASSUME NEW b \in alone', NEW d \in Conn, d < b PROVE conn'[d] = "gone"
    <3>1. conn[d] = "gone"
      BY <2>2, <2>3 DEF RouteInv
    <3> QED
      BY <2>1, <2>2, <3>1
  <2>4. ASSUME NEW b \in alone', conn'[b] = "open", \A d \in Conn : d > b => conn'[d] = "none"
        PROVE  current' = b
    <3>1. b # c /\ b \in alone /\ ~(c > b)
      BY <2>1, <2>2, <2>4
    <3>2. ~(c < b)
      BY <2>2, <3>1 DEF RouteInv
    <3>3. b \in Nat /\ c \in Nat
      BY <1>0, <3>1
    <3> QED
      BY <3>1, <3>2, <3>3
  <2> QED
    BY <2>3, <2>4 DEF RouteInv
<1>3. ASSUME NEW c \in Conn, Register(c) \/ Hangup(c) \/ Unregister(c) PROVE RouteInv'
  BY <1>3, RouteHandler DEF Register, Enter, Hangup, Unregister
<1>4. CASE /\ Next \/ UNCHANGED vars
           /\ ~(\E c \in Conn : Connect(c) \/ Register(c) \/ Hangup(c) \/ Unregister(c))
  <2>1. ASSUME NEW c \in Conn, Leave(c) \/ Serve(c) \/ Deliver(c) PROVE UNCHANGED <<conn, current, alone>>
    BY <2>1 DEF Leave, Serve, Deliver
  <2>2. ASSUME NEW q, Ask(q) \/ AskFails(q) \/ Answering(q) PROVE UNCHANGED <<conn, current, alone>>
    BY <2>2 DEF Ask, AskFails, Answering, TimeOut, Fetch, tunnelVars
  <2>3. ASSUME NEW d \in Diff, Hit(d) \/ Miss(d) \/ Render(d) \/ Again(d)
        PROVE  UNCHANGED <<conn, current, alone>>
    BY <2>3 DEF Hit, Miss, Render, Again, tunnelVars
  <2>4. ASSUME NEW s \in Side, Sweep(s) \/ Keep(s) PROVE UNCHANGED <<conn, current, alone>>
    BY <2>4 DEF Sweep, Keep, tunnelVars
  <2>5. CASE UNCHANGED vars
    BY <1>1, <2>5 DEF vars
  <2> QED
    BY <1>1, <1>4, <2>1, <2>2, <2>3, <2>4, <2>5 DEF Next, Link, Rendering
<1> QED
  BY <1>2, <1>3, <1>4

\* A connection that found no other handler and is not followed by another has the
\* entry of the host as long as it is open.
THEOREM AgentRouted == Spec => []Routed
<1>1. Init => RouteInv
  BY DEF Init, RouteInv
<1>2. RouteInv => Routed
  BY DEF RouteInv, Routed
<1> QED
  BY <1>1, <1>2, TypeInit, TypeStep, RouteStep, PTL DEF Spec

-----------------------------------------------------------------------------
(* What the answers say. *)

\* A query about a revision belongs to a diff being fetched as long as it is under
\* way, and nothing is said about one that has not been asked.
StageInv ==
  /\ \A d \in Diff, s \in Side :
       /\ query[<<d, s>>].at # "idle" => diff[d].at # "idle" /\ s \in hashes
       /\ query[<<d, s>>].at \in {"waiting", "http"} => diff[d].at = "fetching"
  /\ \A q \in Query : query[q].at = "idle" =>
       \A c \in Conn : q \notin Items(down[c]) /\ \A m \in Items(up[c]) : m.about # q

LEMMA StageInit == Init => StageInv
<1> SUFFICES ASSUME Init PROVE StageInv
  OBVIOUS
<1>1. \A c \in Conn : Items(down[c]) = {} /\ Items(up[c]) = {}
  BY DEF Init, Items
<1>2. \A q \in Query : query[q].at = "idle"
  BY FreshType DEF Init
<1> QED
  BY <1>1, <1>2, QueryCases DEF StageInv

\* How a settled query moves.
LEMMA SettleMoves ==
  ASSUME TypeInv, NEW s, NEW st \in Statuses \union {None}, NEW q \in Query
  PROVE  \/ Settle(s, st)[q] = query[q]
         \/ query[q].at = "waiting" /\ Settle(s, st)[q].at \in {"http", "done"}
<1>1. \A r, a : Done(r, a).at = "done"
  BY DEF Done
<1>2. query \in [Query -> Asked]
  BY DEF TypeInv, TypeOK
<1> QED
  BY <1>1, <1>2, Settled, FreshType

LEMMA StageStep == TypeInv /\ StageInv /\ [Next]_vars => StageInv'
<1> SUFFICES ASSUME TypeInv, StageInv, [Next]_vars PROVE StageInv'
  OBVIOUS
<1>0. /\ query \in [Query -> Asked] /\ diff \in [Diff -> Reply]
      /\ down \in [Conn -> Seq(Query)] /\ up \in [Conn -> Seq(Message)]
      /\ current \in Conn \union {None} /\ hashes \subseteq Side
      /\ Items(<<>>) = {}
  BY DEF TypeInv, TypeOK, Items
<1>a. /\ FileQuery \subseteq Query
      /\ \A d \in Diff, s \in Side : <<d, s>> \in Query /\ <<d, s>> \notin FileQuery
  BY QueryCases DEF Query
\* Queries move on, and messages about a query come from a query.
<1>1. ASSUME hashes' = hashes, diff' = diff,
             \A q \in Query :
               \/ query'[q] = query[q]
               \/ query[q].at \in {"waiting", "http"} /\ query'[q].at \in {"http", "done"},
             \A c \in Conn :
               /\ Items(down'[c]) \subseteq Items(down[c])
               /\ \A m \in Items(up'[c]) :
                    m \in Items(up[c]) \/ \E b \in Conn : m.about \in Items(down[b])
      PROVE  StageInv'
  <2>1. ASSUME NEW d \in Diff, NEW s \in Side
        PROVE  /\ query'[<<d, s>>].at # "idle" => diff'[d].at # "idle" /\ s \in hashes'
               /\ query'[<<d, s>>].at \in {"waiting", "http"} => diff'[d].at = "fetching"
    BY <1>a, <1>1 DEF StageInv
  <2>2. ASSUME NEW q \in Query, query'[q].at = "idle", NEW c \in Conn
        PROVE  q \notin Items(down'[c]) /\ \A m \in Items(up'[c]) : m.about # q
    <3>1. query[q].at = "idle"
      BY <1>1, <2>2
    <3> QED
      BY <1>1, <3>1 DEF StageInv
  <2> QED
    BY <2>1, <2>2 DEF StageInv, Items
<1>2. CASE UNCHANGED <<query, diff, down, up, hashes>>
  BY <1>1, <1>2
<1>3. ASSUME NEW s, NEW st \in Statuses \union {None}, query' = Settle(s, st),
             UNCHANGED <<diff, hashes, down>>,
             \A c \in Conn : Items(up'[c]) \subseteq Items(up[c])
      PROVE  StageInv'
  BY <1>1, <1>3, SettleMoves
<1>4. ASSUME NEW c \in Conn, Register(c) \/ Connect(c) PROVE StageInv'
  BY <1>2, <1>3, <1>4 DEF Register, Connect, diffVars
<1>5. ASSUME NEW c \in Conn, Unregister(c) PROVE StageInv'
  BY <1>2, <1>3, <1>5 DEF Unregister, Statuses, diffVars
<1>6. ASSUME NEW c \in Conn, Leave(c) \/ Hangup(c) PROVE StageInv'
  <2>1. UNCHANGED <<diff, hashes, query>>
    BY <1>6 DEF Leave, Hangup, diffVars
  <2>2. \A d \in Conn : Items(down'[d]) \subseteq Items(down[d]) /\ Items(up'[d]) \subseteq Items(up[d])
    BY <1>0, <1>6 DEF Leave, Hangup
  <2> QED
    BY <1>1, <2>1, <2>2
<1>7. ASSUME NEW c \in Conn, Deliver(c) PROVE StageInv'
  <2>1. up[c] \in Seq(Message) /\ up[c] # <<>>
    BY <1>0, <1>7 DEF Deliver
  <2>2. Head(up[c]) \in Message /\ Items(Tail(up[c])) \subseteq Items(up[c])
    BY <2>1, Taken
  <2>3. Head(up[c]).status \in Statuses /\ \A d \in Conn : Items(up'[d]) \subseteq Items(up[d])
    BY <1>0, <1>7, <2>2 DEF Deliver, Message
  <2> QED
    BY <1>3, <1>7, <2>3 DEF Deliver, diffVars
<1>8. ASSUME NEW c \in Conn, Serve(c) PROVE StageInv'
  <2> DEFINE h == Head(down[c])
  <2>1. down[c] \in Seq(Query) /\ down[c] # <<>> /\ up[c] \in Seq(Message)
    BY <1>0, <1>8 DEF Serve
  <2>2. h \in Query /\ h \in Items(down[c]) /\ Items(Tail(down[c])) \subseteq Items(down[c])
    BY <2>1, Taken
  <2>3. PICK a \in Answers(h) : up' = [up EXCEPT ![c] = Append(@, [about |-> h, status |-> Told(a)])]
    BY <1>8 DEF Serve
  <2> HIDE DEF h
  <2> DEFINE m == [about |-> h, status |-> Told(a)]
  <2>4. m \in Message /\ m.about = h
    BY <2>2, ToldType DEF Message
  <2>5. up' = [up EXCEPT ![c] = Append(@, m)]
    BY <2>3
  <2> HIDE DEF m
  <2>6. Items(Append(up[c], m)) = Items(up[c]) \union {m}
    BY <2>1, <2>4, Appended
  <2>7. down' = [down EXCEPT ![c] = Tail(@)] /\ UNCHANGED <<query, diff, hashes>>
    BY <1>8 DEF Serve
  <2>8. \A d \in Conn : Items(down'[d]) \subseteq Items(down[d])
    BY <1>0, <2>2, <2>7
  <2>9. \A d \in Conn : \A n \in Items(up'[d]) : n \in Items(up[d]) \/ n = m
    BY <1>0, <2>5, <2>6
  <2> QED
    BY <1>1, <2>2, <2>4, <2>7, <2>8, <2>9
<1>9. ASSUME NEW q \in Query, Answering(q) PROVE StageInv'
  <2>1. /\ query[q].at \in {"waiting", "http"} /\ query'[q].at \in {"http", "done"}
        /\ \A p \in Query \ {q} : query'[p] = query[p]
    BY <1>0, <1>9, FreshType DEF Answering, TimeOut, Overdue, Fetch, Done
  <2>2. UNCHANGED <<diff, hashes, down, up>>
    BY <1>9 DEF Answering, TimeOut, Fetch, tunnelVars, diffVars
  <2> QED
    BY <1>1, <2>1, <2>2
<1>10. ASSUME NEW q \in Query, Ask(q) \/ AskFails(q) PROVE StageInv'
  <2>1. /\ query'[q].at \in {"waiting", "http"} /\ \A p \in Query \ {q} : query'[p] = query[p]
        /\ UNCHANGED <<diff, hashes, up>> /\ May(q)
    BY <1>0, <1>10, FreshType DEF Ask, AskFails, Asked, tunnelVars, diffVars
  <2>2. \A c \in Conn : Items(down'[c]) \subseteq Items(down[c]) \union {q}
    <3>1. CASE Ask(q)
      <4>1. current \in Conn /\ down[current] \in Seq(Query)
            /\ Items(Append(down[current], q)) = Items(down[current]) \union {q}
        BY <1>0, <3>1, Appended DEF Ask
      <4> QED
        BY <1>0, <3>1, <4>1 DEF Ask
    <3>2. CASE AskFails(q)
      BY <3>2 DEF AskFails, tunnelVars
    <3> QED
      BY <1>10, <3>1, <3>2
  <2>3. ASSUME NEW d \in Diff, NEW s \in Side
        PROVE  /\ query'[<<d, s>>].at # "idle" => diff'[d].at # "idle" /\ s \in hashes'
               /\ query'[<<d, s>>].at \in {"waiting", "http"} => diff'[d].at = "fetching"
    <3>1. CASE q = <<d, s>>
      <4>1. diff[d].at = "fetching" /\ s \in hashes
        BY <1>a, <2>1, <3>1 DEF May, Of
      <4> QED
        BY <2>1, <4>1
    <3>2. CASE q # <<d, s>>
      BY <1>a, <2>1, <3>2 DEF StageInv
    <3> QED
      BY <3>1, <3>2
  <2>4. ASSUME NEW p \in Query, query'[p].at = "idle", NEW c \in Conn
        PROVE  p \notin Items(down'[c]) /\ \A m \in Items(up'[c]) : m.about # p
    BY <2>1, <2>2, <2>4 DEF StageInv
  <2> QED
    BY <2>3, <2>4 DEF StageInv, Items
\* The steps of a diff, but for asking again.
<1>11. ASSUME NEW d \in Diff, NEW a, \A b \in Diff \ {d} : diff'[b] = diff[b], diff'[d].at = a,
              \/ diff[d].at = "idle"
              \/ /\ a = "done"
                 /\ \A s \in Side : query[<<d, s>>].at \in {"idle", "done"}
                 /\ diff[d].at = "fetching",
              a # "idle",
              UNCHANGED <<query, down, up, hashes>>
       PROVE  StageInv'
  <2>1. ASSUME NEW b \in Diff, NEW s \in Side
        PROVE  /\ query'[<<b, s>>].at # "idle" => diff'[b].at # "idle" /\ s \in hashes'
               /\ query'[<<b, s>>].at \in {"waiting", "http"} => diff'[b].at = "fetching"
    BY <1>11 DEF StageInv
  <2> QED
    BY <1>11, <2>1 DEF StageInv, Items
<1>12. ASSUME NEW d \in Diff, Hit(d) PROVE StageInv'
  <2>1. /\ diff[d].at = "idle" /\ diff'[d].at = "done" /\ \A b \in Diff \ {d} : diff'[b] = diff[b]
        /\ UNCHANGED <<query, down, up, hashes>>
    BY <1>0, <1>12 DEF Hit, tunnelVars
  <2> QED
    BY <1>11, <2>1
<1>13. ASSUME NEW d \in Diff, Miss(d) PROVE StageInv'
  <2>1. diff[d] \in Reply
    BY <1>0
  <2>2. /\ diff[d].at = "idle" /\ diff'[d].at = "fetching" /\ \A b \in Diff \ {d} : diff'[b] = diff[b]
        /\ UNCHANGED <<query, down, up, hashes>>
    BY <1>0, <1>13, <2>1 DEF Miss, tunnelVars, Reply
  <2> QED
    BY <1>11, <2>2
<1>14. ASSUME NEW d \in Diff, Render(d) PROVE StageInv'
  <2>1. /\ diff[d].at = "fetching" /\ diff'[d].at = "done" /\ \A b \in Diff \ {d} : diff'[b] = diff[b]
        /\ UNCHANGED <<query, down, up, hashes>>
        /\ \A s \in hashes : query[<<d, s>>].at = "done"
    BY <1>0, <1>14 DEF Render, tunnelVars
  <2>2. \A s \in Side : query[<<d, s>>].at \in {"idle", "done"}
    BY <2>1 DEF StageInv
  <2> QED
    BY <1>11, <2>1, <2>2
<1>15. ASSUME NEW d \in Diff, Again(d) PROVE StageInv'
  <2>1. /\ \A q \in Query : query'[q] = IF q \notin FileQuery /\ Of(q) = d THEN Fresh ELSE query[q]
        /\ diff[d].at = "done" /\ diff'[d].at = "idle" /\ \A b \in Diff \ {d} : diff'[b] = diff[b]
        /\ UNCHANGED <<down, up, hashes>>
    BY <1>0, <1>15 DEF Again, tunnelVars, NotAsked
  <2>2. \A b \in Diff, s \in Side : Of(<<b, s>>) = b
    BY <1>a DEF Of
  <2>3. ASSUME NEW b \in Diff, NEW s \in Side
        PROVE  /\ query'[<<b, s>>].at # "idle" => diff'[b].at # "idle" /\ s \in hashes'
               /\ query'[<<b, s>>].at \in {"waiting", "http"} => diff'[b].at = "fetching"
    <3>1. CASE b = d
      BY <1>a, <2>1, <2>2, <3>1, FreshType
    <3>2. CASE b # d
      BY <1>a, <2>1, <2>2, <3>2 DEF StageInv
    <3> QED
      BY <3>1, <3>2
  <2>4. ASSUME NEW q \in Query, query'[q].at = "idle", NEW c \in Conn
        PROVE  q \notin Items(down'[c]) /\ \A m \in Items(up'[c]) : m.about # q
    <3>1. CASE q \notin FileQuery /\ Of(q) = d
      <4>1. PICK s \in Side : q = <<d, s>>
        BY <2>2, <3>1, QueryCases
      <4> QED
        BY <1>15, <2>1, <4>1 DEF Again
    <3>2. CASE ~(q \notin FileQuery /\ Of(q) = d)
      BY <2>1, <2>4, <3>2 DEF StageInv
    <3> QED
      BY <3>1, <3>2
  <2> QED
    BY <2>3, <2>4 DEF StageInv, Items
<1>16. ASSUME NEW s \in Side, Sweep(s) \/ Keep(s) PROVE StageInv'
  BY <1>2, <1>16 DEF Sweep, Keep, tunnelVars, diffVars
<1>17. CASE UNCHANGED vars
  BY <1>2, <1>17 DEF vars
<1> QED
  BY <1>a, <1>4, <1>5, <1>6, <1>7, <1>8, <1>9, <1>10, <1>12, <1>13, <1>14, <1>15, <1>16, <1>17
     DEF Next, Link, Rendering

\* The result of a query is what the agent said about that path and that side: a
\* file is shown only if it may be, and a revision of a diff being fetched is gone
\* only if the agent has looked for it and not had it.
AnswerMatches ==
  /\ \A q \in FileQuery : query[q].at = "done" =>
       /\ query[q].result = "ok" => PathOf[q] \in {"watched", "large"}
       /\ query[q].result = "denied" => PathOf[q] \in {"denied", "outside"}
       /\ query[q].result = "large" => PathOf[q] = "large"
       /\ query[q].audit = "success" => query[q].result = "ok"
  /\ \A d \in Diff, s \in Side :
       diff[d].at = "fetching" /\ query[<<d, s>>].result = "gone" => s \in missed[d]

\* Only a revision that is not there is missed.
MissesOnlyAbsent ==
  [][\A d \in Diff : missed'[d] \subseteq missed[d] \union (hashes \ blobs)]_vars

\* A status told about a query fits its path, or its side by the history m.
Fits(q, st, m) ==
  /\ q \in FileQuery => /\ st = "success" => Abstract!Readable(q)
                        /\ st = "denied" => PathOf[q] = "denied"
                        /\ st # "gone"
  /\ q \notin FileQuery => /\ st \in {"success", "gone"} => PathOf[q[1]] \in {"watched", "large"}
                           /\ st = "gone" => q[2] \in m[q[1]]

\* The queries whose answers are in use when the diffs are at f.
Current(q, f) == q \in FileQuery \/ f[q[1]].at = "fetching"

\* And so does the state v of a query: it has no result before it is done, and
\* then one that an operator may be told.
Right(q, v, f, m) ==
  /\ v.at = "done" /\ Current(q, f) => Abstract!Truthful(q, v, m)
  /\ v.at # "done" => v.result = None /\ v.audit = None

AnswerInv ==
  /\ \A q \in Query : Right(q, query[q], diff, missed)
  /\ \A c \in Conn : \A m \in Items(up[c]) :
       query[m.about].at = "waiting" => Fits(m.about, m.status, missed)

LEMMA AnswerFits ==
  ASSUME TypeInv, NEW q \in Query, NEW a \in Answers(q), Current(q, diff)
  PROVE  Fits(q, Told(a), Noted(q, a))
<1>1. CASE q \in FileQuery
  <2>1. Of(q) = q /\ PathOf[q] \in {"watched", "denied", "outside", "large"}
    BY <1>1, TunnelAssumption DEF Of
  <2> QED
    BY <1>1, <2>1 DEF Answers, Told, Fits, Abstract!Readable
<1>2. CASE q \notin FileQuery
  <2>1. PICK d \in Diff, s \in Side : q = <<d, s>>
    BY <1>2, QueryCases
  <2>2. /\ Of(q) = d /\ q[1] = d /\ q[2] = s
        /\ PathOf[d] \in {"watched", "denied", "outside", "large"}
        /\ diff[d].at = "fetching" /\ missed \in [Diff -> SUBSET Side]
    BY <1>2, <2>1, TunnelAssumption DEF Of, Current, TypeInv, TypeOK
  <2>3. a = "gone" => s \in Noted(q, a)[d]
    BY <2>2 DEF Noted
  <2> QED
    BY <1>2, <2>2, <2>3 DEF Answers, Told, Fits
<1> QED
  BY <1>1, <1>2

LEMMA HttpFits ==
  ASSUME TypeInv, NEW q \in Query, NEW a \in Answers(q) \union {"error"},
         NEW r, r = FromHttp(q, Replied(a))
  PROVE  Right(q, Done(r, Record(q, IF r = "ok" THEN "success" ELSE "denied")), diff, Noted(q, a))
<1> DEFINE w == Record(q, IF r = "ok" THEN "success" ELSE "denied")
           m == Noted(q, a)
<1>1. Done(r, w).at = "done" /\ Done(r, w).result = r /\ Done(r, w).audit = w
  BY DEF Done
<1>2. CASE q \in FileQuery
  <2>1. Of(q) = q /\ PathOf[q] \in {"watched", "denied", "outside", "large"}
    BY <1>2, TunnelAssumption DEF Of
  <2>2. \/ r = "ok" /\ Abstract!Readable(q)
        \/ r = "denied" /\ PathOf[q] \in {"denied", "outside"}
        \/ r = "large" /\ PathOf[q] = "large" /\ KindOf[q] = "content"
        \/ r = "failed"
    BY <1>2, <2>1 DEF Answers, Replied, FromHttp, Abstract!Readable
  <2>3. IF KindOf[q] = "content" THEN w = None
        ELSE \/ r = "ok" /\ w = "success"
             \/ r # "ok" /\ w = "denied"
    BY <1>2 DEF Record
  <2> HIDE DEF w, m
  <2>4. Abstract!OfFile(q, Done(r, w))
    BY <1>1, <2>2, <2>3 DEF Abstract!OfFile
  <2>5. Right(q, Done(r, w), diff, m)
    BY <1>1, <1>2, <2>4 DEF Right, Abstract!Truthful
  <2> QED
    BY <2>5 DEF w, m
<1>3. CASE q \notin FileQuery /\ Current(q, diff)
  <2>1. PICK d \in Diff, s \in Side : q = <<d, s>>
    BY <1>3, QueryCases
  <2>2. /\ Of(q) = d /\ q[1] = d /\ q[2] = s
        /\ PathOf[d] \in {"watched", "denied", "outside", "large"}
        /\ diff[d].at = "fetching" /\ missed \in [Diff -> SUBSET Side]
    BY <1>3, <2>1, TunnelAssumption DEF Of, Current, TypeInv, TypeOK
  <2>3. a = "gone" => s \in m[d]
    BY <2>2 DEF Noted
  <2>4. \/ r = "ok" /\ PathOf[q[1]] \in {"watched", "large"}
        \/ r = "gone" /\ PathOf[q[1]] \in {"watched", "large"} /\ a = "gone"
        \/ r = "unreachable"
    BY <1>3, <2>2 DEF Answers, Replied, FromHttp
  <2>5. w = None
    BY <1>3 DEF Record
  <2> HIDE DEF w, m
  <2>6. Abstract!OfRevision(q, Done(r, w), m)
    BY <1>1, <2>2, <2>3, <2>4, <2>5 DEF Abstract!OfRevision
  <2>7. Right(q, Done(r, w), diff, m)
    BY <1>1, <1>3, <2>6 DEF Right, Abstract!Truthful
  <2> QED
    BY <2>7 DEF w, m
<1>4. CASE ~Current(q, diff)
  BY <1>1, <1>4 DEF Right
<1> QED
  BY <1>2, <1>3, <1>4 DEF Current

LEMMA EmptyFits ==
  ASSUME NEW q \in Query, NEW f, NEW m
  PROVE  Right(q, Fresh, f, m) /\ Right(q, OnHttp, f, m)
  BY FreshType, TunnelAssumption DEF Right

\* What a right state says.
LEMMA RightFile ==
  ASSUME NEW q \in FileQuery, NEW v, NEW f, NEW m, Right(q, v, f, m)
  PROVE  /\ v.result = "ok" => PathOf[q] \in {"watched", "large"}
         /\ v.result = "denied" => PathOf[q] \in {"denied", "outside"}
         /\ v.result = "large" => PathOf[q] = "large"
         /\ v.audit = "success" => v.result = "ok"
<1>1. CASE v.at = "done"
  BY <1>1, TunnelAssumption
     DEF Right, Current, Abstract!Truthful, Abstract!OfFile, Abstract!Readable
<1>2. CASE v.at # "done"
  BY <1>2, TunnelAssumption DEF Right
<1> QED
  BY <1>1, <1>2

LEMMA RightSide ==
  ASSUME NEW q \in Query, q \notin FileQuery, NEW v, NEW f, NEW m, Right(q, v, f, m),
         Current(q, f)
  PROVE  v.result = "gone" => q[2] \in m[q[1]]
<1>1. CASE v.at = "done"
  BY <1>1 DEF Right, Abstract!Truthful, Abstract!OfRevision
<1>2. CASE v.at # "done"
  BY <1>2, TunnelAssumption DEF Right
<1> QED
  BY <1>1, <1>2

\* What is right stays so while the history grows, and no diff begins.
LEMMA RightGrows ==
  ASSUME NEW q \in Query, NEW v, NEW f, NEW m, NEW g, NEW n, Right(q, v, f, m),
         Current(q, g) => Current(q, f),
         q \in FileQuery \/ m[q[1]] \subseteq n[q[1]] \/ ~Current(q, g)
  PROVE  Right(q, v, g, n)
<1> SUFFICES ASSUME v.at = "done", Current(q, g) PROVE Abstract!Truthful(q, v, n)
  BY DEF Right
<1>1. Abstract!Truthful(q, v, m)
  BY DEF Right
<1>2. CASE q \in FileQuery
  BY <1>1, <1>2 DEF Abstract!Truthful
<1>3. CASE q \notin FileQuery
  BY <1>1, <1>3 DEF Abstract!Truthful, Abstract!OfRevision
<1> QED
  BY <1>2, <1>3

LEMMA FitsGrows ==
  ASSUME NEW q, NEW st, NEW m, NEW n, Fits(q, st, m),
         q \notin FileQuery => m[q[1]] \subseteq n[q[1]]
  PROVE  Fits(q, st, n)
  BY DEF Fits

\* The history grows with an answer.
LEMMA NotedGrows ==
  ASSUME TypeInv, NEW q \in Query, NEW a \in Answers(q) \union {"error"}
  PROVE  \A d \in Diff : missed[d] \subseteq Noted(q, a)[d]
<1>1. missed \in [Diff -> SUBSET Side]
  BY DEF TypeInv, TypeOK
<1>2. CASE q \in FileQuery
  BY <1>2, NotedType
<1>3. CASE q \notin FileQuery
  BY <1>1, <1>3 DEF Noted
<1> QED
  BY <1>2, <1>3

\* Settling a query with a status that fits leaves it right.
LEMMA SettleFits ==
  ASSUME TypeInv, AnswerInv, NEW s, NEW st \in Statuses \union {None},
         \A q \in Query \intersect s : query[q].at = "waiting" => Fits(q, st, missed)
  PROVE  \A q \in Query : Right(q, Settle(s, st)[q], diff, missed)
<1> SUFFICES ASSUME NEW q \in Query PROVE Right(q, Settle(s, st)[q], diff, missed)
  OBVIOUS
<1>1. query \in [Query -> Asked] /\ Right(q, query[q], diff, missed)
  BY DEF TypeInv, TypeOK, AnswerInv
<1>2. CASE Settle(s, st)[q] = query[q]
  BY <1>1, <1>2
<1>3. CASE Settle(s, st)[q] = OnHttp
  BY <1>3, EmptyFits
<1>4. CASE /\ q \in s /\ st \in Statuses /\ query[q].at = "waiting"
           /\ FromTunnel(q, st) # None
           /\ Settle(s, st)[q] = Done(FromTunnel(q, st), Record(q, st))
  <2> DEFINE r == FromTunnel(q, st)
             w == Record(q, st)
  <2>1. /\ Done(r, w).at = "done" /\ Done(r, w).result = r /\ Done(r, w).audit = w
        /\ Fits(q, st, missed) /\ st \in {"success", "gone", "denied", "error"}
    BY <1>4 DEF Done, Statuses
  <2>2. CASE q \in FileQuery
    <3>1. \/ r = "ok" /\ st = "success"
          \/ r = "denied" /\ st = "denied"
          \/ r = "failed" /\ st = "error"
      BY <2>1, <2>2 DEF FromTunnel, Fits
    <3>2. w = IF KindOf[q] = "content" THEN None ELSE st
      BY <2>2 DEF Record
    <3> HIDE DEF r, w
    <3>3. Abstract!OfFile(q, Done(r, w))
      BY <2>1, <2>2, <3>1, <3>2 DEF Fits, Abstract!OfFile
    <3> QED
      BY <1>4, <2>1, <2>2, <3>3 DEF Right, Abstract!Truthful, r, w
  <2>3. CASE q \notin FileQuery
    <3>1. \/ r = "ok" /\ st = "success"
          \/ r = "gone" /\ st = "gone"
          \/ r = "unreachable"
          \/ r = None
      BY <2>1, <2>3 DEF FromTunnel
    <3>2. w = None
      BY <2>3 DEF Record
    <3>3. r # None
      BY <1>4
    <3> HIDE DEF r, w
    <3>4. Abstract!OfRevision(q, Done(r, w), missed)
      BY <2>1, <2>3, <3>1, <3>2, <3>3 DEF Fits, Abstract!OfRevision
    <3> QED
      BY <1>4, <2>1, <2>3, <3>4 DEF Right, Abstract!Truthful, r, w
  <2> QED
    BY <2>2, <2>3
<1> QED
  BY <1>1, <1>2, <1>3, <1>4, Settled

LEMMA AnswerStep == TypeInv /\ StageInv /\ AnswerInv /\ [Next]_vars => AnswerInv'
<1> SUFFICES ASSUME TypeInv, StageInv, AnswerInv, [Next]_vars PROVE AnswerInv'
  OBVIOUS
<1>0. /\ query \in [Query -> Asked] /\ pending \subseteq Query /\ diff \in [Diff -> Reply]
      /\ down \in [Conn -> Seq(Query)] /\ up \in [Conn -> Seq(Message)]
      /\ missed \in [Diff -> SUBSET Side]
  BY DEF TypeInv, TypeOK
<1>a. /\ \A q \in Query : Right(q, query[q], diff, missed)
      /\ \A c \in Conn : \A m \in Items(up[c]) :
           m.about \in Query /\ (query[m.about].at = "waiting" => Fits(m.about, m.status, missed))
  <2>1. ASSUME NEW c \in Conn, NEW m \in Items(up[c]) PROVE m.about \in Query
    <3>1. PICK k \in DOMAIN up[c] : m = up[c][k]
      BY DEF Items
    <3>2. up[c] \in Seq(Message)
      BY <1>0
    <3>3. up[c][k] \in Message
      BY <3>2, ElementOfSeq, LenProperties
    <3> QED
      BY <3>1, <3>3 DEF Message
  <2> QED
    BY <2>1 DEF AnswerInv
<1>b. \A q \in Query : q \notin FileQuery => q[1] \in Diff
  BY DEF Query
\* Between the steps of a diff it is enough to look at what is new in the queries
\* and in the messages.
<1>1. ASSUME diff' = diff, \A d \in Diff : missed[d] \subseteq missed'[d],
             \A q \in Query : query'[q] = query[q] \/ Right(q, query'[q], diff, missed'),
             \A q \in Query : query'[q].at = "waiting" => query[q].at \in {"waiting", "idle"},
             \A c \in Conn : \A m \in Items(up'[c]) :
               \/ m \in Items(up[c])
               \/ m.about \in Query /\ (query[m.about].at = "waiting" => Fits(m.about, m.status, missed'))
                  /\ query[m.about].at # "idle"
      PROVE  AnswerInv'
  <2>1. ASSUME NEW q \in Query PROVE Right(q, query'[q], diff', missed')
    BY <1>1, <1>a, <1>b, RightGrows
  <2>2. ASSUME NEW c \in Conn, NEW m \in Items(up'[c]), query'[m.about].at = "waiting"
        PROVE  Fits(m.about, m.status, missed')
    <3>1. CASE m \in Items(up[c])
      <4>1. m.about \in Query /\ query[m.about].at # "idle"
        BY <1>a, <3>1 DEF StageInv
      <4>2. Fits(m.about, m.status, missed)
        BY <1>1, <1>a, <2>2, <3>1, <4>1
      <4> QED
        BY <1>1, <1>b, <4>1, <4>2, FitsGrows
    <3>2. CASE m \notin Items(up[c])
      BY <1>1, <2>2, <3>2
    <3> QED
      BY <3>1, <3>2
  <2> QED
    BY <2>1, <2>2 DEF AnswerInv, Items
<1>2. CASE UNCHANGED <<query, up, diff, missed>>
  BY <1>1, <1>2
\* Queries are settled.
<1>3. ASSUME NEW s, NEW st \in Statuses \union {None}, query' = Settle(s, st),
             \A q \in Query \intersect s : query[q].at = "waiting" => Fits(q, st, missed),
             diff' = diff, missed' = missed,
             \A c \in Conn : Items(up'[c]) \subseteq Items(up[c])
      PROVE  AnswerInv'
  <2>1. \A q \in Query : Right(q, query'[q], diff, missed')
    BY <1>3, SettleFits
  <2>2. \A q \in Query : query'[q].at = "waiting" => query[q].at \in {"waiting", "idle"}
    BY <1>3, SettleTypes
  <2> QED
    BY <1>1, <1>3, <2>1, <2>2
<1>4. \A q : Fits(q, None, missed) /\ Fits(q, "error", missed)
  BY TunnelAssumption DEF Fits
<1>5. ASSUME NEW c \in Conn, Register(c) PROVE AnswerInv'
  BY <1>3, <1>4, <1>5 DEF Register, diffVars
<1>6. ASSUME NEW c \in Conn, Unregister(c) PROVE AnswerInv'
  <2>1. "error" \in Statuses
    BY DEF Statuses
  <2>2. CASE Removes(c)
    BY <1>3, <1>4, <1>6, <2>1, <2>2 DEF Unregister, diffVars
  <2>3. CASE ~Removes(c)
    BY <1>2, <1>6, <2>3 DEF Unregister, diffVars
  <2> QED
    BY <2>2, <2>3
<1>7. ASSUME NEW c \in Conn, Deliver(c) PROVE AnswerInv'
  <2> DEFINE m == Head(up[c])
  <2>1. up[c] \in Seq(Message) /\ up[c] # <<>>
    BY <1>0, <1>7 DEF Deliver
  <2>2. m \in Message /\ m \in Items(up[c]) /\ Items(Tail(up[c])) \subseteq Items(up[c])
    BY <2>1, Taken
  <2>3. /\ query' = Settle(Answered(m.about), m.status) /\ diff' = diff /\ missed' = missed
        /\ up' = [up EXCEPT ![c] = Tail(@)]
    BY <1>7 DEF Deliver, diffVars
  <2> HIDE DEF m
  <2>4. /\ m.status \in Statuses
        /\ \A q \in Query \intersect Answered(m.about) :
             query[q].at = "waiting" => Fits(q, m.status, missed)
    BY <1>a, <2>2 DEF Message, Answered
  <2>5. \A d \in Conn : Items(up'[d]) \subseteq Items(up[d])
    BY <1>0, <2>2, <2>3
  <2> QED
    BY <1>3, <2>3, <2>4, <2>5
<1>8. ASSUME NEW c \in Conn, Serve(c) PROVE AnswerInv'
  <2>1. down[c] \in Seq(Query) /\ down[c] # <<>> /\ up[c] \in Seq(Message)
    BY <1>0, <1>8 DEF Serve
  <2>2. Head(down[c]) \in Query /\ Head(down[c]) \in Items(down[c])
    BY <2>1, Taken
  <2> DEFINE q == Head(down[c])
  <2>3. PICK a \in Answers(q) :
          /\ up' = [up EXCEPT ![c] = Append(@, [about |-> q, status |-> Told(a)])]
          /\ missed' = Noted(q, a)
    BY <1>8 DEF Serve
  <2>9. q \in Query /\ q \in Items(down[c])
    BY <2>2
  <2> HIDE DEF q
  <2> DEFINE m == [about |-> q, status |-> Told(a)]
  <2>4. m \in Message /\ m.about = q /\ m.status = Told(a)
    BY <2>9, ToldType DEF Message
  <2>10. query[q].at = "waiting" => Current(q, diff)
    BY <2>9, QueryCases DEF StageInv, Current
  <2>11. query[q].at = "waiting" => Fits(m.about, m.status, missed')
    BY <2>3, <2>4, <2>9, <2>10, AnswerFits
  <2>12. query[q].at # "idle"
    BY <2>9 DEF StageInv
  <2>5. up' = [up EXCEPT ![c] = Append(@, m)]
    BY <2>3
  <2> HIDE DEF m
  <2>6. Items(Append(up[c], m)) = Items(up[c]) \union {m}
    BY <2>1, <2>4, Appended
  <2>7. \A d \in Conn : \A n \in Items(up'[d]) : n \in Items(up[d]) \/ n = m
    BY <1>0, <2>5, <2>6
  <2>8. query' = query /\ diff' = diff
    BY <1>8 DEF Serve
  <2>13. \A d \in Diff : missed[d] \subseteq missed'[d]
    BY <2>3, <2>9, NotedGrows
  <2> QED
    BY <1>1, <2>4, <2>7, <2>8, <2>9, <2>11, <2>12, <2>13
<1>9. ASSUME NEW c \in Conn, Hangup(c) PROVE AnswerInv'
  <2>1. Items(<<>>) = {}
    BY DEF Items
  <2>2. \A d \in Conn : Items(up'[d]) \subseteq Items(up[d])
    BY <1>0, <1>9, <2>1 DEF Hangup
  <2>3. UNCHANGED <<query, diff, missed>>
    BY <1>9 DEF Hangup, diffVars
  <2> QED
    BY <1>1, <2>2, <2>3
\* One query changes.
<1>10. ASSUME NEW q \in Query, NEW v, Right(q, v, diff, missed'), query' = [query EXCEPT ![q] = v],
              v.at = "waiting" => query[q].at = "idle",
              \A d \in Diff : missed[d] \subseteq missed'[d],
              UNCHANGED <<up, diff>>
       PROVE  AnswerInv'
  <2>1. \A p \in Query : query'[p] = query[p] \/ Right(p, query'[p], diff, missed')
    BY <1>0, <1>10
  <2>2. \A p \in Query : query'[p].at = "waiting" => query[p].at \in {"waiting", "idle"}
    BY <1>0, <1>10
  <2> QED
    BY <1>1, <1>10, <2>1, <2>2
<1>11. ASSUME NEW q \in Query, Ask(q) PROVE AnswerInv'
  <2>1. query[q] \in Asked
    BY <1>0
  <2> DEFINE v == [query[q] EXCEPT !.at = "waiting"]
  <2>2. /\ v.result = query[q].result /\ v.audit = query[q].audit
        /\ v.at = "waiting" /\ query[q].at = "idle"
    BY <1>11, <2>1 DEF Asked, Ask
  <2>3. query' = [query EXCEPT ![q] = v] /\ UNCHANGED <<up, diff, missed>>
    BY <1>11 DEF Ask, diffVars
  <2> HIDE DEF v
  <2>4. Right(q, v, diff, missed')
    BY <1>a, <2>2 DEF Right
  <2> QED
    BY <1>10, <2>2, <2>3, <2>4
<1>12. ASSUME NEW q \in Query, AskFails(q) \/ TimeOut(q) PROVE AnswerInv'
  BY <1>10, <1>12, EmptyFits, FreshType DEF AskFails, TimeOut, tunnelVars, diffVars
<1>13. ASSUME NEW q \in Query, Fetch(q) PROVE AnswerInv'
  <2>1. PICK a \in Answers(q) \union {"error"} : LET r == FromHttp(q, Replied(a)) IN
           /\ query' = [query EXCEPT ![q] =
                Done(r, Record(q, IF r = "ok" THEN "success" ELSE "denied"))]
           /\ missed' = Noted(q, a)
    BY <1>13 DEF Fetch
  <2> DEFINE v == Done(FromHttp(q, Replied(a)),
                       Record(q, IF FromHttp(q, Replied(a)) = "ok" THEN "success" ELSE "denied"))
  <2>2. query' = [query EXCEPT ![q] = v] /\ Right(q, v, diff, missed')
    BY <2>1, HttpFits
  <2>3. v.at = "done"
    BY DEF Done
  <2> HIDE DEF v
  <2>4. UNCHANGED <<up, diff>>
    BY <1>13 DEF Fetch, tunnelVars
  <2>5. \A d \in Diff : missed[d] \subseteq missed'[d]
    BY <2>1, NotedGrows
  <2> QED
    BY <1>10, <2>2, <2>3, <2>4, <2>5
\* A diff begins, when none of its queries has been asked, or is over, when none
\* is waiting and its answers are out of use.
<1>14. ASSUME NEW d \in Diff, UNCHANGED <<query, up>>,
              \A b \in Diff \ {d} : diff'[b] = diff[b] /\ missed'[b] = missed[b],
              \A s \in Side : query[<<d, s>>].at # "waiting",
              diff'[d].at = "done" \/ \A s \in Side : query[<<d, s>>].at = "idle"
       PROVE  AnswerInv'
  <2>1. ASSUME NEW q \in Query PROVE Right(q, query'[q], diff', missed')
    <3>1. CASE q \in FileQuery
      BY <1>14, <1>a, <3>1, RightGrows DEF Current
    <3>2. ASSUME NEW b \in Diff, NEW s \in Side, q = <<b, s>>, q \notin FileQuery
          PROVE  Right(q, query'[q], diff', missed')
      <4>1. CASE b # d
        BY <1>14, <1>a, <3>2, <4>1, RightGrows DEF Current
      <4>2. CASE b = d /\ diff'[d].at = "done"
        BY <1>14, <1>a, <3>2, <4>2 DEF Right, Current
      <4>3. CASE b = d /\ query[q].at = "idle"
        BY <1>14, <1>a, <3>2, <4>3 DEF Right
      <4> QED
        BY <1>14, <3>2, <4>1, <4>2, <4>3
    <3> QED
      BY <3>1, <3>2, QueryCases
  <2>2. ASSUME NEW c \in Conn, NEW m \in Items(up'[c]), query'[m.about].at = "waiting"
        PROVE  Fits(m.about, m.status, missed')
    <3>1. m.about \in Query /\ Fits(m.about, m.status, missed) /\ query[m.about].at = "waiting"
      BY <1>14, <1>a, <2>2
    <3>2. CASE m.about \in FileQuery
      BY <3>1, <3>2 DEF Fits
    <3>3. ASSUME NEW b \in Diff, NEW s \in Side, m.about = <<b, s>>, m.about \notin FileQuery
          PROVE  Fits(m.about, m.status, missed')
      <4>1. b # d
        BY <1>14, <3>1, <3>3
      <4> QED
        BY <1>14, <3>1, <3>3, <4>1, FitsGrows
    <3> QED
      BY <3>1, <3>2, <3>3, QueryCases
  <2> QED
    BY <2>1, <2>2 DEF AnswerInv, Items
<1>15. ASSUME NEW d \in Diff, Hit(d) \/ Miss(d) PROVE AnswerInv'
  <2>1. /\ UNCHANGED <<query, up, missed>> /\ diff[d].at = "idle"
        /\ \A b \in Diff \ {d} : diff'[b] = diff[b]
    BY <1>0, <1>15 DEF Hit, Miss, tunnelVars
  <2>2. \A s \in Side : query[<<d, s>>].at = "idle"
    BY <2>1 DEF StageInv
  <2> QED
    BY <1>14, <2>1, <2>2
<1>16. ASSUME NEW d \in Diff, Render(d) PROVE AnswerInv'
  <2>1. /\ UNCHANGED <<query, up>> /\ diff'[d].at = "done"
        /\ \A b \in Diff \ {d} : diff'[b] = diff[b] /\ missed'[b] = missed[b]
        /\ \A s \in hashes : query[<<d, s>>].at = "done"
    BY <1>0, <1>16 DEF Render, tunnelVars
  <2>2. \A s \in Side : query[<<d, s>>].at # "waiting"
    BY <2>1 DEF StageInv
  <2> QED
    BY <1>14, <2>1, <2>2
<1>17. ASSUME NEW d \in Diff, Again(d) PROVE AnswerInv'
  <2>1. /\ \A q \in Query : query'[q] = Fresh \/ query'[q] = query[q]
        /\ UNCHANGED <<up, missed>> /\ diff'[d].at = "idle"
        /\ \A b \in Diff \ {d} : diff'[b] = diff[b]
    BY <1>0, <1>17 DEF Again, tunnelVars, NotAsked
  <2>2. ASSUME NEW q \in Query PROVE Right(q, query'[q], diff', missed')
    <3>1. Current(q, diff') => Current(q, diff)
      BY <1>b, <2>1 DEF Current
    <3> QED
      BY <1>a, <2>1, <3>1, EmptyFits, RightGrows
  <2>3. ASSUME NEW c \in Conn, NEW m \in Items(up'[c]), query'[m.about].at = "waiting"
        PROVE  Fits(m.about, m.status, missed')
    BY <1>a, <2>1, <2>3, FreshType
  <2> QED
    BY <2>2, <2>3 DEF AnswerInv, Items
<1>18. ASSUME NEW s \in Side, Sweep(s) \/ Keep(s) PROVE AnswerInv'
  BY <1>2, <1>18 DEF Sweep, Keep, tunnelVars, diffVars
<1>19. ASSUME NEW c \in Conn, Connect(c) \/ Leave(c) PROVE AnswerInv'
  BY <1>2, <1>19 DEF Connect, Leave, diffVars
<1>20. CASE UNCHANGED vars
  BY <1>2, <1>20 DEF vars
<1>21. FileQuery \subseteq Query /\ \A d \in Diff, s \in Side : <<d, s>> \in Query
  BY QueryCases DEF Query
<1> QED
  BY <1>5, <1>6, <1>7, <1>8, <1>9, <1>11, <1>12, <1>13, <1>15, <1>16, <1>17, <1>18, <1>19, <1>20,
     <1>21 DEF Next, Link, Answering, Rendering

LEMMA AnswerInit == Init => AnswerInv
<1> SUFFICES ASSUME Init PROVE AnswerInv
  OBVIOUS
<1>1. \A c \in Conn : Items(up[c]) = {}
  BY DEF Init, Items
<1>2. \A q \in Query : query[q] = Fresh
  BY DEF Init
<1> QED
  BY <1>1, <1>2, EmptyFits DEF AnswerInv

\* The history only ever takes a side that is not there.
LEMMA MissStep == TypeInv /\ StageInv /\ [Next]_vars =>
  \A d \in Diff :
    /\ missed'[d] \subseteq missed[d] \union (hashes \ blobs)
    /\ diff[d].at # "fetching" => missed'[d] \subseteq missed[d]
<1> SUFFICES ASSUME TypeInv, StageInv, [Next]_vars, NEW d \in Diff
             PROVE  /\ missed'[d] \subseteq missed[d] \union (hashes \ blobs)
                    /\ diff[d].at # "fetching" => missed'[d] \subseteq missed[d]
  OBVIOUS
<1>0. missed \in [Diff -> SUBSET Side] /\ down \in [Conn -> Seq(Query)]
  BY DEF TypeInv, TypeOK
<1>1. CASE missed' = missed
  BY <1>1
<1>2. ASSUME NEW q \in Query, NEW a \in Answers(q) \union {"error"}, missed' = Noted(q, a),
             query[q].at # "idle"
      PROVE  /\ missed'[d] \subseteq missed[d] \union (hashes \ blobs)
             /\ diff[d].at # "fetching" => missed'[d] \subseteq missed[d]
  <2>1. CASE q \in FileQuery
    BY <1>1, <1>2, <2>1, NotedType
  <2>2. ASSUME NEW b \in Diff, NEW s \in Side, q = <<b, s>>, q \notin FileQuery
        PROVE  /\ missed'[d] \subseteq missed[d] \union (hashes \ blobs)
               /\ diff[d].at # "fetching" => missed'[d] \subseteq missed[d]
    <3>1. s \in hashes
      BY <1>2, <2>2 DEF StageInv
    <3>2. a = "gone" => s \notin blobs
      BY <1>2, <2>2 DEF Answers
    <3>3. q[1] = b /\ q[2] = s
      BY <2>2
    <3> QED
      BY <1>0, <1>2, <3>1, <3>2, <3>3 DEF Noted
  <2> QED
    BY <2>1, <2>2, QueryCases
<1>3. ASSUME NEW c \in Conn, Serve(c)
      PROVE  /\ missed'[d] \subseteq missed[d] \union (hashes \ blobs)
             /\ diff[d].at # "fetching" => missed'[d] \subseteq missed[d]
  <2>1. down[c] \in Seq(Query) /\ down[c] # <<>>
    BY <1>0, <1>3 DEF Serve
  <2>2. Head(down[c]) \in Query /\ Head(down[c]) \in Items(down[c])
    BY <2>1, Taken
  <2>3. PICK a \in Answers(Head(down[c])) : missed' = Noted(Head(down[c]), a)
    BY <1>3 DEF Serve
  <2>4. query[Head(down[c])].at # "idle"
    BY <2>2 DEF StageInv
  <2> QED
    BY <1>2, <2>2, <2>3, <2>4
<1>4. ASSUME NEW q \in Query, Ask(q) \/ AskFails(q) \/ Answering(q)
      PROVE  /\ missed'[d] \subseteq missed[d] \union (hashes \ blobs)
             /\ diff[d].at # "fetching" => missed'[d] \subseteq missed[d]
  <2>1. CASE Fetch(q)
    <3>1. PICK a \in Answers(q) \union {"error"} : missed' = Noted(q, a)
      BY <2>1 DEF Fetch
    <3>2. query[q].at # "idle"
      BY <2>1 DEF Fetch
    <3> QED
      BY <1>2, <3>1, <3>2
  <2>2. CASE ~Fetch(q)
    BY <1>1, <1>4, <2>2 DEF Ask, AskFails, Answering, TimeOut, diffVars
  <2> QED
    BY <2>1, <2>2
<1>5. ASSUME NEW b \in Diff, Hit(b) \/ Miss(b) \/ Again(b)
      PROVE  missed' = missed
  BY <1>5 DEF Hit, Miss, Again
<1>6. ASSUME NEW b \in Diff, Render(b) PROVE missed'[d] \subseteq missed[d]
  BY <1>0, <1>6 DEF Render
<1>7. ASSUME NEW c \in Conn, Connect(c) \/ Link(c) \/ Leave(c) PROVE missed' = missed
  BY <1>7 DEF Connect, Link, Leave, Register, Hangup, Unregister, Deliver, diffVars
<1>8. ASSUME NEW s \in Side, Sweep(s) \/ Keep(s) PROVE missed' = missed
  BY <1>8 DEF Sweep, Keep, diffVars
<1>9. CASE UNCHANGED vars
  BY <1>1, <1>9 DEF vars
<1>10. FileQuery \subseteq Query /\ \A b \in Diff, s \in Side : <<b, s>> \in Query
  BY QueryCases DEF Query
<1> QED
  BY <1>1, <1>3, <1>4, <1>5, <1>6, <1>7, <1>8, <1>9, <1>10 DEF Next, Rendering

\* The result of a query is what the agent said about that path and that side,
\* by whichever of the tunnel and HTTP it came, early or late; and what it says is
\* missing was not there at that moment, though it may have come since.
THEOREM AnswersMatch == Spec => []AnswerMatches /\ MissesOnlyAbsent
<1>1. AnswerInv => AnswerMatches
  <2> SUFFICES ASSUME AnswerInv PROVE AnswerMatches
    OBVIOUS
  <2>1. \A q \in FileQuery : q \in Query /\ Right(q, query[q], diff, missed)
    BY DEF AnswerInv, Query
  <2>2. ASSUME NEW d \in Diff, NEW s \in Side, diff[d].at = "fetching",
               query[<<d, s>>].result = "gone"
        PROVE  s \in missed[d]
    <3>1. <<d, s>> \in Query /\ <<d, s>> \notin FileQuery /\ <<d, s>>[2] = s /\ <<d, s>>[1] = d
      BY QueryCases
    <3>2. Current(<<d, s>>, diff)
      BY <2>2 DEF Current
    <3>3. Right(<<d, s>>, query[<<d, s>>], diff, missed)
      BY <3>1 DEF AnswerInv
    <3> QED
      BY <2>2, <3>1, <3>2, <3>3, RightSide
  <2> QED
    BY <2>1, <2>2, RightFile DEF AnswerMatches
<1>2. TypeInv /\ StageInv /\ [Next]_vars =>
        [\A d \in Diff : missed'[d] \subseteq missed[d] \union (hashes \ blobs)]_vars
  BY MissStep
<1> QED
  BY <1>1, <1>2, TypeInit, TypeStep, StageInit, StageStep, AnswerInit, AnswerStep, PTL
     DEF Spec, MissesOnlyAbsent

-----------------------------------------------------------------------------
(* What diffs are shown from. *)

\* A diff e for the format f, when the sides in g were missed.
Sound(e, f, g) ==
  /\ "unreachable" \notin {e.prev, e.curr}
  /\ ~(e.prev = "gone" /\ e.curr = "gone")
  /\ e.prev = "gone" => <<f, "prev">> \in g
  /\ e.curr = "gone" => <<f, "curr">> \in g
  /\ (e.prev = "nohash") <=> ("prev" \notin hashes)
  /\ (e.curr = "nohash") <=> ("curr" \notin hashes)

SoundInv ==
  /\ \A e \in Items(cache) : Sound(e, e.format, gaps)
  /\ \A d \in Diff : diff[d].code = 200 => Sound(diff[d], FormatOf[d], gaps)

\* Two sides that were fetched and not refused.
LEMMA RenderSound ==
  ASSUME TypeInv, AnswerInv, NEW d \in Diff, diff[d].at = "fetching", Refusal(d) = None,
         NEW e, e.prev = Outcome(d, "prev"), e.curr = Outcome(d, "curr"),
         NEW g, {FormatOf[d]} \X {s \in missed[d] : Outcome(d, s) = "gone"} \subseteq g
  PROVE  Sound(e, FormatOf[d], g)
<1>1. \A s \in Side : /\ query[<<d, s>>].result \in Outcomes \union {None, "denied", "large", "failed"}
                      /\ query[<<d, s>>].result = "gone" => s \in missed[d]
  <2>1. ASSUME NEW s \in Side PROVE query[<<d, s>>].result = "gone" => s \in missed[d]
    <3>1. /\ <<d, s>> \in Query /\ <<d, s>> \notin FileQuery
          /\ <<d, s>>[1] = d /\ <<d, s>>[2] = s
      BY QueryCases
    <3>2. Right(<<d, s>>, query[<<d, s>>], diff, missed) /\ Current(<<d, s>>, diff)
      BY <3>1 DEF AnswerInv, Current
    <3> QED
      BY <3>1, <3>2, RightSide
  <2>2. ASSUME NEW s \in Side
        PROVE  query[<<d, s>>].result \in Outcomes \union {None, "denied", "large", "failed"}
    <3>1. query[<<d, s>>] \in Asked
      BY QueryCases DEF TypeInv, TypeOK
    <3> QED
      BY <3>1 DEF Asked
  <2> QED
    BY <2>1, <2>2
<1>2. /\ \A s \in Side : Outcome(d, s) # "unreachable"
      /\ ~ \A s \in Side : Outcome(d, s) = "gone"
  BY TunnelAssumption DEF Refusal
<1>3. \A s \in Side : /\ Outcome(d, s) = "gone" => s \in missed[d]
                      /\ Outcome(d, s) = "nohash" <=> s \notin hashes
  BY <1>1, TunnelAssumption DEF Outcome, Outcomes
<1>4. \A s \in Side : Outcome(d, s) = "gone" => <<FormatOf[d], s>> \in g
  BY <1>3
<1>5. Side = {"prev", "curr"}
  BY DEF Side
<1> HIDE DEF Outcome
<1> QED
  BY <1>2, <1>3, <1>4, <1>5 DEF Sound

LEMMA SoundStep == TypeInv /\ AnswerInv /\ SoundInv /\ [Next]_vars => SoundInv'
<1> SUFFICES ASSUME TypeInv, AnswerInv, SoundInv, [Next]_vars PROVE SoundInv'
  OBVIOUS
<1>0. cache \in Seq(Entry) /\ diff \in [Diff -> Reply]
  BY DEF TypeInv, TypeOK
<1>a. /\ \A e \in Items(cache) : Sound(e, e.format, gaps)
      /\ \A d \in Diff : diff[d].code = 200 => Sound(diff[d], FormatOf[d], gaps)
  BY DEF SoundInv
\* What is sound stays so while the history grows.
<1>b. \A e, f : Sound(e, f, gaps) /\ gaps \subseteq gaps' => Sound(e, f, gaps')
  BY DEF Sound
<1>1. ASSUME hashes' = hashes,
             \A e \in Items(cache') : Sound(e, e.format, gaps'),
             \A d \in Diff : diff'[d].code = 200 => Sound(diff'[d], FormatOf[d], gaps')
      PROVE  SoundInv'
  <2>1. \A e \in Items(cache') : Sound(e, e.format, gaps)'
    BY <1>1 DEF Sound
  <2>2. \A d \in Diff : diff'[d].code = 200 => Sound(diff[d], FormatOf[d], gaps)'
    BY <1>1 DEF Sound
  <2> QED
    BY <2>1, <2>2 DEF SoundInv, Items
<1>2. CASE UNCHANGED <<diff, cache, gaps, hashes>>
  BY <1>1, <1>2, <1>a
<1>3. ASSUME NEW d \in Diff, NEW v, diff' = [diff EXCEPT ![d] = v],
             gaps \subseteq gaps',
             v.code = 200 => Sound(v, FormatOf[d], gaps'),
             \A e \in Items(cache') : Sound(e, e.format, gaps'),
             UNCHANGED hashes
      PROVE  SoundInv'
  <2>1. \A b \in Diff : diff'[b].code = 200 => Sound(diff'[b], FormatOf[b], gaps')
    BY <1>0, <1>3, <1>a, <1>b
  <2> QED
    BY <1>1, <1>3, <2>1
<1>4. ASSUME NEW d \in Diff, Hit(d) PROVE SoundInv'
  <2>1. PICK k \in DOMAIN cache :
          /\ cache[k].format = FormatOf[d]
          /\ diff' = [diff EXCEPT ![d] =
               [at |-> "done", code |-> 200, prev |-> cache[k].prev, curr |-> cache[k].curr,
                unavailable |-> FALSE]]
          /\ cache' = Put(cache[k])
    BY <1>4 DEF Hit
  <2>2. cache[k] \in Entry /\ cache[k] \in Items(cache)
    BY <1>0, <2>1, ElementOfSeq, LenProperties DEF Items
  <2>3. Items(cache') \subseteq Items(cache)
    BY <1>0, <2>1, <2>2, PutFacts
  <2>4. Sound(cache[k], FormatOf[d], gaps)
    BY <1>a, <2>1, <2>2
  <2>5. Sound([at |-> "done", code |-> 200, prev |-> cache[k].prev, curr |-> cache[k].curr,
               unavailable |-> FALSE], FormatOf[d], gaps)
    BY <2>4 DEF Sound
  <2>6. UNCHANGED <<hashes, gaps>>
    BY <1>4 DEF Hit
  <2> QED
    BY <1>3, <1>a, <2>1, <2>3, <2>5, <2>6
<1>5. ASSUME NEW d \in Diff, Miss(d) PROVE SoundInv'
  <2>1. diff[d] \in Reply
    BY <1>0
  <2> DEFINE v == [diff[d] EXCEPT !.at = "fetching"]
  <2>2. /\ v.code = diff[d].code /\ v.prev = diff[d].prev /\ v.curr = diff[d].curr
    BY <2>1 DEF Reply
  <2>3. diff' = [diff EXCEPT ![d] = v] /\ UNCHANGED <<cache, gaps, hashes>>
    BY <1>5 DEF Miss
  <2> HIDE DEF v
  <2>4. v.code = 200 => Sound(v, FormatOf[d], gaps)
    <3>1. diff[d].code = 200 => Sound(diff[d], FormatOf[d], gaps)
      BY <1>a, Zenon
    <3> QED
      BY <2>2, <3>1 DEF Sound
  <2> QED
    BY <1>3, <1>a, <2>3, <2>4
<1>6. ASSUME NEW d \in Diff, Render(d) PROVE SoundInv'
  <2> DEFINE p == Outcome(d, "prev")
             c == Outcome(d, "curr")
             e == [format |-> FormatOf[d], prev |-> p, curr |-> c]
             v(code) == [at |-> "done", code |-> code, prev |-> p, curr |-> c,
                         unavailable |-> code = 200 /\ p = "gone"]
             new == {FormatOf[d]} \X {s \in missed[d] : Outcome(d, s) = "gone"}
  <2>1. PICK code \in {Refusal(d), 200, 500} :
          /\ diff' = [diff EXCEPT ![d] = v(code)]
          /\ \/ cache' = cache
             \/ Refusal(d) = None /\ cache' = Put(e)
          /\ gaps' = IF code = 200 /\ Refusal(d) = None THEN gaps \union new ELSE gaps
          /\ code # 200 => cache' = cache
          /\ code = Refusal(d) \/ Refusal(d) = None
          /\ UNCHANGED hashes
    <3>1. \/ Refusal(d) # None /\ diff' = [diff EXCEPT ![d] = v(Refusal(d))]
             /\ UNCHANGED <<cache, gaps>>
          \/ Refusal(d) = None /\ diff' = [diff EXCEPT ![d] = v(200)]
             /\ cache' = Put(e) /\ gaps' = gaps \union new
          \/ Refusal(d) = None /\ diff' = [diff EXCEPT ![d] = v(500)]
             /\ UNCHANGED <<cache, gaps>>
      BY <1>6 DEF Render
    <3>2. UNCHANGED hashes
      BY <1>6 DEF Render
    <3> HIDE DEF v, e, new
    <3> QED
      BY <3>1, <3>2
  <2>2. Refusal(d) # 200
    BY TunnelAssumption DEF Refusal
  <2>3. p \in Shown /\ c \in Shown
    BY DEF Outcome, Shown, Side, TypeInv
  <2>4. /\ e.prev = p /\ e.curr = c /\ e.format = FormatOf[d]
        /\ v(code).prev = p /\ v(code).curr = c /\ v(code).code = code
    OBVIOUS
  <2>5. e \in Entry
    BY <2>3 DEF Entry
  <2>6. diff[d].at = "fetching"
    BY <1>6 DEF Render
  <2>7. gaps \subseteq gaps'
    BY <2>1
  <2>8. code = 200 /\ Refusal(d) = None => new \subseteq gaps'
    BY <2>1
  <2>9. code = 200 /\ Refusal(d) = None =>
          Sound(e, FormatOf[d], gaps') /\ Sound(v(code), FormatOf[d], gaps')
    <3> HIDE DEF e, v
    <3> QED
      BY <2>4, <2>6, <2>8, RenderSound
  <2> HIDE DEF e, v, new
  <2>10. v(code).code = 200 => Sound(v(code), FormatOf[d], gaps')
    BY <2>1, <2>2, <2>4, <2>9
  <2>11. \A f \in Items(cache') : Sound(f, f.format, gaps')
    <3>1. Items(Put(e)) \subseteq Items(cache) \union {e}
      BY <1>0, <2>5, PutFacts
    <3>2. \A f \in Items(cache) : Sound(f, f.format, gaps')
      BY <1>a, <1>b, <2>7
    <3>3. CASE cache' = cache
      BY <3>2, <3>3
    <3>4. CASE cache' # cache
      <4>1. code = 200 /\ Refusal(d) = None /\ cache' = Put(e)
        BY <2>1, <3>4
      <4> QED
        BY <2>4, <2>9, <3>1, <3>2, <4>1
    <3> QED
      BY <3>3, <3>4
  <2>12. diff' = [diff EXCEPT ![d] = v(code)] /\ UNCHANGED hashes
    BY <2>1
  <2> QED
    BY <1>3, <2>7, <2>10, <2>11, <2>12, ZenonT(30)
<1>7. ASSUME NEW d \in Diff, Again(d) PROVE SoundInv'
  <2>1. NotAsked.code # 200
    BY TunnelAssumption DEF NotAsked
  <2> QED
    BY <1>3, <1>7, <1>a, <2>1 DEF Again
<1>8. ASSUME NEW q, Ask(q) \/ AskFails(q) \/ Answering(q) PROVE SoundInv'
  BY <1>2, <1>8 DEF Ask, AskFails, Answering, TimeOut, Fetch, diffVars
<1>9. ASSUME NEW c \in Conn, Connect(c) \/ Link(c) \/ Leave(c) \/ Serve(c) PROVE SoundInv'
  BY <1>2, <1>9 DEF Connect, Link, Leave, Serve, Register, Hangup, Unregister, Deliver, diffVars
<1>10. ASSUME NEW s \in Side, Sweep(s) \/ Keep(s) PROVE SoundInv'
  BY <1>2, <1>10 DEF Sweep, Keep, diffVars
<1>11. CASE UNCHANGED vars
  BY <1>2, <1>11 DEF vars, diffVars
<1> QED
  BY <1>4, <1>5, <1>6, <1>7, <1>8, <1>9, <1>10, <1>11 DEF Next, Rendering

LEMMA SoundInit == Init => SoundInv
<1> SUFFICES ASSUME Init PROVE SoundInv
  OBVIOUS
<1>1. NotAsked.code # 200 /\ \A d \in Diff : diff[d] = NotAsked
  BY TunnelAssumption DEF NotAsked, Init
<1>2. Items(cache) = {}
  BY DEF Init, Items
<1> QED
  BY <1>1, <1>2 DEF SoundInv

\* Whatever a diff is shown from, fresh or cached, was fetched, and a side it is
\* without was looked for and not there, or has no hash.
THEOREM DiffsSound == Spec => []DiffSound
<1>1. SoundInv => DiffSound
  BY DEF SoundInv, DiffSound, Sound, Items
<1> QED
  BY <1>1, TypeInit, TypeStep, StageInit, StageStep, AnswerInit, AnswerStep, SoundInit,
     SoundStep, PTL DEF Spec

-----------------------------------------------------------------------------
(* The cache is a map from formats.                                        *)

OneEach(s) == \A i, j \in DOMAIN s : s[i].format = s[j].format => i = j

\* A sequence without its n-th element.
LEMMA Removed ==
  ASSUME NEW S, NEW s \in Seq(S), NEW n \in 1..Len(s),
         NEW t, t = SubSeq(s, 1, n - 1) \o SubSeq(s, n + 1, Len(s))
  PROVE  /\ t \in Seq(S) /\ Len(t) = Len(s) - 1
         /\ \A k \in 1..Len(s) - 1 : t[k] = s[IF k < n THEN k ELSE k + 1]
<1>1. Len(s) \in Nat /\ n - 1 \in Nat /\ n - 1 <= Len(s) /\ n + 1 \in Nat \ {0} /\ Len(s) <= Len(s)
  BY LenProperties
<1> DEFINE a == SubSeq(s, 1, n - 1)
           b == SubSeq(s, n + 1, Len(s))
<1>2. /\ a \in Seq(S) /\ Len(a) = n - 1
      /\ \A k \in 1..n - 1 : a[k] = s[k]
  <2>1. /\ a \in Seq(S) /\ Len(a) = IF 1 <= n - 1 THEN n - 1 - 1 + 1 ELSE 0
        /\ \A k \in 1..Len(a) : a[k] = s[1 + k - 1]
    BY <1>1, Cut
  <2> HIDE DEF a
  <2>2. Len(a) = n - 1
    BY <1>1, <2>1
  <2> QED
    BY <2>1, <2>2
<1>3. /\ b \in Seq(S) /\ Len(b) = Len(s) - n
      /\ \A k \in 1..Len(s) - n : b[k] = s[n + k]
  <2>1. /\ b \in Seq(S) /\ Len(b) = IF n + 1 <= Len(s) THEN Len(s) - (n + 1) + 1 ELSE 0
        /\ \A k \in 1..Len(b) : b[k] = s[n + 1 + k - 1]
    BY <1>1, Cut
  <2> HIDE DEF b
  <2>2. Len(b) = Len(s) - n
    BY <1>1, <2>1
  <2>3. \A k \in 1..Len(s) - n : n + 1 + k - 1 = n + k
    BY <1>1
  <2> QED
    BY <2>1, <2>2, <2>3
<1> HIDE DEF a, b
<1>4. /\ a \o b \in Seq(S) /\ Len(a \o b) = Len(a) + Len(b)
      /\ \A k \in 1..Len(a) + Len(b) : (a \o b)[k] = IF k <= Len(a) THEN a[k] ELSE b[k - Len(a)]
  BY <1>2, <1>3, ConcatProperties
<1>5. ASSUME NEW k \in 1..Len(s) - 1
      PROVE  (a \o b)[k] = s[IF k < n THEN k ELSE k + 1]
  <2>1. CASE k < n
    <3>1. k \in 1..n - 1 /\ k \in 1..Len(a) + Len(b) /\ k <= Len(a)
      BY <1>1, <1>2, <1>3, <2>1
    <3> QED
      BY <1>2, <1>4, <2>1, <3>1
  <2>2. CASE ~(k < n)
    <3>1. /\ k - (n - 1) \in 1..Len(s) - n /\ k \in 1..Len(a) + Len(b) /\ ~(k <= Len(a))
          /\ n + (k - (n - 1)) = k + 1
      BY <1>1, <1>2, <1>3, <2>2
    <3> QED
      BY <1>2, <1>3, <1>4, <2>2, <3>1
  <2> QED
    BY <2>1, <2>2
<1>6. Len(a) + Len(b) = Len(s) - 1
  BY <1>1, <1>2, <1>3
<1>7. t = a \o b
  BY DEF a, b
<1> QED
  BY <1>4, <1>5, <1>6, <1>7

\* What is left without the entry of a format has no entry of that format.
LEMMA WithoutMap ==
  ASSUME NEW S, cache \in Seq(S), OneEach(cache), NEW f
  PROVE  /\ Without(f) \in Seq(S) /\ OneEach(Without(f))
         /\ Items(Without(f)) \subseteq {e \in Items(cache) : e.format # f}
<1>1. Len(cache) \in Nat /\ DOMAIN cache = 1..Len(cache)
  BY LenProperties
<1> DEFINE Found(k) == cache[k].format = f
           n == CHOOSE k \in DOMAIN cache : Found(k)
<1>2. CASE \E k \in DOMAIN cache : Found(k)
  <2>1. n \in 1..Len(cache) /\ cache[n].format = f
    BY <1>1, <1>2
  <2>2. Without(f) = SubSeq(cache, 1, n - 1) \o SubSeq(cache, n + 1, Len(cache))
    BY <1>2 DEF Without
  <2> HIDE DEF n
  <2> DEFINE w == Without(f)
             At(k) == IF k < n THEN k ELSE k + 1
  <2>3. /\ w \in Seq(S) /\ Len(w) = Len(cache) - 1
        /\ \A k \in 1..Len(cache) - 1 : w[k] = cache[At(k)]
    BY <2>1, <2>2, Removed, ZenonT(40)
  <2>4. DOMAIN w = 1..Len(cache) - 1
    BY <2>3, LenProperties
  <2>5. \A k \in DOMAIN w : At(k) \in DOMAIN cache /\ At(k) # n /\ w[k] = cache[At(k)]
    BY <1>1, <2>1, <2>3, <2>4
  <2>6. \A i, j \in DOMAIN w : At(i) = At(j) => i = j
    BY <1>1, <2>1, <2>4
  <2> HIDE DEF w, At
  <2>7. OneEach(w)
    BY <2>5, <2>6 DEF OneEach
  <2>8. \A k \in DOMAIN w : w[k].format # f
    BY <1>1, <2>1, <2>5 DEF OneEach
  <2>9. Items(w) \subseteq {e \in Items(cache) : e.format # f}
    BY <2>5, <2>8 DEF Items
  <2> QED
    BY <2>3, <2>7, <2>9 DEF w
<1>3. CASE ~ \E k \in DOMAIN cache : Found(k)
  <2>1. Without(f) = cache
    BY <1>3 DEF Without
  <2> QED
    BY <1>3, <2>1 DEF Items
<1> QED
  BY <1>2, <1>3

\* An entry that is put is there, in the place of the one of its format.
LEMMA PutMap ==
  ASSUME NEW S, cache \in Seq(S), OneEach(cache), NEW e \in S
  PROVE  /\ OneEach(Put(e)) /\ e \in Items(Put(e))
         /\ Items(Put(e)) \subseteq {e} \union {f \in Items(cache) : f.format # e.format}
<1> DEFINE w == Without(e.format)
           t == Append(w, e)
<1>1. /\ w \in Seq(S) /\ OneEach(w)
      /\ Items(w) \subseteq {f \in Items(cache) : f.format # e.format}
  BY WithoutMap
<1> HIDE DEF w
<1>2. /\ t \in Seq(S) /\ Len(t) = Len(w) + 1 /\ Items(t) = Items(w) \union {e}
      /\ Len(w) \in Nat /\ DOMAIN w = 1..Len(w) /\ DOMAIN t = 1..Len(t)
      /\ \A k \in 1..Len(w) : t[k] = w[k]
      /\ t[Len(w) + 1] = e
  BY <1>1, Appended, AppendProperties, LenProperties
<1>3. \A k \in 1..Len(w) : w[k].format # e.format
  BY <1>1, <1>2 DEF Items
<1> HIDE DEF t
<1>4. OneEach(t)
  <2> SUFFICES ASSUME NEW i \in 1..Len(w) + 1, NEW j \in 1..Len(w) + 1,
                      t[i].format = t[j].format
               PROVE  i = j
    BY <1>2 DEF OneEach
  <2>1. (i \in 1..Len(w) \/ i = Len(w) + 1) /\ (j \in 1..Len(w) \/ j = Len(w) + 1)
    BY <1>2
  <2>2. CASE i \in 1..Len(w) /\ j \in 1..Len(w)
    BY <1>1, <1>2, <2>2 DEF OneEach
  <2> QED
    BY <1>2, <1>3, <2>1, <2>2
<1> DEFINE m == IF Len(t) > CacheSize THEN Len(t) - CacheSize + 1 ELSE 1
           p == SubSeq(t, m, Len(t))
<1>5. Put(e) = p
  BY DEF Put, LastOf, t, w
<1>6. m \in Nat \ {0} /\ m <= Len(t) /\ Len(t) <= Len(t)
  BY <1>2, TunnelAssumption
<1> HIDE DEF m
<1>7. /\ p \in Seq(S) /\ Items(p) \subseteq Items(t) /\ Len(p) = Len(t) - m + 1
      /\ \A k \in 1..Len(p) : p[k] = t[m + k - 1]
  <2>1. Len(t) \in Nat
    BY <1>2
  <2> QED
    BY <1>2, <1>6, <2>1, Cut
<1> HIDE DEF p
<1>8. DOMAIN p = 1..Len(t) - m + 1
  BY <1>7, LenProperties
<1>9. \A k \in DOMAIN p : m + k - 1 \in DOMAIN t /\ p[k] = t[m + k - 1]
  BY <1>2, <1>6, <1>7, <1>8
<1>10. OneEach(p)
  <2> SUFFICES ASSUME NEW i \in DOMAIN p, NEW j \in DOMAIN p, p[i].format = p[j].format
               PROVE  i = j
    BY DEF OneEach
  <2>1. m + i - 1 = m + j - 1
    BY <1>4, <1>9 DEF OneEach
  <2> QED
    BY <1>6, <1>8, <2>1
<1>11. e \in Items(p)
  <2>1. Len(t) - m + 1 \in DOMAIN p /\ m + (Len(t) - m + 1) - 1 = Len(w) + 1
    BY <1>2, <1>6, <1>8
  <2>2. p[Len(t) - m + 1] = e
    BY <1>2, <1>9, <2>1
  <2> QED
    BY <2>1, <2>2 DEF Items
<1> QED
  BY <1>1, <1>2, <1>5, <1>7, <1>10, <1>11

CacheInv == OneEach(cache)

\* The step of the cache that remembers an entry.
LEMMA PutRemembers ==
  ASSUME TypeInv, CacheInv, NEW e \in Entry, cache' = Put(e)
  PROVE  /\ CacheInv'
         /\ e \in Items(cache')
         /\ Items(cache') \subseteq {e} \union {f \in Items(cache) : f.format # e.format}
<1>1. cache \in Seq(Entry)
  BY DEF TypeInv, TypeOK
<1> QED
  BY <1>1, PutMap DEF CacheInv, OneEach

\* The outcomes of the sides of a diff are shown as they are.
LEMMA OutcomeShown ==
  ASSUME TypeInv, NEW d \in Diff, NEW s \in Side
  PROVE  Outcome(d, s) \in Shown
  BY DEF TypeInv, Outcome, Shown

LEMMA CacheStep == TypeInv /\ CacheInv /\ [Next]_vars => CacheInv'
<1> SUFFICES ASSUME TypeInv, CacheInv, [Next]_vars PROVE CacheInv'
  OBVIOUS
<1>1. CASE UNCHANGED cache
  BY <1>1 DEF CacheInv, OneEach
<1>2. ASSUME NEW d \in Diff, Hit(d) PROVE CacheInv'
  <2>1. PICK k \in DOMAIN cache : cache' = Put(cache[k])
    BY <1>2 DEF Hit
  <2>2. cache[k] \in Entry
    BY <2>1, ElementOfSeq, LenProperties DEF TypeInv, TypeOK
  <2> QED
    BY <2>1, <2>2, PutRemembers
<1>3. ASSUME NEW d \in Diff, Render(d) PROVE CacheInv'
  <2> DEFINE e == [format |-> FormatOf[d], prev |-> Outcome(d, "prev"), curr |-> Outcome(d, "curr")]
  <2>1. e \in Entry
    BY OutcomeShown DEF Entry, Side
  <2>2. UNCHANGED cache \/ cache' = Put(e)
    BY <1>3 DEF Render
  <2> HIDE DEF e
  <2> QED
    BY <1>1, <2>1, <2>2, PutRemembers
<1>4. ASSUME NEW d \in Diff, Miss(d) \/ Again(d) PROVE UNCHANGED cache
  BY <1>4 DEF Miss, Again
<1>5. ASSUME NEW q, Ask(q) \/ AskFails(q) \/ Answering(q) PROVE UNCHANGED cache
  BY <1>5 DEF Ask, AskFails, Answering, TimeOut, Fetch, diffVars
<1>6. ASSUME NEW c \in Conn, Connect(c) \/ Link(c) \/ Leave(c) \/ Serve(c) PROVE UNCHANGED cache
  BY <1>6 DEF Connect, Link, Leave, Serve, Register, Hangup, Unregister, Deliver, diffVars
<1>7. ASSUME NEW s \in Side, Sweep(s) \/ Keep(s) PROVE UNCHANGED cache
  BY <1>7 DEF Sweep, Keep, diffVars
<1>8. CASE UNCHANGED vars
  BY <1>1, <1>8 DEF vars
<1> QED
  BY <1>1, <1>2, <1>3, <1>4, <1>5, <1>6, <1>7, <1>8 DEF Next, Rendering

\* The rendered diffs are a map from formats, as LruCache has it: looking one up
\* and putting it back leaves one entry for each format.
THEOREM OnePerFormat == Spec => []CacheInv
<1>1. Init => CacheInv
  BY DEF Init, CacheInv, OneEach
<1> QED
  BY <1>1, TypeInit, TypeStep, CacheStep, PTL DEF Spec

-----------------------------------------------------------------------------
(* The tunnel implements the questions.                                    *)

LEMMA SeenFacts ==
  ASSUME NEW q \in Query, query[q] \in Asked
  PROVE  /\ query[q].at = "done" => Seen(q) = query[q]
         /\ query[q].at = "idle" => Seen(q) = query[q]
         /\ query[q].at \in {"waiting", "http"} =>
              Seen(q) = [at |-> "asked", result |-> query[q].result, audit |-> query[q].audit]
         /\ query[q].at \in {"idle", "waiting", "http", "done"}
  BY DEF Seen, Asked

\* The same, of the next state.
LEMMA SeenNext ==
  ASSUME NEW q \in Query, query'[q] \in Asked
  PROVE  /\ query'[q].at = "done" => Seen(q)' = query'[q]
         /\ query'[q].at = "idle" => Seen(q)' = query'[q]
         /\ query'[q].at \in {"waiting", "http"} =>
              Seen(q)' = [at |-> "asked", result |-> query'[q].result, audit |-> query'[q].audit]
  BY DEF Seen, Asked

\* Queries that wait, try HTTP or end: to the operator some of them are answered,
\* and truly since the state after the step is right.
LEMMA AnswersMap ==
  ASSUME TypeInv, TypeInv', StageInv, AnswerInv, AnswerInv', [Next]_vars,
         UNCHANGED <<diff, cache, hashes, blobs>>,
         \A d \in Diff : missed[d] \subseteq missed'[d],
         \A q \in Query :
           \/ query'[q] = query[q]
           \/ query[q].at \in {"waiting", "http"} /\ query'[q].at \in {"http", "done"}
  PROVE  Abstract!Answer
<1>1. ASSUME NEW q \in Query
      PROVE  \/ Seen(q)' = Seen(q)
             \/ Seen(q).at = "asked" /\ Abstract!Truthful(q, Seen(q)', missed')
  <2>1. /\ query[q] \in Asked /\ query'[q] \in Asked
        /\ Right(q, query[q], diff, missed) /\ Right(q, query'[q], diff', missed')
    <3>1. Right(q, query[q], diff, missed)'
      BY DEF AnswerInv
    <3>2. Right(q, query'[q], diff', missed')
      BY <3>1 DEF Right, Current, Abstract!Truthful, Abstract!OfFile, Abstract!OfRevision,
                  Abstract!Readable
    <3> QED
      BY <3>2 DEF TypeInv, TypeOK, AnswerInv
  <2>2. CASE query'[q] = query[q]
    BY <2>2 DEF Seen
  <2>3. CASE query[q].at \in {"waiting", "http"} /\ query'[q].at = "http"
    <3>1. /\ query[q].result = None /\ query[q].audit = None
          /\ query'[q].result = None /\ query'[q].audit = None
      BY <2>1, <2>3 DEF Right
    <3> QED
      BY <2>1, <2>3, <3>1, SeenFacts, SeenNext
  <2>4. CASE query[q].at \in {"waiting", "http"} /\ query'[q].at = "done"
    <3>1. Current(q, diff')
      <4>1. query[q].at # "idle"
        BY <2>4
      <4>2. CASE q \in FileQuery
        BY <4>2 DEF Current
      <4>3. ASSUME NEW d \in Diff, NEW s \in Side, q = <<d, s>>
            PROVE  Current(q, diff')
        <5>1. diff[d].at = "fetching"
          BY <2>4, <4>3 DEF StageInv
        <5> QED
          BY <4>3, <5>1 DEF Current
      <4> QED
        BY <4>2, <4>3, QueryCases
    <3>2. Abstract!Truthful(q, query'[q], missed')
      BY <2>1, <2>4, <3>1 DEF Right
    <3> QED
      BY <2>1, <2>4, <3>2, SeenFacts, SeenNext
  <2> QED
    BY <2>2, <2>3, <2>4
<1>2. DOMAIN missed' = Diff
  BY DEF TypeInv, TypeOK
<1>3. \A d \in Diff :
        /\ missed[d] \subseteq missed'[d]
        /\ missed'[d] \subseteq
             missed[d] \union IF diff[d].at = "fetching" THEN hashes \ blobs ELSE {}
  BY MissStep
<1> QED
  BY <1>1, <1>2, <1>3 DEF Abstract!Answer, Abstract!Query, Abstract!Side, Query, Side, Items

\* A query that is idle is asked, by whichever way.
LEMMA AskMap ==
  ASSUME TypeInv, TypeInv', AnswerInv, AnswerInv',
         UNCHANGED <<diff, cache, hashes, blobs, missed>>,
         NEW q \in Query, May(q), query[q].at = "idle", query'[q].at \in {"waiting", "http"},
         \A p \in Query \ {q} : query'[p] = query[p]
  PROVE  Abstract!Ask(q)
<1>1. /\ query[q] \in Asked /\ query'[q] \in Asked
      /\ Right(q, query[q], diff, missed) /\ Right(q, query[q], diff, missed)'
  BY DEF TypeInv, TypeOK, AnswerInv
<1>2. /\ query[q].result = None /\ query[q].audit = None
      /\ query'[q].result = None /\ query'[q].audit = None
  BY <1>1 DEF Right
<1>3. query[q] = [at |-> "idle", result |-> None, audit |-> None]
  BY <1>1, <1>2 DEF Asked
<1>4. Seen(q) = [at |-> "idle", result |-> None, audit |-> None]
  BY <1>1, <1>3, SeenFacts
<1>5. Seen(q)' = [at |-> "asked", result |-> None, audit |-> None]
  BY <1>1, <1>2, SeenNext
<1>6. \A p \in Query \ {q} : Seen(p)' = Seen(p)
  BY DEF Seen
<1>7. [p \in Query |-> Seen(p)]' = [[p \in Query |-> Seen(p)] EXCEPT ![q].at = "asked"]
  <2> DEFINE old == [p \in Query |-> Seen(p)]
             new == [p \in Query |-> Seen(p)']
  <2>1. [Seen(q) EXCEPT !.at = "asked"] = Seen(q)'
    BY <1>4, <1>5
  <2>2. old \in [Query -> {old[p] : p \in Query}] /\ old[q] = Seen(q)
        /\ \A p \in Query : old[p] = Seen(p) /\ new[p] = Seen(p)'
    OBVIOUS
  <2>3. \A p \in Query : [old EXCEPT ![q].at = "asked"][p] = new[p]
    BY <1>6, <2>1
  <2>4. [old EXCEPT ![q].at = "asked"] = new
    BY <2>3
  <2> QED
    BY <2>4
<1>8. q \in FileQuery \/ (diff[q[1]].at = "fetching" /\ q[2] \in hashes)
  BY DEF May, Of
<1> QED
  BY <1>4, <1>7, <1>8 DEF Abstract!Ask, Items

\* The steps of a diff see the queries as they are when these are done.
LEMMA OutcomeMap ==
  ASSUME TypeInv, NEW d \in Diff, \A s \in hashes : query[<<d, s>>].at = "done"
  PROVE  /\ \A s \in Side : Abstract!Outcome(d, s) = Outcome(d, s)
         /\ \A s \in hashes : [q \in Query |-> Seen(q)][<<d, s>>].at = "done"
<1>1. ASSUME NEW s \in hashes PROVE [q \in Query |-> Seen(q)][<<d, s>>] = query[<<d, s>>]
  <2>1. s \in Side /\ <<d, s>> \in Query /\ query[<<d, s>>] \in Asked
    BY QueryCases DEF TypeInv, TypeOK
  <2> QED
    BY <2>1, SeenFacts
<1> QED
  BY <1>1 DEF Abstract!Outcome, Outcome

LEMMA HitMap ==
  ASSUME TypeInv, CacheInv, NEW d \in Diff, Hit(d)
  PROVE  Abstract!Show(d)
<1>1. PICK k \in DOMAIN cache :
        /\ cache[k].format = FormatOf[d]
        /\ diff' = [diff EXCEPT ![d] =
             [at |-> "done", code |-> 200, prev |-> cache[k].prev, curr |-> cache[k].curr,
              unavailable |-> FALSE]]
        /\ cache' = Put(cache[k])
  BY DEF Hit
<1> DEFINE e == cache[k]
<1>2. e \in Entry /\ e \in Items(cache)
  BY <1>1, ElementOfSeq, LenProperties DEF TypeInv, TypeOK, Items
<1>3. cache' = Put(e) /\ e.format = FormatOf[d]
      /\ diff' = [diff EXCEPT ![d] =
             [at |-> "done", code |-> 200, prev |-> e.prev, curr |-> e.curr,
              unavailable |-> FALSE]]
  BY <1>1
<1> HIDE DEF e
<1>4. /\ e \in Items(cache')
      /\ Items(cache') \subseteq {e} \union {f \in Items(cache) : f.format # e.format}
  BY <1>2, <1>3, PutRemembers
<1>5. Abstract!Remember(e)
  BY <1>4 DEF Abstract!Remember, Items
<1>6. [q \in Query |-> Seen(q)]' = [q \in Query |-> Seen(q)]
  BY DEF Hit, Seen
<1> QED
  BY <1>2, <1>3, <1>5, <1>6 DEF Hit, Abstract!Show

LEMMA RenderMap ==
  ASSUME TypeInv, CacheInv, NEW d \in Diff, Render(d)
  PROVE  Abstract!Render(d)
<1> DEFINE p == Outcome(d, "prev")
           c == Outcome(d, "curr")
           e == [format |-> FormatOf[d], prev |-> p, curr |-> c]
           Answer(code) == diff' = [diff EXCEPT ![d] =
             [at |-> "done", code |-> code, prev |-> p, curr |-> c,
              unavailable |-> code = 200 /\ p = "gone"]]
<1>1. \A s \in hashes : query[<<d, s>>].at = "done"
  BY DEF Render
<1>2. /\ \A s \in Side : Abstract!Outcome(d, s) = Outcome(d, s)
      /\ \A s \in hashes : [q \in Query |-> Seen(q)][<<d, s>>].at = "done"
  BY <1>1, OutcomeMap
<1>3. /\ Abstract!Outcome(d, "prev") = p /\ Abstract!Outcome(d, "curr") = c
      /\ Abstract!Unreachable(d) <=> \E s \in Side : Outcome(d, s) = "unreachable"
      /\ Abstract!Gone(d) <=> \A s \in Side : Outcome(d, s) = "gone"
  BY <1>2 DEF Abstract!Unreachable, Abstract!Gone, Abstract!Side, Side
<1>4. /\ Refusal(d) = 503 => Abstract!Unreachable(d)
      /\ Refusal(d) = 410 => Abstract!Gone(d)
      /\ Refusal(d) = None => ~Abstract!Unreachable(d) /\ ~Abstract!Gone(d)
      /\ Refusal(d) \in {503, 410, None}
  BY <1>3, TunnelAssumption DEF Refusal
<1>5. e \in Entry
  BY OutcomeShown DEF Entry, Side
<1>6. \/ Refusal(d) # None /\ Answer(Refusal(d)) /\ UNCHANGED cache
      \/ Refusal(d) = None /\ Answer(200) /\ cache' = Put(e)
      \/ Refusal(d) = None /\ Answer(500) /\ UNCHANGED cache
  BY DEF Render
<1>7. /\ diff[d].at = "fetching" /\ missed' = [missed EXCEPT ![d] = {}]
      /\ UNCHANGED <<query, hashes, blobs>>
  BY DEF Render
<1>8. [q \in Query |-> Seen(q)]' = [q \in Query |-> Seen(q)]
  BY <1>7 DEF Seen
<1>9. UNCHANGED cache => Items(cache)' = Items(cache)
  BY DEF Items
<1> HIDE DEF p, c
<1>10. cache' = Put(e) => Abstract!Remember(e)
  <2> SUFFICES ASSUME cache' = Put(e) PROVE Abstract!Remember(e)
    OBVIOUS
  <2> HIDE DEF e
  <2>1. /\ e \in Items(cache')
        /\ Items(cache') \subseteq {e} \union {f \in Items(cache) : f.format # e.format}
    BY <1>5, PutRemembers
  <2> QED
    BY <2>1 DEF Abstract!Remember, Items
<1>11. \/ Abstract!Unreachable(d) /\ Answer(503) /\ Items(cache)' = Items(cache)
       \/ Abstract!Gone(d) /\ Answer(410) /\ Items(cache)' = Items(cache)
       \/ /\ ~Abstract!Unreachable(d) /\ ~Abstract!Gone(d)
          /\ \/ Answer(200) /\ Abstract!Remember(e)
             \/ Answer(500) /\ Items(cache)' = Items(cache)
  <2> HIDE DEF Answer, e
  <2> QED
    BY <1>4, <1>6, <1>9, <1>10
<1> QED
  BY <1>2, <1>3, <1>7, <1>8, <1>11 DEF Abstract!Render

LEMMA AgainMap ==
  ASSUME TypeInv, NEW d \in Diff, Again(d)
  PROVE  Abstract!Again(d)
<1>1. /\ diff[d].at = "done" /\ diff' = [diff EXCEPT ![d] = NotAsked]
      /\ query' = [q \in Query |-> IF q \notin FileQuery /\ Of(q) = d THEN Fresh ELSE query[q]]
      /\ UNCHANGED <<cache, hashes, blobs, missed>>
  BY DEF Again
<1>2. ASSUME NEW q \in Query
      PROVE  Seen(q)' = IF q \in {d} \X Side THEN Fresh ELSE Seen(q)
  <2>1. q \in {d} \X Side <=> q \notin FileQuery /\ Of(q) = d
    BY TunnelAssumption DEF Of, Query
  <2>2. CASE q \in {d} \X Side
    <3>1. query'[q] = Fresh
      BY <1>1, <2>1, <2>2
    <3> QED
      BY <2>2, <3>1, FreshType, SeenNext
  <2>3. CASE q \notin {d} \X Side
    <3>1. query'[q] = query[q]
      BY <1>1, <2>1, <2>3
    <3> QED
      BY <2>3, <3>1 DEF Seen
  <2> QED
    BY <2>2, <2>3
<1>3. Items(cache)' = Items(cache)
  BY <1>1 DEF Items
<1>4. Abstract!Query = Query /\ Abstract!Side = Side /\ Abstract!Fresh = Fresh
      /\ Abstract!NotAsked = NotAsked
  BY DEF Abstract!Query, Abstract!Side, Abstract!Fresh, Abstract!NotAsked, Query, Side, Fresh, NotAsked
<1> QED
  BY <1>1, <1>2, <1>3, <1>4 DEF Abstract!Again

\* Every execution of the tunnel is one of the questions: sending or failing to
\* send a query is asking it, and it is answered by whichever of a message, the
\* end of a connection and HTTP ends it; the rest changes nothing that is seen.
THEOREM Implementation == Spec => ImplementsQuestions
<1>1. Init => Abstract!Init
  <2> SUFFICES ASSUME Init PROVE Abstract!Init
    OBVIOUS
  <2>1. \A q \in Query : query[q] = Fresh
    BY DEF Init
  <2>2. \A q \in Query : Seen(q) = Fresh
    BY <2>1, FreshType, SeenFacts
  <2>3. Items(cache) = {}
    BY DEF Init, Items
  <2>4. Abstract!Query = Query /\ Abstract!Side = Side /\ Abstract!Fresh = Fresh
        /\ Abstract!NotAsked = NotAsked
    BY DEF Abstract!Query, Abstract!Side, Abstract!Fresh, Abstract!NotAsked, Query, Side, Fresh, NotAsked
  <2> QED
    BY <2>2, <2>3, <2>4 DEF Init, Abstract!Init
<1>2. /\ TypeInv /\ TypeInv' /\ StageInv /\ AnswerInv /\ AnswerInv' /\ CacheInv
      /\ [Next]_vars
      => [Abstract!Next]_(Abstract!vars)
  <2> SUFFICES ASSUME TypeInv, TypeInv', StageInv, AnswerInv, AnswerInv', CacheInv,
                      [Next]_vars
               PROVE  [Abstract!Next]_(Abstract!vars)
    OBVIOUS
  <2>0. /\ query \in [Query -> Asked] /\ query' \in [Query -> Asked]
        /\ Abstract!Query = Query /\ Abstract!Side = Side
        /\ FileQuery \subseteq Query /\ \A d \in Diff, s \in Side : <<d, s>> \in Query
    BY QueryCases DEF TypeInv, TypeOK, Abstract!Query, Abstract!Side, Query, Side
  <2>1. CASE UNCHANGED <<query, diffVars, hashes, blobs>>
    BY <2>1 DEF Abstract!vars, Seen, Items, diffVars
\* Queries are settled.
  <2>2. ASSUME NEW s, NEW st \in Statuses \union {None}, query' = Settle(s, st),
               UNCHANGED <<diffVars, hashes, blobs>>
        PROVE  Abstract!Answer
    <3>1. ASSUME NEW q \in Query, query'[q] # query[q]
          PROVE  query[q].at = "waiting" /\ query'[q].at \in {"http", "done"}
      <4>1. \A r, a : Done(r, a).at = "done"
        BY DEF Done
      <4>2. Settle(s, st)[q] # query[q]
        BY <2>2, <3>1
      <4> QED
        BY <2>0, <2>2, <4>1, <4>2, Settled, FreshType
    <3> QED
      BY <2>2, <3>1, AnswersMap DEF diffVars
  <2>3. ASSUME NEW c \in Conn, Link(c) PROVE [Abstract!Next]_(Abstract!vars)
    <3>1. CASE Register(c)
      BY <2>2, <3>1 DEF Register, Abstract!Next
    <3>2. CASE Hangup(c)
      BY <2>1, <3>2 DEF Hangup
    <3>3. CASE Unregister(c)
      BY <2>1, <2>2, <3>3 DEF Unregister, Statuses, Abstract!Next
    <3>4. CASE Deliver(c)
      <4>1. up[c] \in Seq(Message) /\ up[c] # <<>>
        BY <3>4 DEF Deliver, TypeInv, TypeOK
      <4>2. Head(up[c]) \in Message
        BY <4>1, Taken
      <4>3. Head(up[c]).status \in Statuses
        BY <4>2 DEF Message
      <4> QED
        BY <2>2, <3>4, <4>3 DEF Deliver, Abstract!Next
    <3> QED
      BY <2>3, <3>1, <3>2, <3>3, <3>4 DEF Link
  <2>4. ASSUME NEW c \in Conn, Connect(c) \/ Leave(c)
        PROVE  [Abstract!Next]_(Abstract!vars)
    BY <2>1, <2>4 DEF Connect, Leave
\* The agent looks for a side.
  <2>a. ASSUME NEW c \in Conn, Serve(c) PROVE Abstract!Answer
    <3>1. down[c] \in Seq(Query) /\ down[c] # <<>>
      BY <2>a DEF Serve, TypeInv, TypeOK
    <3>2. Head(down[c]) \in Query
      BY <3>1, Taken
    <3>3. \A d \in Diff : missed[d] \subseteq missed'[d]
      BY <2>a, <3>2, NotedGrows DEF Serve
    <3> QED
      BY <2>a, <3>3, AnswersMap DEF Serve
\* One query changes.
  <2>5. ASSUME NEW q \in Query, Ask(q) PROVE Abstract!Ask(q)
    <3>1. query[q] \in Asked
      BY <2>0
    <3>2. query'[q].at = "waiting" /\ \A p \in Query \ {q} : query'[p] = query[p]
      BY <2>0, <2>5, <3>1 DEF Ask, Asked
    <3> QED
      BY <2>5, <3>2, AskMap DEF Ask, diffVars
  <2>6. ASSUME NEW q \in Query, AskFails(q) PROVE Abstract!Ask(q)
    <3>1. query'[q].at = "http" /\ \A p \in Query \ {q} : query'[p] = query[p]
      BY <2>0, <2>6, FreshType DEF AskFails
    <3> QED
      BY <2>6, <3>1, AskMap DEF AskFails, diffVars
  <2>7. ASSUME NEW q \in Query, Answering(q) PROVE Abstract!Answer
    <3>1. /\ query[q].at \in {"waiting", "http"} /\ query'[q].at \in {"http", "done"}
          /\ \A p \in Query \ {q} : query'[p] = query[p]
      BY <2>0, <2>7, FreshType DEF Answering, TimeOut, Overdue, Fetch, Done
    <3>2. UNCHANGED <<diff, cache, hashes, blobs>>
      BY <2>7 DEF Answering, TimeOut, Fetch, diffVars
    <3>3. \A d \in Diff : missed[d] \subseteq missed'[d]
      BY <2>7, NotedGrows DEF Answering, TimeOut, Fetch, diffVars
    <3> QED
      BY <3>1, <3>2, <3>3, AnswersMap
\* Diffs.
  <2>8. ASSUME NEW d \in Diff, Hit(d) \/ Render(d) \/ Again(d)
        PROVE  Abstract!Show(d) \/ Abstract!Render(d) \/ Abstract!Again(d)
    BY <2>8, HitMap, RenderMap, AgainMap
  <2>9. ASSUME NEW d \in Diff, Miss(d) PROVE Abstract!Fetch(d)
    BY <2>9 DEF Miss, Abstract!Fetch, Seen, Items
  <2>10. ASSUME NEW s \in Side, Sweep(s) \/ Keep(s) PROVE Abstract!Sweep(s) \/ Abstract!Keep(s)
    BY <2>10 DEF Sweep, Keep, Abstract!Sweep, Abstract!Keep, Seen, Items, diffVars
  <2>11. CASE UNCHANGED vars
    BY <2>1, <2>11 DEF vars, diffVars
  <2>12. ASSUME NEW q \in FileQuery, Ask(q) \/ AskFails(q) \/ Answering(q)
         PROVE  Abstract!Next
    BY <2>0, <2>5, <2>6, <2>7, <2>12 DEF Abstract!Next
  <2>13. ASSUME NEW d \in Diff, Hit(d) \/ Miss(d) \/ Rendering(d) \/ Again(d)
         PROVE  Abstract!Next
    BY <2>0, <2>5, <2>6, <2>7, <2>8, <2>9, <2>13 DEF Rendering, Abstract!Next
  <2>14. ASSUME NEW s \in Side, Sweep(s) \/ Keep(s) PROVE Abstract!Next
    BY <2>0, <2>10, <2>14 DEF Abstract!Next
  <2>15. ASSUME NEW c \in Conn, Serve(c) PROVE Abstract!Next
    BY <2>a, <2>15 DEF Abstract!Next
  <2> QED
    BY <2>3, <2>4, <2>11, <2>12, <2>13, <2>14, <2>15 DEF Next
<1>3. Init => CacheInv
  BY DEF Init, CacheInv, OneEach
<1> QED
  BY <1>1, <1>2, <1>3, TypeInit, TypeStep, StageInit, StageStep, AnswerInit, AnswerStep,
     CacheStep, PTL DEF Spec, ImplementsQuestions, Abstract!Spec

=============================================================================
