---------------------------- MODULE Img2WebProofs ----------------------------
(***************************************************************************)
(* Proofs about Img2Web, for any number of threads, users, images and      *)
(* requests: the types, that an acknowledged post is stored, and that a    *)
(* feed is sound and complete although two statements read it.             *)
(***************************************************************************)
EXTENDS Img2Web, FiniteSetTheorems, SequenceTheorems, TLAPS

----------------------------------------------------------------------------
(* The inductive invariant *)

Rcs == {"unset", "ok", "error"}
ImageRows == [login : Logins, img : Images, by : 1..MaxRequests]
Args == Logins \cup Images \cup TopArgs \cup {NoArg}
AskedRequests == [component : Components, login : Logins \cup {NoArg}, arg : Args,
                  answered : SUBSET (1..MaxRequests)]

\* The arguments of a request are those of its component.
Legal(q) ==
  /\ q.component = "PostImage" => q.arg \in Images \cup {NoArg}
  /\ q.component = "GetFeed" => q.arg \in TopArgs \cup {NoArg}
  /\ q.component = "SubscribeTo" => q.arg \in Logins \cup {NoArg}

Typed ==
  /\ session \in [Components -> {"new", "connected", "failed"}]
  /\ users \subseteq Logins
  /\ subscriptions \subseteq Logins \X Logins
  /\ images \in Seq(ImageRows)
  /\ requests \in Seq(AskedRequests)
  /\ Len(requests) <= MaxRequests
  /\ \A r \in DOMAIN requests : Legal(requests[r])
  /\ queue \in Seq(1..MaxRequests)
  /\ Len(queue) <= QueueSize
  /\ DOMAIN reply = 1..MaxRequests
  /\ \A r \in 1..MaxRequests : reply[r].status \in {"none", "200", "404"}
  /\ DOMAIN thread = Threads
  /\ errors \in 0..MaxErrors

\* An image row carries the login of the request that stored it.
Signed(row) == row.by \in DOMAIN requests /\ requests[row.by].login = row.login

\* A write that is executed or under way is one of the three inserts.
Insert(stmt) ==
  \/ stmt.table = "users" /\ \E l \in Logins : stmt = InsertUser(l)
  \/ stmt.table = "subscriptions" /\ \E l, m \in Logins : stmt = InsertSubscription(l, m)
  \/ stmt.table = "images" /\ \E r \in DOMAIN requests : \E l \in Logins, i \in Images :
       stmt = InsertImage(l, i, r) /\ requests[r].login = l

Written ==
  /\ \A k \in DOMAIN images : Signed(images[k])
  /\ \A stmt \in late : Insert(stmt)

\* A request is in the queue, with one thread, or answered.
Owned ==
  /\ \A r \in 1..MaxRequests : Answered(r) => r \in DOMAIN requests
  /\ \A k \in DOMAIN queue :
       /\ queue[k] \in DOMAIN requests
       /\ ~Answered(queue[k])
       /\ \A j \in DOMAIN queue : queue[j] = queue[k] => j = k
       /\ \A t \in Threads : Busy(t) => thread[t].req # queue[k]
  /\ \A t \in Threads : Busy(t) =>
       /\ thread[t].req \in DOMAIN requests
       /\ ~Answered(thread[t].req)
       /\ \A u \in Threads : Busy(u) /\ thread[u].req = thread[t].req => u = t

\* What a request saw as answered when it was sent had been answered.
Told ==
  \A r \in DOMAIN requests : \A p \in requests[r].answered :
    p \in DOMAIN requests /\ Answered(p)

Stored(r) == \E k \in DOMAIN images : images[k].by = r
Subscribed(r) == <<requests[r].login, requests[r].arg>> \in subscriptions

\* s acknowledged, before r was sent, a subscription of r's login.
Followed(r, s) ==
  /\ s \in requests[r].answered
  /\ Of(s, "SubscribeTo")
  /\ Succeeded(s)
  /\ requests[s].login = requests[r].login

\* S: users r's login is subscribed to, and none it was told of is missing.
Covers(S, r) ==
  /\ S \subseteq Logins
  /\ \A m \in S : <<requests[r].login, m>> \in subscriptions
  /\ \A s \in DOMAIN requests :
       Followed(r, s) /\ requests[s].arg # NoArg => requests[s].arg \in S

\* The rows are a feed FeedSound and FeedComplete admit as the answer to r.
IsFeed(feed, r) ==
  /\ Len(feed) <= ParseTop(requests[r].arg)
  /\ \A j, k \in DOMAIN feed : j < k => feed[j].ts > feed[k].ts
  /\ \A k \in DOMAIN feed : <<requests[r].login, feed[k].login>> \in subscriptions
  /\ \A p, s \in DOMAIN requests :
       /\ p \in requests[r].answered
       /\ Of(p, "PostImage") /\ Succeeded(p)
       /\ Followed(r, s) /\ requests[s].arg = requests[p].login
       => \/ \E k \in DOMAIN feed : feed[k].by = p
          \/ /\ Len(feed) = ParseTop(requests[r].arg)
             /\ \A k \in DOMAIN feed : \E j \in DOMAIN images :
                  images[j].by = p /\ j < feed[k].ts

\* The statement a thread is blocked in is the one its request calls for, and
\* once it has been executed its effect is in the tables.
Works(w) ==
  LET r == w.req
      q == requests[r]
  IN /\ w = [pc |-> w.pc, req |-> r, stmt |-> w.stmt, rows |-> w.rows, future |-> w.future]
     /\ w.future \in Rcs
     /\ ~MissingArgs(q)
     /\ \/ /\ w.pc = "getUsers" /\ q.component = "ShowUsers"
           /\ w.stmt = SelectUsers
        \/ /\ w.pc = "registerUser" /\ q.component # "ShowUsers"
           /\ w.stmt = InsertUser(q.login)
        \/ /\ w.pc = "registerSelf" /\ q.component # "ShowUsers"
           /\ w.stmt = InsertSubscription(q.login, q.login)
        \/ /\ w.pc = "postImage" /\ q.component = "PostImage"
           /\ w.stmt = InsertImage(q.login, q.arg, r)
           /\ w.future = "ok" => Stored(r)
        \/ /\ w.pc = "subscribe" /\ q.component = "SubscribeTo"
           /\ w.stmt = InsertSubscription(q.login, q.arg)
           /\ w.future = "ok" => Subscribed(r)
        \/ /\ w.pc = "getSubscriptions" /\ q.component = "GetFeed"
           /\ w.stmt = SelectSubscriptions(q.login)
           /\ w.future = "ok" => Covers(w.rows, r)
        \/ /\ w.pc = "getImages" /\ q.component = "GetFeed"
           /\ w.stmt = SelectImages(w.stmt.logins, ParseTop(q.arg))
           /\ Covers(w.stmt.logins, r)
           /\ w.future = "ok" => IsFeed(w.rows, r)

Working == \A t \in Threads : Busy(t) => Works(thread[t])

\* What the answer 200 with this body promises of r is in the tables.
Kept(r, body) ==
  LET q == requests[r] IN
    /\ q.component # "SubscribeTo" => ~MissingArgs(q)
    /\ q.component = "PostImage" => Stored(r)
    /\ q.component = "SubscribeTo" /\ ~MissingArgs(q) => Subscribed(r)
    /\ q.component = "GetFeed" => IsFeed(body, r)

Promised == \A r \in DOMAIN requests : Succeeded(r) => Kept(r, reply[r].body)

IInv == Typed /\ Written /\ Owned /\ Told /\ Working /\ Promised

----------------------------------------------------------------------------
(* ORDER BY ts DESC LIMIT n *)

\* In a finite set of numbers every rank is taken by one number: the rank, the
\* count of the larger ones, falls as the number grows.
LEMMA Ranks ==
  ASSUME NEW N \in Nat, NEW mine \in SUBSET (1..N)
  PROVE  LET Rank(k) == Cardinality({j \in mine : j > k}) IN
         /\ Cardinality(mine) \in Nat
         /\ \A k \in mine : Rank(k) \in 0..(Cardinality(mine) - 1)
         /\ \A k, l \in mine : k < l => Rank(l) < Rank(k)
         /\ \A i \in 0..(Cardinality(mine) - 1) : \E k \in mine : Rank(k) = i
<1> DEFINE Newer(k) == {j \in mine : j > k}
           Rank(k) == Cardinality(Newer(k))
           c == Cardinality(mine)
           f == [k \in mine |-> Rank(k)]
<1>1. IsFiniteSet(mine) /\ c \in Nat
  <2>1. IsFiniteSet(1..N)
    BY FS_Interval
  <2> QED
    BY <2>1, FS_Subset, FS_CardinalityType
<1>2. ASSUME NEW k \in mine
      PROVE  Rank(k) \in 0..(c - 1)
  <2>1. IsFiniteSet(mine \ {k}) /\ Cardinality(mine \ {k}) = c - 1
    BY <1>1, FS_RemoveElement
  <2>2. Newer(k) \in SUBSET (mine \ {k})
    OBVIOUS
  <2>3. IsFiniteSet(Newer(k)) /\ Rank(k) <= Cardinality(mine \ {k})
    BY <2>1, <2>2, FS_Subset
  <2>4. Rank(k) \in Nat
    BY <2>3, FS_CardinalityType
  <2> QED
    BY <1>1, <2>1, <2>3, <2>4
<1>3. ASSUME NEW k \in mine, NEW l \in mine, k < l
      PROVE  Rank(l) < Rank(k)
  <2>1. IsFiniteSet(Newer(k))
    BY <1>1, FS_Subset
  <2>2. Newer(l) \in SUBSET Newer(k)
    <3>1. \A j \in mine : j \in Int /\ (j > l => j > k)
      BY <1>3
    <3> QED
      BY <3>1
  <2>3. Newer(l) # Newer(k)
    <3>1. l \in Newer(k) /\ l \notin Newer(l)
      BY <1>3
    <3> QED
      BY <3>1
  <2>4. Rank(l) <= Rank(k) /\ Rank(l) # Rank(k)
    <3> HIDE DEF Newer
    <3> QED
      BY <2>1, <2>2, <2>3, FS_Subset
  <2>5. Rank(k) \in Nat /\ Rank(l) \in Nat
    BY <1>2, <1>1
  <2> QED
    BY <2>4, <2>5
<1>4. f \in Injection(mine, 0..(c - 1))
  <2> HIDE DEF Rank
  <2>1. f \in [mine -> 0..(c - 1)]
    BY <1>2
  <2>2. ASSUME NEW k \in mine, NEW l \in mine, f[k] = f[l]
        PROVE  k = l
    <3>1. Rank(k) = Rank(l) /\ Rank(k) \in 0..(c - 1)
      BY <2>2, <1>2
    <3>2. ~(k < l) /\ ~(l < k)
      BY <3>1, <1>3, <1>1
    <3> QED
      BY <3>2
  <2> QED
    BY <2>1, <2>2 DEF Injection, IsInjective
<1>5. f \in Surjection(mine, 0..(c - 1))
  <2>1. IsFiniteSet(0..(c - 1)) /\ Cardinality(0..(c - 1)) = c
    <3>1. 0 \in Int /\ c - 1 \in Int /\ c \in Nat
      BY <1>1
    <3>2. /\ IsFiniteSet(0..(c - 1))
          /\ Cardinality(0..(c - 1)) = IF 0 > c - 1 THEN 0 ELSE c - 1 - 0 + 1
      BY <3>1, FS_Interval
    <3> QED
      BY <3>1, <3>2
  <2> HIDE DEF f
  <2> QED
    BY <1>4, <2>1, FS_Injection
<1>6. ASSUME NEW i \in 0..(c - 1)
      PROVE  \E k \in mine : Rank(k) = i
  <2>1. PICK k \in mine : f[k] = i
    BY <1>5 DEF Surjection
  <2> QED
    BY <2>1
<1> QED
  BY <1>1, <1>2, <1>3, <1>6

\* The rows are the newest images of the users in S, at most n: an image left
\* out is older than all that are shown.
NewestRows(feed, S, n) ==
  /\ Len(feed) \in Nat /\ Len(feed) <= n
  /\ DOMAIN feed = 1..Len(feed)
  /\ \A k \in DOMAIN feed :
       /\ feed[k].ts \in DOMAIN images
       /\ feed[k].login = images[feed[k].ts].login /\ feed[k].login \in S
       /\ feed[k].by = images[feed[k].ts].by
  /\ \A j, k \in DOMAIN feed : j < k => feed[j].ts > feed[k].ts
  /\ \A m \in DOMAIN images : images[m].login \in S =>
       \/ \E k \in DOMAIN feed : feed[k].ts = m
       \/ Len(feed) = n /\ \A k \in DOMAIN feed : m < feed[k].ts

\* That is what the SELECT with its LIMIT returns.
LEMMA NewestFirstRows ==
  ASSUME images \in Seq(ImageRows), NEW S, NEW n \in Nat,
         NEW feed, feed = NewestFirst(S, n)
  PROVE  NewestRows(feed, S, n)
<1> DEFINE N == Len(images)
           mine == {k \in DOMAIN images : images[k].login \in S}
           Rank(k) == Cardinality({j \in mine : j > k})
           c == Cardinality(mine)
           shown == IF c < n THEN c ELSE n
           Nth(i) == CHOOSE k \in mine : Rank(k) = i - 1
           Row(k) == [login |-> images[k].login, img |-> images[k].img,
                      by |-> images[k].by, ts |-> k]
<1>1. /\ N \in Nat /\ DOMAIN images = 1..N /\ mine \in SUBSET (1..N)
      /\ \A k \in mine : k \in Int
  BY LenProperties
<1>2. feed = [i \in 1..shown |-> Row(Nth(i))]
  BY DEF NewestFirst
<1>3. /\ c \in Nat
      /\ \A k \in mine : Rank(k) \in 0..(c - 1)
      /\ \A k, l \in mine : k < l => Rank(l) < Rank(k)
      /\ \A i \in 0..(c - 1) : \E k \in mine : Rank(k) = i
  <2> HIDE DEF N, mine
  <2> QED
    BY <1>1, Ranks
<1> HIDE DEF N, mine, Rank, c
<1>4. shown \in Nat /\ shown <= n /\ shown <= c /\ (c <= shown \/ shown = n)
  BY <1>3
<1> HIDE DEF shown
<1>5. Len(feed) = shown /\ DOMAIN feed = 1..shown
  <2>1. DOMAIN feed = 1..shown
    BY <1>2
  <2> QED
    BY <1>2, <1>4, <2>1
<1>6. ASSUME NEW i \in 1..shown
      PROVE  Nth(i) \in mine /\ Rank(Nth(i)) = i - 1
  <2>1. i - 1 \in 0..(c - 1)
    BY <1>3, <1>4
  <2>2. \E k \in mine : Rank(k) = i - 1
    BY <1>3, <2>1
  <2> QED
    BY <2>2
<1> HIDE DEF Nth
<1>7. ASSUME NEW i \in 1..shown
      PROVE  feed[i] = Row(Nth(i)) /\ feed[i].ts = Nth(i)
  BY <1>2
<1>8. ASSUME NEW i \in DOMAIN feed
      PROVE  /\ feed[i].ts \in DOMAIN images
             /\ feed[i].login = images[feed[i].ts].login /\ feed[i].login \in S
             /\ feed[i].by = images[feed[i].ts].by
  BY <1>5, <1>6, <1>7 DEF mine
<1> HIDE DEF Row
<1>9. ASSUME NEW j \in DOMAIN feed, NEW k \in DOMAIN feed, j < k
      PROVE  feed[j].ts > feed[k].ts
  <2>1. j \in 1..shown /\ k \in 1..shown
    BY <1>5
  <2>2. Nth(j) \in mine /\ Nth(k) \in mine /\ Rank(Nth(j)) < Rank(Nth(k))
    BY <1>4, <1>6, <1>9, <2>1
  <2>3. Nth(j) \in Int /\ Nth(k) \in Int
    BY <1>1, <2>2
  <2>4. Rank(Nth(j)) \in Int /\ Rank(Nth(k)) \in Int
    BY <1>3, <2>2
  <2>5. ~(Nth(j) < Nth(k)) /\ Nth(j) # Nth(k)
    BY <1>3, <2>2, <2>4
  <2> QED
    BY <1>7, <2>1, <2>3, <2>5
<1>10. ASSUME NEW m \in DOMAIN images, images[m].login \in S
       PROVE  \/ \E k \in DOMAIN feed : feed[k].ts = m
              \/ Len(feed) = n /\ \A k \in DOMAIN feed : m < feed[k].ts
  <2>1. m \in mine /\ Rank(m) \in 0..(c - 1) /\ Rank(m) \in Int /\ m \in Int
    BY <1>1, <1>3, <1>10 DEF mine
  <2>2. CASE Rank(m) < shown
    <3>1. Rank(m) + 1 \in 1..shown
      BY <1>4, <2>1, <2>2
    <3>2. Nth(Rank(m) + 1) \in mine /\ Rank(Nth(Rank(m) + 1)) = Rank(m)
      BY <1>6, <2>1, <3>1
    <3>3. Nth(Rank(m) + 1) \in Int
      BY <1>1, <3>2
    <3>4. Nth(Rank(m) + 1) = m
      BY <1>3, <2>1, <3>2, <3>3
    <3> QED
      BY <1>5, <1>7, <3>1, <3>4
  <2>3. CASE ~(Rank(m) < shown)
    <3>1. shown = n /\ shown <= Rank(m)
      BY <1>3, <1>4, <2>1, <2>3
    <3>2. ASSUME NEW k \in DOMAIN feed
          PROVE  m < feed[k].ts
      <4>1. k \in 1..shown
        BY <1>5
      <4>2. Nth(k) \in mine /\ Rank(Nth(k)) = k - 1
        BY <1>6, <4>1
      <4>3. k \in Int /\ k - 1 < Rank(m)
        BY <1>4, <2>1, <3>1, <4>1
      <4>4. Nth(k) \in Int
        BY <1>1, <4>2
      <4>5. ~(Nth(k) < m) /\ Nth(k) # m
        BY <1>3, <2>1, <4>2, <4>3
      <4> QED
        BY <1>7, <2>1, <4>1, <4>4, <4>5
    <3> QED
      BY <1>5, <3>1, <3>2
  <2> QED
    BY <2>2, <2>3
<1> QED
  BY <1>4, <1>5, <1>8, <1>9, <1>10 DEF NewestRows

----------------------------------------------------------------------------
(* What every step leaves as it was *)

\* The tables and the list of requests only grow and an answer is final.
Grows ==
  /\ DOMAIN images \subseteq DOMAIN images'
  /\ \A k \in DOMAIN images : images'[k] = images[k]
  /\ subscriptions \subseteq subscriptions'
  /\ DOMAIN requests \subseteq DOMAIN requests'
  /\ \A r \in DOMAIN requests : requests'[r] = requests[r]
  /\ \A r \in DOMAIN requests : Answered(r) => reply'[r] = reply[r]

\* What was said of the requests sent before stays true.
LEMMA AnsweredBefore ==
  ASSUME Told, Grows, NEW r \in DOMAIN requests, NEW s
  PROVE  /\ Followed(r, s)' => Followed(r, s) /\ s \in DOMAIN requests
         /\ s \in requests'[r].answered /\ (Of(s, "PostImage") /\ Succeeded(s))' =>
              /\ s \in requests[r].answered /\ s \in DOMAIN requests
              /\ Of(s, "PostImage") /\ Succeeded(s)
<1>1. requests'[r] = requests[r]
  BY DEF Grows
<1>2. ASSUME s \in requests[r].answered
      PROVE  s \in DOMAIN requests /\ requests'[s] = requests[s] /\ reply'[s] = reply[s]
  BY <1>2 DEF Told, Grows
<1> QED
  BY <1>1, <1>2 DEF Followed, Of, Succeeded

\* A row that was written is not removed: the service only inserts.
LEMMA StoredStays ==
  ASSUME Grows, NEW r \in DOMAIN requests
  PROVE  /\ Stored(r) => Stored(r)'
         /\ Subscribed(r) => Subscribed(r)'
BY DEF Grows, Stored, Subscribed

\* Subscriptions that cover a reader's past cover it after more inserts.
LEMMA CoversStays ==
  ASSUME Told, Grows, NEW r \in DOMAIN requests, NEW S, Covers(S, r)
  PROVE  Covers(S, r)'
<1>1. requests'[r] = requests[r] /\ subscriptions \subseteq subscriptions'
  BY DEF Grows
<1>2. ASSUME NEW s, Followed(r, s)', requests'[s].arg # NoArg
      PROVE  requests'[s].arg \in S
  <2>1. Followed(r, s) /\ s \in DOMAIN requests
    BY <1>2, AnsweredBefore
  <2>2. requests'[s] = requests[s]
    BY <2>1 DEF Grows
  <2> QED
    BY <1>2, <2>1, <2>2 DEF Covers
<1> QED
  BY <1>1, <1>2 DEF Covers

\* A feed that was right when it was read stays right for its request.
LEMMA IsFeedStays ==
  ASSUME Told, Grows, NEW r \in DOMAIN requests, NEW feed, IsFeed(feed, r)
  PROVE  IsFeed(feed, r)'
<1>1. requests'[r] = requests[r] /\ subscriptions \subseteq subscriptions'
  BY DEF Grows
<1>2. /\ Len(feed) <= ParseTop(requests'[r].arg)
      /\ \A j, k \in DOMAIN feed : j < k => feed[j].ts > feed[k].ts
      /\ \A k \in DOMAIN feed : <<requests'[r].login, feed[k].login>> \in subscriptions'
  BY <1>1 DEF IsFeed
<1>3. ASSUME NEW p, NEW s, p \in requests'[r].answered,
             (Of(p, "PostImage") /\ Succeeded(p))', Followed(r, s)',
             requests'[s].arg = requests'[p].login
      PROVE  \/ \E k \in DOMAIN feed : feed[k].by = p
             \/ /\ Len(feed) = ParseTop(requests'[r].arg)
                /\ \A k \in DOMAIN feed : \E j \in DOMAIN images' :
                     images'[j].by = p /\ j < feed[k].ts
  <2>1. /\ p \in requests[r].answered /\ p \in DOMAIN requests
        /\ Of(p, "PostImage") /\ Succeeded(p)
    BY <1>3, AnsweredBefore
  <2>2. Followed(r, s) /\ s \in DOMAIN requests
    BY <1>3, AnsweredBefore
  <2>3. requests'[p] = requests[p] /\ requests'[s] = requests[s]
    BY <2>1, <2>2 DEF Grows
  <2>4. \/ \E k \in DOMAIN feed : feed[k].by = p
        \/ /\ Len(feed) = ParseTop(requests[r].arg)
           /\ \A k \in DOMAIN feed : \E j \in DOMAIN images :
                images[j].by = p /\ j < feed[k].ts
    BY <1>3, <2>1, <2>2, <2>3 DEF IsFeed
  <2>5. \A j \in DOMAIN images : j \in DOMAIN images' /\ images'[j] = images[j]
    BY DEF Grows
  <2> QED
    BY <1>1, <2>4, <2>5
<1> QED
  BY <1>1, <1>2, <1>3 DEF IsFeed, ParseTop

\* What a blocked thread relies on is not undone by other threads.
LEMMA WorksStays ==
  ASSUME Told, Grows, NEW w, w.req \in DOMAIN requests, Works(w)
  PROVE  Works(w)'
<1>1. requests'[w.req] = requests[w.req]
  BY DEF Grows
<1>2. Stored(w.req) => Stored(w.req)'
  BY StoredStays
<1>3. Subscribed(w.req) => Subscribed(w.req)'
  BY StoredStays
<1>4. Covers(w.rows, w.req) => Covers(w.rows, w.req)'
  BY CoversStays
<1>5. Covers(w.stmt.logins, w.req) => Covers(w.stmt.logins, w.req)'
  BY CoversStays
<1>6. IsFeed(w.rows, w.req) => IsFeed(w.rows, w.req)'
  BY IsFeedStays
<1> QED
  BY <1>1, <1>2, <1>3, <1>4, <1>5, <1>6
  DEF Works, MissingArgs, ParseTop, SelectUsers, InsertUser, InsertSubscription,
      InsertImage, SelectSubscriptions, SelectImages

\* The promise of a reply that was sent is not undone by later steps.
LEMMA KeptStays ==
  ASSUME Told, Grows, NEW r \in DOMAIN requests, NEW body, Kept(r, body)
  PROVE  Kept(r, body)'
<1>1. requests'[r] = requests[r]
  BY DEF Grows
<1>2. (Stored(r) => Stored(r)') /\ (Subscribed(r) => Subscribed(r)')
  BY StoredStays
<1>3. IsFeed(body, r) => IsFeed(body, r)'
  BY IsFeedStays
<1> QED
  BY <1>1, <1>2, <1>3 DEF Kept, MissingArgs

----------------------------------------------------------------------------
(* The tables *)

\* Before a handler is loaded nothing is stored and nothing promised.
LEMMA InitIInv ==
  ASSUME Init
  PROVE  IInv
<1>1. Typed
  BY EmptySeq, BoundsAssumption DEF Init, Typed, NoReply, Components
<1>2. Written /\ Told /\ Promised
  BY DEF Init, Written, Told, Promised
<1>3. Owned /\ Working
  BY DEF Init, Owned, Working, Busy, Answered
<1> QED
  BY <1>1, <1>2, <1>3 DEF IInv

\* An insert puts its row into the table it names and keeps the other rows.
LEMMA WriteInserts ==
  ASSUME Typed, Written, NEW stmt, Insert(stmt), Write(stmt), requests' = requests
  PROVE  /\ users' \subseteq Logins
         /\ subscriptions' \subseteq Logins \X Logins
         /\ images' \in Seq(ImageRows)
         /\ (\A k \in DOMAIN images : Signed(images[k]))'
         /\ subscriptions \subseteq subscriptions'
         /\ DOMAIN images \subseteq DOMAIN images'
         /\ \A k \in DOMAIN images : images'[k] = images[k]
         /\ stmt.table = "subscriptions" => stmt.row \in subscriptions'
         /\ stmt.table = "images" => \E k \in DOMAIN images' : images'[k] = stmt.row
<1>1. CASE \E l \in Logins : stmt = InsertUser(l)
  <2>1. stmt.table = "users" /\ stmt.row \in Logins
    BY <1>1 DEF InsertUser
  <2>2. users' = users \cup {stmt.row} /\ subscriptions' = subscriptions /\ images' = images
    BY <2>1 DEF Write
  <2>3. (\A k \in DOMAIN images : Signed(images[k]))'
    BY <2>2 DEF Written, Signed
  <2> QED
    BY <2>1, <2>2, <2>3 DEF Typed
<1>2. CASE \E l, m \in Logins : stmt = InsertSubscription(l, m)
  <2>1. stmt.table = "subscriptions" /\ stmt.row \in Logins \X Logins
    BY <1>2 DEF InsertSubscription
  <2>2. subscriptions' = subscriptions \cup {stmt.row} /\ users' = users /\ images' = images
    BY <2>1 DEF Write
  <2>3. (\A k \in DOMAIN images : Signed(images[k]))'
    BY <2>2 DEF Written, Signed
  <2> QED
    BY <2>1, <2>2, <2>3 DEF Typed
<1>3. CASE \E r \in DOMAIN requests : \E l \in Logins, i \in Images :
             stmt = InsertImage(l, i, r) /\ requests[r].login = l
  <2>0. PICK r \in DOMAIN requests, l \in Logins, i \in Images :
          stmt = InsertImage(l, i, r) /\ requests[r].login = l
    BY <1>3
  <2>1. stmt.table = "images" /\ stmt.row = [login |-> l, img |-> i, by |-> r]
    BY <2>0 DEF InsertImage
  <2>2. r \in 1..MaxRequests
    <3>1. DOMAIN requests = 1..Len(requests) /\ Len(requests) \in Nat
      BY LenProperties DEF Typed
    <3> QED
      BY <3>1, BoundsAssumption DEF Typed
  <2>3. stmt.row \in ImageRows
    BY <2>1, <2>2 DEF ImageRows
  <2>4. /\ images' = Append(images, stmt.row)
        /\ users' = users /\ subscriptions' = subscriptions
    BY <2>1 DEF Write
  <2>5. /\ images' \in Seq(ImageRows)
        /\ DOMAIN images = 1..Len(images) /\ Len(images) \in Nat
        /\ DOMAIN images' = 1..(Len(images) + 1)
        /\ \A k \in 1..Len(images) : images'[k] = images[k]
        /\ images'[Len(images) + 1] = stmt.row
    BY <2>3, <2>4, AppendProperties, LenProperties DEF Typed
  <2>6. Signed(stmt.row)
    BY <2>0, <2>1 DEF Signed
  <2>7. (\A k \in DOMAIN images : Signed(images[k]))'
    <3>1. ASSUME NEW k \in DOMAIN images'
          PROVE  images'[k] = stmt.row \/ (k \in DOMAIN images /\ images'[k] = images[k])
      BY <2>5
    <3>2. \A k \in DOMAIN images' : Signed(images'[k])
      BY <2>6, <3>1 DEF Written
    <3> QED
      BY <3>2 DEF Signed
  <2> QED
    BY <2>1, <2>4, <2>5, <2>7 DEF Typed
<1> QED
  BY <1>1, <1>2, <1>3 DEF Insert

----------------------------------------------------------------------------
(* Steps of a thread that keeps its request *)

\* Requests keep their owners while threads only go on or finish.
LEMMA SameOwners ==
  ASSUME Owned, UNCHANGED <<requests, queue, reply>>,
         \A u \in Threads : Busy(u)' => Busy(u) /\ thread'[u].req = thread[u].req
  PROVE  Owned'
<1>1. \A r : Answered(r)' <=> Answered(r)
  BY DEF Answered
<1>2. \A r \in 1..MaxRequests : Answered(r)' => r \in DOMAIN requests'
  BY <1>1 DEF Owned
<1>3. ASSUME NEW k \in DOMAIN queue'
      PROVE  /\ queue'[k] \in DOMAIN requests'
             /\ ~Answered(queue[k])'
             /\ \A j \in DOMAIN queue' : queue'[j] = queue'[k] => j = k
             /\ \A u \in Threads : Busy(u)' => thread'[u].req # queue'[k]
  BY <1>3 DEF Owned, Answered
<1>4. ASSUME NEW u \in Threads, Busy(u)'
      PROVE  /\ thread'[u].req \in DOMAIN requests'
             /\ ~Answered(thread[u].req)'
             /\ \A v \in Threads : Busy(v)' /\ thread'[v].req = thread'[u].req => v = u
  BY <1>4 DEF Owned, Answered
<1> QED
  BY <1>2, <1>3, <1>4 DEF Owned

\* A thread sends its next statement.
LEMMA Continue ==
  ASSUME IInv, NEW t \in Threads, Busy(t), NEW pc, pc # "idle", NEW stmt,
         ExecQuery(t, pc, thread[t].req, stmt),
         UNCHANGED <<session, tables, requests, queue, reply, errors>>,
         \A rc \in Rcs \ {"ok"} :
           Works([pc |-> pc, req |-> thread[t].req, stmt |-> stmt, rows |-> {}, future |-> rc])
  PROVE  IInv'
<1> USE DEF IInv
<1>1. PICK rc \in Rcs \ {"ok"} : thread' = [thread EXCEPT ![t] =
        [pc |-> pc, req |-> thread[t].req, stmt |-> stmt, rows |-> {}, future |-> rc]]
  <2> DEFINE rc == IF session[requests[thread[t].req].component] = "connected"
                   THEN "unset" ELSE "error"
  <2>1. rc \in Rcs \ {"ok"}
    BY DEF Rcs
  <2>2. thread' = [thread EXCEPT ![t] =
          [pc |-> pc, req |-> thread[t].req, stmt |-> stmt, rows |-> {}, future |-> rc]]
    BY DEF ExecQuery
  <2> HIDE DEF rc
  <2> QED
    BY <2>1, <2>2
<1>2. PICK w : w = [pc |-> pc, req |-> thread[t].req, stmt |-> stmt, rows |-> {}, future |-> rc]
  OBVIOUS
<1>3. /\ DOMAIN thread' = Threads
      /\ thread'[t] = w /\ w.req = thread[t].req
      /\ \A u \in Threads \ {t} : thread'[u] = thread[u]
  BY <1>1, <1>2 DEF Typed
<1>4. Grows
  BY DEF Grows, tables
<1>5. Typed'
  BY <1>3 DEF Typed, tables, Legal
<1>6. Written'
  BY DEF Written, Signed, Insert, tables
<1>7. Owned'
  <2>1. ASSUME NEW u \in Threads, Busy(u)'
        PROVE  Busy(u) /\ thread'[u].req = thread[u].req
    BY <1>3, <2>1 DEF Busy
  <2> QED
    BY <2>1, SameOwners
<1>8. Told'
  BY DEF Told, Answered
<1>9. ASSUME NEW u \in Threads, Busy(u)'
      PROVE  Works(thread[u])'
  <2>1. CASE u = t
    <3>1. Works(w) /\ w.req \in DOMAIN requests
      BY <1>1, <1>2, <1>3 DEF Owned
    <3>2. Works(w)'
      BY <1>4, <3>1, WorksStays
    <3> QED
      BY <1>3, <2>1, <3>2
  <2>2. CASE u # t
    <3>1. PICK v : v = thread[u]
      OBVIOUS
    <3>2. thread'[u] = v /\ Works(v) /\ v.req \in DOMAIN requests
      BY <1>3, <1>9, <2>2, <3>1 DEF Working, Owned, Busy
    <3>3. Works(v)'
      BY <1>4, <3>2, WorksStays
    <3> QED
      BY <3>2, <3>3
  <2> QED
    BY <2>1, <2>2
<1>10. Working'
  BY <1>9 DEF Working
<1>11. ASSUME NEW r \in DOMAIN requests', Succeeded(r)'
       PROVE  Kept(r, reply[r].body)'
  <2>1. PICK body : body = reply[r].body
    OBVIOUS
  <2>2. Kept(r, body)
    BY <1>11, <2>1 DEF Promised, Succeeded
  <2>3. Kept(r, body)'
    BY <1>4, <1>11, <2>2, KeptStays
  <2> QED
    BY <2>1, <2>3
<1> QED
  BY <1>5, <1>6, <1>7, <1>8, <1>10, <1>11 DEF Promised

\* The future of a thread's statement is set, and the tables have grown.
LEMMA Settle ==
  ASSUME IInv, NEW t \in Threads, Busy(t), NEW rc \in Rcs, NEW rows,
         SetFuture(t, rc, rows), Grows,
         UNCHANGED <<session, requests, queue, reply>>,
         Typed', Written',
         NEW w, w = [pc |-> thread[t].pc, req |-> thread[t].req, stmt |-> thread[t].stmt,
                     rows |-> rows, future |-> rc],
         Works(w)'
  PROVE  IInv'
<1> USE DEF IInv
<1>1. /\ thread'[t] = w /\ w.req = thread[t].req
      /\ \A u \in Threads \ {t} : thread'[u] = thread[u]
  <2>1. Works(thread[t])
    BY DEF Working
  <2>2. PICK v : v = thread[t]
    OBVIOUS
  <2>3. v = [pc |-> v.pc, req |-> v.req, stmt |-> v.stmt, rows |-> v.rows, future |-> v.future]
    BY <2>1, <2>2 DEF Works
  <2>4. [v EXCEPT !.future = rc, !.rows = rows] = w
    <3>1. PICK e : e = [v EXCEPT !.future = rc, !.rows = rows]
      OBVIOUS
    <3>2. v \in [pc : {v.pc}, req : {v.req}, stmt : {v.stmt}, rows : {v.rows}, future : {v.future}]
      BY <2>3
    <3>3. e \in [pc : {v.pc}, req : {v.req}, stmt : {v.stmt}, rows : {rows}, future : {rc}]
      BY <3>1, <3>2
    <3> QED
      BY <2>2, <3>1, <3>3
  <2>5. thread' = [thread EXCEPT ![t] = [v EXCEPT !.future = rc, !.rows = rows]]
    BY <2>2 DEF SetFuture
  <2> QED
    BY <2>4, <2>5 DEF Typed
<1>2. Owned'
  <2>1. ASSUME NEW u \in Threads, Busy(u)'
        PROVE  Busy(u) /\ thread'[u].req = thread[u].req
    BY <1>1, <2>1 DEF Busy
  <2> QED
    BY <2>1, SameOwners
<1>3. Told'
  BY DEF Told, Answered
<1>4. ASSUME NEW u \in Threads, Busy(u)'
      PROVE  Works(thread[u])'
  <2>1. CASE u = t
    BY <1>1, <2>1
  <2>2. CASE u # t
    <3>1. PICK v : v = thread[u]
      OBVIOUS
    <3>2. thread'[u] = v /\ Works(v) /\ v.req \in DOMAIN requests
      BY <1>1, <1>4, <2>2, <3>1 DEF Working, Owned, Busy
    <3>3. Works(v)'
      BY <3>2, WorksStays
    <3> QED
      BY <3>2, <3>3
  <2> QED
    BY <2>1, <2>2
<1>5. Working'
  BY <1>4 DEF Working
<1>6. ASSUME NEW r \in DOMAIN requests', Succeeded(r)'
      PROVE  Kept(r, reply[r].body)'
  <2>1. PICK body : body = reply[r].body
    OBVIOUS
  <2>2. Kept(r, body)
    BY <1>6, <2>1 DEF Promised, Succeeded
  <2>3. Kept(r, body)'
    BY <1>6, <2>2, KeptStays
  <2> QED
    BY <2>1, <2>3
<1> QED
  BY <1>2, <1>3, <1>5, <1>6 DEF Promised

\* A thread answers its request and is free again.
LEMMA Answer ==
  ASSUME IInv, NEW t \in Threads, Busy(t), NEW r, r = thread[t].req, NEW answer,
         answer.status \in {"200", "404"}, Finish(t, r, answer),
         UNCHANGED <<session, tables, requests, queue, errors>>,
         answer.status = "200" => Kept(r, answer.body)
  PROVE  IInv'
<1> USE DEF IInv
<1>1. r \in DOMAIN requests /\ r \in 1..MaxRequests /\ ~Answered(r)
  <2>1. DOMAIN requests = 1..Len(requests) /\ Len(requests) \in Nat
    BY LenProperties DEF Typed
  <2> QED
    BY <2>1, BoundsAssumption DEF Typed, Owned
<1>2. /\ reply'[r] = answer /\ DOMAIN reply' = 1..MaxRequests
      /\ \A p \in 1..MaxRequests : p # r => reply'[p] = reply[p]
      /\ \A p : Answered(p) /\ p \in 1..MaxRequests => reply'[p] = reply[p]
  BY <1>1 DEF Finish, Typed
<1>3. /\ DOMAIN thread' = Threads
      /\ thread'[t] = Idle
      /\ \A u \in Threads \ {t} : thread'[u] = thread[u]
  BY DEF Finish, Typed
<1>4. DOMAIN requests \subseteq 1..MaxRequests
  <2>1. DOMAIN requests = 1..Len(requests) /\ Len(requests) \in Nat
    BY LenProperties DEF Typed
  <2> QED
    BY <2>1, BoundsAssumption DEF Typed
<1>5. Grows
  BY <1>2, <1>4 DEF Grows, tables
<1>6. Typed'
  BY <1>2, <1>3 DEF Typed, tables, Legal
<1>7. Written'
  BY DEF Written, Signed, Insert, tables
<1>8. Answered(r)' /\ \A p \in 1..MaxRequests : p # r => (Answered(p)' <=> Answered(p))
  BY <1>2 DEF Answered, NoReply
<1>9. Owned'
  <2>1. \A p \in 1..MaxRequests : Answered(p)' => p \in DOMAIN requests'
    BY <1>1, <1>8 DEF Owned
  <2>2. ASSUME NEW k \in DOMAIN queue'
        PROVE  /\ queue'[k] \in DOMAIN requests'
               /\ ~Answered(queue[k])'
               /\ \A j \in DOMAIN queue' : queue'[j] = queue'[k] => j = k
               /\ \A u \in Threads : Busy(u)' => thread'[u].req # queue'[k]
    <3>1. queue[k] # r /\ queue[k] \in 1..MaxRequests
      BY <1>4 DEF Owned
    <3>2. ~Answered(queue[k])'
      BY <1>8, <3>1 DEF Owned
    <3>3. \A u \in Threads : Busy(u)' => thread'[u].req # queue'[k]
      BY <1>3 DEF Owned, Busy
    <3> QED
      BY <3>2, <3>3 DEF Owned
  <2>3. ASSUME NEW u \in Threads, Busy(u)'
        PROVE  /\ thread'[u].req \in DOMAIN requests'
               /\ ~Answered(thread[u].req)'
               /\ \A v \in Threads : Busy(v)' /\ thread'[v].req = thread'[u].req => v = u
    <3>1. u # t /\ thread'[u] = thread[u] /\ Busy(u)
      BY <1>3, <2>3 DEF Busy
    <3>2. thread[u].req # r /\ thread[u].req \in 1..MaxRequests
      BY <1>4, <3>1 DEF Owned
    <3>3. ~Answered(thread[u].req)'
      BY <1>8, <3>1, <3>2 DEF Owned, Answered
    <3>4. \A v \in Threads : Busy(v)' /\ thread'[v].req = thread'[u].req => v = u
      BY <1>3, <3>1 DEF Owned, Busy
    <3> QED
      BY <3>1, <3>3, <3>4 DEF Owned
  <2> QED
    BY <2>1, <2>2, <2>3 DEF Owned
<1>10. Told'
  BY <1>4, <1>8 DEF Told
<1>11. ASSUME NEW u \in Threads, Busy(u)'
       PROVE  Works(thread[u])'
  <2>1. PICK v : v = thread[u]
    OBVIOUS
  <2>2. thread'[u] = v /\ Works(v) /\ v.req \in DOMAIN requests
    BY <1>3, <1>11, <2>1 DEF Working, Owned, Busy
  <2>3. Works(v)'
    BY <1>5, <2>2, WorksStays
  <2> QED
    BY <2>2, <2>3
<1>12. ASSUME NEW p \in DOMAIN requests', Succeeded(p)'
       PROVE  Kept(p, reply[p].body)'
  <2>1. PICK body : body = reply'[p].body
    OBVIOUS
  <2>2. Kept(p, body)
    <3>1. p \in DOMAIN requests /\ p \in 1..MaxRequests
      BY <1>4, <1>12
    <3>2. CASE p = r
      BY <1>2, <1>12, <2>1, <3>2 DEF Succeeded
    <3>3. CASE p # r
      BY <1>2, <1>12, <2>1, <3>1, <3>3 DEF Promised, Succeeded
    <3> QED
      BY <3>2, <3>3
  <2>3. Kept(p, body)'
    BY <1>5, <1>12, <2>2, KeptStays
  <2> QED
    BY <2>1, <2>3
<1> QED
  BY <1>6, <1>7, <1>9, <1>10, <1>11, <1>12 DEF Promised, Working

----------------------------------------------------------------------------
(* Steps at the queue *)

\* Requests are numbered without gaps, at most MaxRequests of them.
LEMMA RequestNumbers ==
  ASSUME Typed
  PROVE  /\ DOMAIN requests = 1..Len(requests) /\ Len(requests) \in Nat
         /\ DOMAIN requests \subseteq 1..MaxRequests
<1>1. DOMAIN requests = 1..Len(requests) /\ Len(requests) \in Nat
  BY LenProperties DEF Typed
<1> QED
  BY <1>1, BoundsAssumption DEF Typed

\* The head of the daemon's queue is a request that no thread has yet.
LEMMA TakeHead ==
  ASSUME Typed, Owned, queue # <<>>, queue' = Tail(queue)
  PROVE  /\ queue' \in Seq(1..MaxRequests) /\ Len(queue') <= QueueSize
         /\ Head(queue) \in DOMAIN requests /\ ~Answered(Head(queue))
         /\ \A u \in Threads : Busy(u) => thread[u].req # Head(queue)
         /\ \A k \in DOMAIN queue' : /\ k + 1 \in DOMAIN queue /\ queue'[k] = queue[k + 1]
                                     /\ queue'[k] # Head(queue)
<1>1. /\ queue' \in Seq(1..MaxRequests) /\ Len(queue') = Len(queue) - 1
      /\ \A k \in 1..Len(queue') : queue'[k] = queue[k + 1]
  BY HeadTailProperties DEF Typed
<1>2. /\ Len(queue) \in Nat /\ DOMAIN queue = 1..Len(queue)
      /\ Len(queue') \in Nat /\ DOMAIN queue' = 1..Len(queue')
  BY <1>1, LenProperties DEF Typed
<1>3. Len(queue) # 0
  BY <1>1, <1>2
<1>4. 1 \in DOMAIN queue /\ Head(queue) = queue[1]
  BY <1>2, <1>3 DEF Typed
<1>5. ASSUME NEW k \in DOMAIN queue'
      PROVE  k + 1 \in DOMAIN queue /\ queue'[k] = queue[k + 1] /\ k + 1 # 1
  BY <1>1, <1>2, <1>5
<1>6. Len(queue') <= QueueSize
  BY <1>1, <1>2, BoundsAssumption DEF Typed
<1> QED
  BY <1>1, <1>4, <1>5, <1>6 DEF Owned

\* A thread takes the request at the head: it answers it at once (w is Idle)
\* or is blocked in its first statement.
LEMMA Take ==
  ASSUME IInv, NEW t \in Threads, thread[t] = Idle, queue # <<>>,
         NEW r, r = Head(queue), queue' = Tail(queue),
         UNCHANGED <<session, tables, requests, errors>>,
         NEW w, thread' = [thread EXCEPT ![t] = w], NEW answer,
         \/ /\ w = Idle
            /\ reply' = [reply EXCEPT ![r] = answer]
            /\ answer.status \in {"200", "404"}
            /\ answer.status = "200" => Kept(r, answer.body)
         \/ /\ w # Idle /\ w.req = r /\ Works(w)
            /\ reply' = reply
  PROVE  IInv'
<1> USE DEF IInv
<1>1. /\ queue' \in Seq(1..MaxRequests) /\ Len(queue') <= QueueSize
      /\ r \in DOMAIN requests /\ ~Answered(r)
      /\ \A u \in Threads : Busy(u) => thread[u].req # r
      /\ \A k \in DOMAIN queue' : /\ k + 1 \in DOMAIN queue /\ queue'[k] = queue[k + 1]
                                  /\ queue'[k] # r
  BY TakeHead
<1>2. DOMAIN requests \subseteq 1..MaxRequests
  BY RequestNumbers
<1>3. /\ DOMAIN thread' = Threads
      /\ thread'[t] = w
      /\ \A u \in Threads \ {t} : thread'[u] = thread[u]
  BY DEF Typed
<1>4. /\ DOMAIN reply' = 1..MaxRequests
      /\ \A p \in 1..MaxRequests : p # r => reply'[p] = reply[p]
      /\ w = Idle => reply'[r] = answer /\ answer.status \in {"200", "404"}
                     /\ (answer.status = "200" => Kept(r, answer.body))
      /\ w # Idle => reply' = reply /\ w.req = r /\ Works(w)
  BY <1>1, <1>2 DEF Typed
<1>5. Grows
  BY <1>1, <1>2, <1>4 DEF Grows, tables
<1>6. Typed'
  BY <1>1, <1>3, <1>4 DEF Typed, tables, Legal
<1>7. Written'
  BY DEF Written, Signed, Insert, tables
<1>8. /\ \A p \in 1..MaxRequests : p # r => (Answered(p)' <=> Answered(p))
      /\ Answered(r)' <=> (w = Idle)
  <2>1. \A p \in 1..MaxRequests : p # r => (Answered(p)' <=> Answered(p))
    BY <1>4 DEF Answered
  <2>2. CASE w = Idle
    BY <1>4, <2>1, <2>2 DEF Answered, NoReply
  <2>3. CASE w # Idle
    BY <1>1, <1>4, <2>1, <2>3 DEF Answered
  <2> QED
    BY <2>2, <2>3
<1>9. Owned'
  <2>1. \A p \in 1..MaxRequests : Answered(p)' => p \in DOMAIN requests'
    BY <1>1, <1>8 DEF Owned
  <2>2. ASSUME NEW k \in DOMAIN queue'
        PROVE  /\ queue'[k] \in DOMAIN requests'
               /\ ~Answered(queue[k])'
               /\ \A j \in DOMAIN queue' : queue'[j] = queue'[k] => j = k
               /\ \A u \in Threads : Busy(u)' => thread'[u].req # queue'[k]
    <3>1. /\ k + 1 \in DOMAIN queue /\ queue'[k] = queue[k + 1] /\ queue'[k] # r
          /\ queue'[k] \in DOMAIN requests /\ queue'[k] \in 1..MaxRequests
      BY <1>1, <1>2 DEF Owned
    <3>2. ~Answered(queue[k])'
      BY <1>8, <3>1 DEF Owned, Answered
    <3>3. ASSUME NEW j \in DOMAIN queue', queue'[j] = queue'[k]
          PROVE  j = k
      <4>1. j + 1 = k + 1
        BY <1>1, <3>1, <3>3 DEF Owned
      <4>2. j \in Int /\ k \in Int
        BY <1>1, <3>3, LenProperties
      <4> QED
        BY <4>1, <4>2
    <3>4. ASSUME NEW u \in Threads, Busy(u)'
          PROVE  thread'[u].req # queue'[k]
      <4>1. CASE u = t
        BY <1>3, <1>4, <3>1, <3>4, <4>1 DEF Busy
      <4>2. CASE u # t
        BY <1>3, <3>1, <3>4, <4>2 DEF Owned, Busy
      <4> QED
        BY <4>1, <4>2
    <3> QED
      BY <3>1, <3>2, <3>3, <3>4
  <2>3. ASSUME NEW u \in Threads, Busy(u)'
        PROVE  /\ thread'[u].req \in DOMAIN requests'
               /\ ~Answered(thread[u].req)'
               /\ \A v \in Threads : Busy(v)' /\ thread'[v].req = thread'[u].req => v = u
    <3>1. CASE u = t
      <4>1. thread'[u].req = r /\ w # Idle
        BY <1>3, <1>4, <2>3, <3>1 DEF Busy
      <4>2. ~Answered(thread[u].req)'
        BY <1>8, <4>1 DEF Answered
      <4>3. \A v \in Threads : Busy(v)' /\ thread'[v].req = thread'[u].req => v = u
        BY <1>1, <1>3, <3>1, <4>1 DEF Busy
      <4> QED
        BY <1>1, <4>1, <4>2, <4>3
    <3>2. CASE u # t
      <4>1. thread'[u] = thread[u] /\ Busy(u) /\ thread[u].req # r
        BY <1>1, <1>3, <2>3, <3>2 DEF Busy
      <4>2. thread[u].req \in DOMAIN requests /\ thread[u].req \in 1..MaxRequests
        BY <1>2, <4>1 DEF Owned
      <4>3. ~Answered(thread[u].req)'
        BY <1>8, <4>1, <4>2 DEF Owned, Answered
      <4>4. ASSUME NEW v \in Threads, Busy(v)', thread'[v].req = thread'[u].req
            PROVE  v = u
        <5>1. v # t
          BY <1>3, <1>4, <4>1, <4>4 DEF Busy
        <5> QED
          BY <1>3, <4>1, <4>4, <5>1 DEF Owned, Busy
      <4> QED
        BY <4>1, <4>2, <4>3, <4>4
    <3> QED
      BY <3>1, <3>2
  <2> QED
    BY <2>1, <2>2, <2>3 DEF Owned
<1>10. Told'
  BY <1>1, <1>2, <1>8 DEF Told
<1>11. ASSUME NEW u \in Threads, Busy(u)'
       PROVE  Works(thread[u])'
  <2>1. PICK v : v = thread'[u]
    OBVIOUS
  <2>2. Works(v) /\ v.req \in DOMAIN requests
    <3>1. CASE u = t
      BY <1>1, <1>3, <1>4, <1>11, <2>1, <3>1 DEF Busy
    <3>2. CASE u # t
      BY <1>3, <1>11, <2>1, <3>2 DEF Working, Owned, Busy
    <3> QED
      BY <3>1, <3>2
  <2>3. Works(v)'
    BY <1>5, <2>2, WorksStays
  <2> QED
    BY <2>1, <2>3
<1>12. ASSUME NEW p \in DOMAIN requests', Succeeded(p)'
       PROVE  Kept(p, reply[p].body)'
  <2>1. PICK body : body = reply'[p].body
    OBVIOUS
  <2>2. Kept(p, body)
    <3>1. p \in DOMAIN requests /\ p \in 1..MaxRequests
      BY <1>2, <1>12
    <3>2. CASE p = r /\ w = Idle
      BY <1>4, <1>12, <2>1, <3>2 DEF Succeeded
    <3>3. CASE ~(p = r /\ w = Idle)
      BY <1>4, <1>12, <2>1, <3>1, <3>3 DEF Promised, Succeeded
    <3> QED
      BY <3>2, <3>3
  <2>3. Kept(p, body)'
    BY <1>5, <1>12, <2>2, KeptStays
  <2> QED
    BY <2>1, <2>3
<1> QED
  BY <1>6, <1>7, <1>9, <1>10, <1>11, <1>12 DEF Promised, Working

----------------------------------------------------------------------------
(* The actions *)

\* connect() touches neither tables nor requests.
LEMMA OnLoadStep ==
  ASSUME IInv, NEW c \in Components, OnLoad(c)
  PROVE  IInv'
<1>1. UNCHANGED <<users, subscriptions, images, late, requests, queue, thread, reply, errors>>
  BY DEF OnLoad, tables
<1>2. session' \in [Components -> {"new", "connected", "failed"}]
  <2>1. PICK outcome \in {"connected", "failed"} : session' = [session EXCEPT ![c] = outcome]
    BY DEF OnLoad
  <2> QED
    BY <2>1 DEF IInv, Typed
<1>3. Typed'
  BY <1>1, <1>2 DEF IInv, Typed, Legal
<1>4. Written' /\ Owned' /\ Told'
  BY <1>1 DEF IInv, Written, Signed, Insert, Owned, Told, Answered, Busy
<1>5. Grows
  BY <1>1 DEF Grows
<1>6. ASSUME NEW u \in Threads, Busy(u)'
      PROVE  Works(thread[u])'
  <2>1. PICK v : v = thread[u]
    OBVIOUS
  <2>2. thread'[u] = v /\ Works(v) /\ v.req \in DOMAIN requests
    BY <1>1, <1>6, <2>1 DEF IInv, Working, Owned, Busy
  <2>3. Works(v)'
    BY <1>5, <2>2, WorksStays DEF IInv
  <2> QED
    BY <2>2, <2>3
<1>7. ASSUME NEW p \in DOMAIN requests', Succeeded(p)'
      PROVE  Kept(p, reply[p].body)'
  <2>1. PICK body : body = reply'[p].body
    OBVIOUS
  <2>2. Kept(p, body) /\ p \in DOMAIN requests
    BY <1>1, <1>7, <2>1 DEF IInv, Promised, Succeeded
  <2>3. Kept(p, body)'
    BY <1>5, <2>2, KeptStays DEF IInv
  <2> QED
    BY <2>1, <2>3
<1> QED
  BY <1>3, <1>4, <1>6, <1>7 DEF IInv, Working, Promised

\* A new request is told of the answers given so far.
LEMMA SubmitStep ==
  ASSUME IInv, Submit
  PROVE  IInv'
<1> USE DEF IInv
<1>1. PICK q \in Workload :
        requests' = Append(requests,
          [component |-> q.component, login |-> q.login, arg |-> q.arg,
           answered |-> {r \in 1..Len(requests) : Answered(r)}])
  BY DEF Submit
<1> DEFINE n == Len(requests) + 1
           told == {r \in 1..Len(requests) : Answered(r)}
           new == [component |-> q.component, login |-> q.login, arg |-> q.arg, answered |-> told]
<1>2. UNCHANGED <<session, users, subscriptions, images, late, thread, reply, errors>>
  BY DEF Submit, tables
<1>3. /\ DOMAIN requests = 1..Len(requests) /\ Len(requests) \in Nat
      /\ DOMAIN requests \subseteq 1..MaxRequests
  BY RequestNumbers
<1>4. Len(requests) < MaxRequests /\ MaxRequests \in Nat /\ n \in 1..MaxRequests
  BY <1>3, BoundsAssumption DEF Submit
<1>5. new \in AskedRequests /\ Legal(new)
  <2>1. q \in AnyRequest
    BY WorkloadAssumption
  <2>2. told \in SUBSET (1..MaxRequests)
    BY <1>3
  <2>3. q.component \in Components /\ q.login \in Logins \cup {NoArg} /\ q.arg \in Args
    BY <2>1 DEF AnyRequest, Components, Args
  <2>4. Legal(q)
    BY <2>1 DEF AnyRequest, Legal
  <2> QED
    BY <2>2, <2>3, <2>4 DEF AskedRequests, Legal
<1>6. requests' = Append(requests, new)
  BY <1>1
<1> HIDE DEF new
<1>7. /\ requests' \in Seq(AskedRequests) /\ Len(requests') = n
      /\ DOMAIN requests' = 1..n
      /\ \A r \in DOMAIN requests : requests'[r] = requests[r]
      /\ requests'[n] = new
  BY <1>3, <1>5, <1>6, AppendProperties, LenProperties DEF Typed
<1>8. \A r \in DOMAIN requests' : r = n \/ r \in DOMAIN requests
  BY <1>3, <1>7
<1>9. ~Answered(n)
  BY <1>3, <1>4 DEF Owned
<1>10. queue' = Append(queue, n) /\ Len(queue) < QueueSize
  BY DEF Submit
<1>11. /\ queue' \in Seq(1..MaxRequests) /\ Len(queue') = Len(queue) + 1
       /\ Len(queue) \in Nat /\ DOMAIN queue = 1..Len(queue)
       /\ DOMAIN queue' = 1..(Len(queue) + 1)
       /\ \A k \in DOMAIN queue : queue'[k] = queue[k]
       /\ queue'[Len(queue) + 1] = n
  BY <1>4, <1>10, AppendProperties, LenProperties DEF Typed
<1>12. \A k \in DOMAIN queue' : \/ k = Len(queue) + 1 /\ queue'[k] = n
                                \/ k \in DOMAIN queue /\ queue'[k] = queue[k]
  BY <1>11
<1> HIDE DEF n
<1>13. Grows
  BY <1>2, <1>3, <1>4, <1>7, <1>8 DEF Grows, n
<1>14. Typed'
  <2>1. \A r \in DOMAIN requests' : Legal(requests'[r])
    BY <1>5, <1>7, <1>8 DEF Typed
  <2>2. Len(queue') <= QueueSize
    BY <1>10, <1>11, BoundsAssumption
  <2>3. Len(requests') <= MaxRequests
    BY <1>4, <1>7
  <2>4. (\A r \in DOMAIN requests : Legal(requests[r]))'
    BY <2>1 DEF Legal
  <2> QED
    BY <1>2, <1>7, <1>11, <2>2, <2>3, <2>4 DEF Typed
<1>15. Written'
  <2>1. (\A k \in DOMAIN images : Signed(images[k]))'
    BY <1>2, <1>13 DEF Written, Signed, Grows
  <2>2. (\A stmt \in late : Insert(stmt))'
    BY <1>2, <1>13 DEF Written, Insert, Grows
  <2> QED
    BY <2>1, <2>2 DEF Written
<1>16. n \notin DOMAIN requests /\ n \in DOMAIN requests' /\ DOMAIN requests \subseteq DOMAIN requests'
  BY <1>3, <1>7 DEF n
<1>17. Owned'
  <2>1. \A r \in 1..MaxRequests : Answered(r)' => r \in DOMAIN requests'
    BY <1>2, <1>16 DEF Owned, Answered
  <2>2. ASSUME NEW k \in DOMAIN queue'
        PROVE  /\ queue'[k] \in DOMAIN requests'
               /\ ~Answered(queue[k])'
               /\ \A j \in DOMAIN queue' : queue'[j] = queue'[k] => j = k
               /\ \A u \in Threads : Busy(u)' => thread'[u].req # queue'[k]
    <3>1. CASE k = Len(queue) + 1 /\ queue'[k] = n
      BY <1>2, <1>9, <1>12, <1>16, <3>1 DEF Owned, Answered, Busy
    <3>2. CASE k \in DOMAIN queue /\ queue'[k] = queue[k]
      BY <1>2, <1>12, <1>16, <3>2 DEF Owned, Answered, Busy
    <3> QED
      BY <1>12, <3>1, <3>2
  <2>3. ASSUME NEW u \in Threads, Busy(u)'
        PROVE  /\ thread'[u].req \in DOMAIN requests'
               /\ ~Answered(thread[u].req)'
               /\ \A v \in Threads : Busy(v)' /\ thread'[v].req = thread'[u].req => v = u
    BY <1>2, <1>16, <2>3 DEF Owned, Answered, Busy
  <2> QED
    BY <2>1, <2>2, <2>3 DEF Owned
<1>18. Told'
  <2>1. ASSUME NEW r \in DOMAIN requests', NEW p \in requests'[r].answered
        PROVE  p \in DOMAIN requests' /\ Answered(p)'
    <3>1. CASE r = n
      BY <1>2, <1>3, <1>7, <1>16, <3>1 DEF new, Answered
    <3>2. CASE r \in DOMAIN requests
      BY <1>2, <1>7, <1>16, <3>2 DEF Told, Answered
    <3> QED
      BY <1>8, <3>1, <3>2
  <2> QED
    BY <2>1 DEF Told
<1>19. ASSUME NEW u \in Threads, Busy(u)'
       PROVE  Works(thread[u])'
  <2>1. PICK v : v = thread[u]
    OBVIOUS
  <2>2. thread'[u] = v /\ Works(v) /\ v.req \in DOMAIN requests
    BY <1>2, <1>19, <2>1 DEF Working, Owned, Busy
  <2>3. Works(v)'
    BY <1>13, <2>2, WorksStays
  <2> QED
    BY <2>2, <2>3
<1>20. ASSUME NEW p \in DOMAIN requests', Succeeded(p)'
       PROVE  Kept(p, reply[p].body)'
  <2>1. PICK body : body = reply'[p].body
    OBVIOUS
  <2>2. p # n /\ p \in DOMAIN requests
    BY <1>2, <1>8, <1>9, <1>20 DEF Succeeded, Answered, NoReply
  <2>3. Kept(p, body)
    BY <1>2, <1>20, <2>1, <2>2 DEF Promised, Succeeded
  <2>4. Kept(p, body)'
    BY <1>13, <2>2, <2>3, KeptStays
  <2> QED
    BY <2>1, <2>4
<1> QED
  BY <1>14, <1>15, <1>17, <1>18, <1>19, <1>20 DEF Working, Promised

\* A thread takes a request and starts a statement, or answers it at once.
LEMMA HandleRequestStep ==
  ASSUME IInv, NEW t \in Threads, HandleRequest(t)
  PROVE  IInv'
<1> DEFINE r == Head(queue)
           q == requests[r]
<1>1. /\ thread[t] = Idle /\ queue # <<>> /\ queue' = Tail(queue)
      /\ UNCHANGED <<session, tables, requests, errors>>
  BY DEF HandleRequest
<1>2. r \in DOMAIN requests /\ Legal(q) /\ q.component \in Components
  <2>1. r \in DOMAIN requests
    BY <1>1, TakeHead DEF IInv
  <2>2. requests[r] \in AskedRequests
    BY <2>1, LenProperties DEF IInv, Typed
  <2> QED
    BY <2>1, <2>2 DEF IInv, Typed, AskedRequests
<1>3. CASE MissingArgs(q)
  <2> DEFINE answer == IF q.component = "SubscribeTo" THEN Ok("") ELSE NotFound
  <2>1. Finish(t, r, answer)
    BY <1>3 DEF HandleRequest
  <2>2. answer.status \in {"200", "404"}
    BY DEF Ok, NotFound
  <2>3. answer.status = "200" => Kept(r, answer.body)
    BY <1>3 DEF Ok, NotFound, Kept
  <2> HIDE DEF answer
  <2>4. /\ reply' = [reply EXCEPT ![r] = answer]
        /\ thread' = [thread EXCEPT ![t] = Idle]
    BY <2>1 DEF Finish
  <2> QED
    BY <1>1, <2>2, <2>3, <2>4, Take
<1>4. ASSUME ~MissingArgs(q), NEW pc, pc # "idle", NEW stmt, ExecQuery(t, pc, r, stmt), reply' = reply,
             \A rc \in Rcs \ {"ok"} :
               Works([pc |-> pc, req |-> r, stmt |-> stmt, rows |-> {}, future |-> rc])
      PROVE  IInv'
  <2> DEFINE rc == IF session[q.component] = "connected" THEN "unset" ELSE "error"
             w == [pc |-> pc, req |-> r, stmt |-> stmt, rows |-> {}, future |-> rc]
  <2>1. rc \in Rcs \ {"ok"}
    BY DEF Rcs
  <2>2. thread' = [thread EXCEPT ![t] = w]
    BY <1>4 DEF ExecQuery
  <2> HIDE DEF rc
  <2>3. w # Idle /\ w.req = r /\ Works(w)
    <3>1. w.pc # Idle.pc
      BY <1>4 DEF Idle
    <3> QED
      BY <1>4, <2>1, <3>1
  <2> HIDE DEF w
  <2> QED
    BY <1>1, <1>4, <2>2, <2>3, Take
<1>5. CASE ~MissingArgs(q) /\ q.component = "ShowUsers"
  <2>1. ExecQuery(t, "getUsers", r, SelectUsers) /\ reply' = reply
    BY <1>5 DEF HandleRequest
  <2>2. \A rc \in Rcs \ {"ok"} :
          Works([pc |-> "getUsers", req |-> r, stmt |-> SelectUsers, rows |-> {}, future |-> rc])
    BY <1>5 DEF Works
  <2> QED
    BY <1>4, <1>5, <2>1, <2>2
<1>6. CASE ~MissingArgs(q) /\ q.component # "ShowUsers"
  <2>1. ExecQuery(t, "registerUser", r, InsertUser(q.login)) /\ reply' = reply
    BY <1>6 DEF HandleRequest
  <2>2. \A rc \in Rcs \ {"ok"} :
          Works([pc |-> "registerUser", req |-> r, stmt |-> InsertUser(q.login),
                 rows |-> {}, future |-> rc])
    BY <1>6 DEF Works
  <2> QED
    BY <1>4, <1>6, <2>1, <2>2
<1> QED
  BY <1>3, <1>5, <1>6

\* What is known of a thread whose wait at pc is over.
LEMMA AtReturn ==
  ASSUME IInv, NEW t \in Threads, NEW pc, pc # "idle", Returned(t, pc)
  PROVE  /\ Busy(t) /\ Works(thread[t]) /\ thread[t].pc = pc
         /\ thread[t].req \in DOMAIN requests
<1>1. Busy(t)
  BY DEF Returned, Busy, Idle
<1> QED
  BY <1>1 DEF IInv, Working, Owned, Returned

\* After the user's row the row of the own subscription is inserted.
LEMMA RegisterUserReturnsStep ==
  ASSUME IInv, NEW t \in Threads, RegisterUserReturns(t)
  PROVE  IInv'
<1> DEFINE r == thread[t].req
           stmt == InsertSubscription(requests[r].login, requests[r].login)
<1>1. Busy(t) /\ Works(thread[t]) /\ thread[t].pc = "registerUser"
  BY AtReturn DEF RegisterUserReturns
<1>2. /\ ExecQuery(t, "registerSelf", thread[t].req, stmt)
      /\ UNCHANGED <<session, tables, requests, queue, reply, errors>>
  BY DEF RegisterUserReturns
<1>3. \A rc \in Rcs \ {"ok"} :
        Works([pc |-> "registerSelf", req |-> thread[t].req, stmt |-> stmt,
               rows |-> {}, future |-> rc])
  BY <1>1 DEF Works
<1> HIDE DEF stmt
<1> QED
  BY <1>1, <1>2, <1>3, Continue

\* The result of RegisterSelf is ignored: the handler goes on in any case.
LEMMA RegisterSelfReturnsStep ==
  ASSUME IInv, NEW t \in Threads, RegisterSelfReturns(t)
  PROVE  IInv'
<1> DEFINE r == thread[t].req
           q == requests[r]
<1>1. Busy(t) /\ Works(thread[t]) /\ thread[t].pc = "registerSelf"
  BY AtReturn DEF RegisterSelfReturns
<1>2. UNCHANGED <<session, tables, requests, queue, reply, errors>>
  BY DEF RegisterSelfReturns
<1>3. CASE /\ q.component = "PostImage"
           /\ ExecQuery(t, "postImage", r, InsertImage(q.login, q.arg, r))
  <2>1. \A rc \in Rcs \ {"ok"} :
          Works([pc |-> "postImage", req |-> r, stmt |-> InsertImage(q.login, q.arg, r),
                 rows |-> {}, future |-> rc])
    BY <1>1, <1>3 DEF Works
  <2> QED
    BY <1>1, <1>2, <1>3, <2>1, Continue
<1>4. CASE /\ q.component = "SubscribeTo"
           /\ ExecQuery(t, "subscribe", r, InsertSubscription(q.login, q.arg))
  <2>1. \A rc \in Rcs \ {"ok"} :
          Works([pc |-> "subscribe", req |-> r, stmt |-> InsertSubscription(q.login, q.arg),
                 rows |-> {}, future |-> rc])
    BY <1>1, <1>4 DEF Works
  <2> QED
    BY <1>1, <1>2, <1>4, <2>1, Continue
<1>5. CASE /\ q.component = "GetFeed"
           /\ ExecQuery(t, "getSubscriptions", r, SelectSubscriptions(q.login))
  <2>1. \A rc \in Rcs \ {"ok"} :
          Works([pc |-> "getSubscriptions", req |-> r, stmt |-> SelectSubscriptions(q.login),
                 rows |-> {}, future |-> rc])
    BY <1>1, <1>5 DEF Works
  <2> QED
    BY <1>1, <1>2, <1>5, <2>1, Continue
<1> QED
  BY <1>3, <1>4, <1>5 DEF RegisterSelfReturns

\* POST! and SUBSCRIBED! are answered for a row that is stored.
LEMMA WriteReturnsStep ==
  ASSUME IInv, NEW t \in Threads, WriteReturns(t)
  PROVE  IInv'
<1> DEFINE r == thread[t].req
           answer == IF Rc(t) = "ok"
                     THEN Ok(IF thread[t].pc = "postImage" THEN "POST!" ELSE "SUBSCRIBED!")
                     ELSE NotFound
<1>1. /\ Busy(t) /\ Works(thread[t])
      /\ thread[t].pc = "postImage" \/ thread[t].pc = "subscribe"
  BY AtReturn DEF WriteReturns
<1>2. /\ Finish(t, r, answer)
      /\ UNCHANGED <<session, tables, requests, queue, errors>>
  BY DEF WriteReturns
<1>3. answer.status \in {"200", "404"}
  BY DEF Ok, NotFound
<1>4. ASSUME answer.status = "200"
      PROVE  Kept(r, answer.body)
  <2>1. thread[t].future = "ok"
    BY <1>4 DEF NotFound, Rc
  <2>2. ~MissingArgs(requests[r])
    BY <1>1 DEF Works
  <2>3. CASE thread[t].pc = "postImage"
    <3>1. requests[r].component = "PostImage" /\ Stored(r)
      BY <1>1, <2>1, <2>3 DEF Works
    <3> QED
      BY <2>2, <3>1 DEF Kept
  <2>4. CASE thread[t].pc = "subscribe"
    <3>1. requests[r].component = "SubscribeTo" /\ Subscribed(r)
      BY <1>1, <2>1, <2>4 DEF Works
    <3> QED
      BY <2>2, <3>1 DEF Kept
  <2> QED
    BY <1>1, <2>3, <2>4
<1> HIDE DEF answer
<1> QED
  BY <1>1, <1>2, <1>3, <1>4, Answer

\* The list read goes into the second statement of the feed.
LEMMA GetSubscriptionsReturnsStep ==
  ASSUME IInv, NEW t \in Threads, GetSubscriptionsReturns(t)
  PROVE  IInv'
<1> DEFINE r == thread[t].req
           S == thread[t].rows
           n == ParseTop(requests[r].arg)
<1>1. Busy(t) /\ Works(thread[t]) /\ thread[t].pc = "getSubscriptions"
  BY AtReturn DEF GetSubscriptionsReturns
<1>2. UNCHANGED <<session, tables, requests, queue, errors>>
  BY DEF GetSubscriptionsReturns
<1>3. CASE /\ Rc(t) = "ok"
           /\ ExecQuery(t, "getImages", r, SelectImages(S, n))
           /\ UNCHANGED reply
  <2>1. /\ requests[r].component = "GetFeed" /\ ~MissingArgs(requests[r])
        /\ Covers(S, r)
    BY <1>1, <1>3 DEF Works, Rc
  <2>2. SelectImages(S, n).logins = S
    BY DEF SelectImages
  <2>3. \A rc \in Rcs \ {"ok"} :
          Works([pc |-> "getImages", req |-> r, stmt |-> SelectImages(S, n),
                 rows |-> {}, future |-> rc])
    BY <2>1, <2>2 DEF Works
  <2> HIDE DEF n, S
  <2> QED
    BY <1>1, <1>2, <1>3, <2>3, Continue
<1>4. CASE Rc(t) # "ok" /\ Finish(t, r, NotFound)
  <2>1. NotFound.status = "404"
    BY DEF NotFound
  <2> QED
    BY <1>1, <1>2, <1>4, <2>1, Answer
<1> QED
  BY <1>3, <1>4 DEF GetSubscriptionsReturns

\* The rows of the second statement are the feed.
LEMMA ReadReturnsStep ==
  ASSUME IInv, NEW t \in Threads, ReadReturns(t)
  PROVE  IInv'
<1> DEFINE r == thread[t].req
           answer == IF Rc(t) = "ok" THEN Ok(thread[t].rows) ELSE NotFound
<1>1. /\ Busy(t) /\ Works(thread[t])
      /\ thread[t].pc = "getImages" \/ thread[t].pc = "getUsers"
  BY AtReturn DEF ReadReturns
<1>2. /\ Finish(t, r, answer)
      /\ UNCHANGED <<session, tables, requests, queue, errors>>
  BY DEF ReadReturns
<1>3. answer.status \in {"200", "404"}
  BY DEF Ok, NotFound
<1>4. ASSUME answer.status = "200"
      PROVE  Kept(r, answer.body)
  <2>1. thread[t].future = "ok" /\ answer.body = thread[t].rows
    BY <1>4 DEF NotFound, Rc, Ok
  <2>2. ~MissingArgs(requests[r])
    BY <1>1 DEF Works
  <2>3. CASE thread[t].pc = "getImages"
    <3>1. requests[r].component = "GetFeed" /\ IsFeed(thread[t].rows, r)
      BY <1>1, <2>1, <2>3 DEF Works
    <3> QED
      BY <2>1, <2>2, <3>1 DEF Kept
  <2>4. CASE thread[t].pc = "getUsers"
    <3>1. requests[r].component = "ShowUsers"
      BY <1>1, <2>4 DEF Works
    <3> QED
      BY <2>2, <3>1 DEF Kept
  <2> QED
    BY <1>1, <2>3, <2>4
<1> HIDE DEF answer
<1> QED
  BY <1>1, <1>2, <1>3, <1>4, Answer

\* The statement of a busy thread: one of the three inserts, or a select.
LEMMA BusyStatement ==
  ASSUME IInv, NEW t \in Threads, Busy(t)
  PROVE  /\ Works(thread[t]) /\ thread[t].req \in DOMAIN requests
         /\ \/ thread[t].stmt.op = "insert" /\ Insert(thread[t].stmt)
            \/ thread[t].stmt.op = "select" /\ thread[t].stmt \in Statements
<1> DEFINE r == thread[t].req
           q == requests[r]
           stmt == thread[t].stmt
<1>1. Works(thread[t]) /\ r \in DOMAIN requests
  BY DEF IInv, Working, Owned
<1>2. q \in AskedRequests /\ Legal(q)
  BY <1>1, LenProperties DEF IInv, Typed
<1>3. ~MissingArgs(q) /\ q.component \in Components
  BY <1>1, <1>2 DEF Works, AskedRequests
<1>4. CASE thread[t].pc = "registerUser"
  <2>1. q.login \in Logins /\ stmt = InsertUser(q.login)
    BY <1>1, <1>2, <1>3, <1>4 DEF Works, MissingArgs, AskedRequests, Components
  <2> QED
    BY <1>1, <2>1 DEF InsertUser, Insert
<1>5. CASE thread[t].pc = "registerSelf"
  <2>1. q.login \in Logins /\ stmt = InsertSubscription(q.login, q.login)
    BY <1>1, <1>2, <1>3, <1>5 DEF Works, MissingArgs, AskedRequests, Components
  <2> QED
    BY <1>1, <2>1 DEF InsertSubscription, Insert
<1>6. CASE thread[t].pc = "postImage"
  <2>1. /\ q.login \in Logins /\ q.arg \in Images
        /\ stmt = InsertImage(q.login, q.arg, r)
    BY <1>1, <1>2, <1>3, <1>6 DEF Works, MissingArgs, AskedRequests, Components, Legal
  <2> QED
    BY <1>1, <2>1 DEF InsertImage, Insert
<1>7. CASE thread[t].pc = "subscribe"
  <2>1. /\ q.login \in Logins /\ q.arg \in Logins
        /\ stmt = InsertSubscription(q.login, q.arg)
    BY <1>1, <1>2, <1>3, <1>7 DEF Works, MissingArgs, AskedRequests, Components, Legal
  <2> QED
    BY <1>1, <2>1 DEF InsertSubscription, Insert
<1>8. CASE thread[t].pc = "getUsers"
  BY <1>1, <1>8 DEF Works, SelectUsers, Statements
<1>9. CASE thread[t].pc = "getSubscriptions"
  <2>1. q.login \in Logins /\ stmt = SelectSubscriptions(q.login)
    BY <1>1, <1>2, <1>3, <1>9 DEF Works, MissingArgs, AskedRequests
  <2>2. stmt = [op |-> "select", table |-> "subscriptions", login |-> q.login]
    BY <2>1 DEF SelectSubscriptions
  <2> QED
    BY <1>1, <2>1, <2>2 DEF Statements
<1>10. CASE thread[t].pc = "getImages"
  <2> DEFINE n == ParseTop(q.arg)
             S == stmt.logins
  <2>1. stmt = SelectImages(S, n) /\ S \subseteq Logins /\ q.component = "GetFeed"
    BY <1>1, <1>10 DEF Works, Covers
  <2>2. n \in Nat
    BY <1>2, <2>1, BoundsAssumption DEF Legal, ParseTop
  <2>3. stmt = [op |-> "select", table |-> "images", logins |-> S, limit |-> n]
    BY <2>1 DEF SelectImages
  <2>4. PICK k, L : k = n /\ L = S
    OBVIOUS
  <2>5. /\ stmt = [op |-> "select", table |-> "images", logins |-> L, limit |-> k]
        /\ L \in SUBSET Logins /\ k \in Nat
    BY <2>1, <2>2, <2>3, <2>4
  <2>6. stmt.op = "select" /\ stmt \in Statements
    BY <2>5 DEF Statements
  <2> QED
    BY <1>1, <2>6
<1> QED
  BY <1>1, <1>4, <1>5, <1>6, <1>7, <1>8, <1>9, <1>10 DEF Works

\* The same of a thread whose future is not set.
LEMMA BusyInsert ==
  ASSUME IInv, NEW t \in Threads, Blocked(t)
  PROVE  /\ Busy(t) /\ Works(thread[t]) /\ thread[t].req \in DOMAIN requests
         /\ thread[t].stmt.op = "insert" => Insert(thread[t].stmt)
         /\ thread[t].stmt.op \in {"insert", "select"}
<1>1. Busy(t)
  BY DEF Blocked
<1> QED
  BY <1>1, BusyStatement

\* Once an insert is in the tables its thread may be told so.
LEMMA WrittenWorks ==
  ASSUME IInv, NEW t \in Threads, Blocked(t), thread[t].stmt.op = "insert",
         Grows, requests' = requests,
         thread[t].stmt.table = "subscriptions" => thread[t].stmt.row \in subscriptions',
         thread[t].stmt.table = "images" =>
           \E k \in DOMAIN images' : images'[k] = thread[t].stmt.row,
         NEW w, w = [pc |-> thread[t].pc, req |-> thread[t].req, stmt |-> thread[t].stmt,
                     rows |-> {}, future |-> "ok"]
  PROVE  Works(w)'
<1> DEFINE r == thread[t].req
           q == requests[r]
<1>1. PICK v : v = thread[t]
  OBVIOUS
<1>2. /\ Works(v) /\ v.req \in DOMAIN requests /\ v.stmt.op = "insert"
      /\ w = [pc |-> v.pc, req |-> v.req, stmt |-> v.stmt, rows |-> {}, future |-> "ok"]
      /\ v.stmt.table = "subscriptions" => v.stmt.row \in subscriptions'
      /\ v.stmt.table = "images" => \E k \in DOMAIN images' : images'[k] = v.stmt.row
  BY <1>1, BusyInsert
<1>3. requests'[v.req] = requests[v.req] /\ ~MissingArgs(requests[v.req])'
  BY <1>2 DEF Works, MissingArgs
<1>4. CASE v.pc = "registerUser" \/ v.pc = "registerSelf"
  BY <1>2, <1>3, <1>4 DEF Works, Rcs, InsertUser, InsertSubscription
<1>5. CASE v.pc = "postImage"
  <2>1. /\ requests[v.req].component = "PostImage"
        /\ v.stmt = InsertImage(requests[v.req].login, requests[v.req].arg, v.req)
    BY <1>2, <1>5 DEF Works
  <2>2. v.stmt.table = "images" /\ v.stmt.row.by = v.req
    BY <2>1 DEF InsertImage
  <2>3. Stored(v.req)'
    BY <1>2, <2>2 DEF Stored
  <2> QED
    BY <1>2, <1>3, <1>5, <2>1, <2>3 DEF Works, Rcs, InsertImage
<1>6. CASE v.pc = "subscribe"
  <2>1. /\ requests[v.req].component = "SubscribeTo"
        /\ v.stmt = InsertSubscription(requests[v.req].login, requests[v.req].arg)
    BY <1>2, <1>6 DEF Works
  <2>2. /\ v.stmt.table = "subscriptions"
        /\ v.stmt.row = <<requests[v.req].login, requests[v.req].arg>>
    BY <2>1 DEF InsertSubscription
  <2>3. Subscribed(v.req)'
    BY <1>2, <1>3, <2>2 DEF Subscribed
  <2> QED
    BY <1>2, <1>3, <1>6, <2>1, <2>3 DEF Works, Rcs, InsertSubscription
<1>7. CASE v.pc = "getUsers" \/ v.pc = "getSubscriptions"
  BY <1>2, <1>7 DEF Works, SelectUsers, SelectSubscriptions
<1>8. CASE v.pc = "getImages"
  <2>1. v.stmt = SelectImages(v.stmt.logins, ParseTop(requests[v.req].arg))
    BY <1>2, <1>8 DEF Works
  <2> QED
    BY <1>2, <2>1 DEF SelectImages
<1> QED
  BY <1>2, <1>4, <1>5, <1>6, <1>7, <1>8 DEF Works

\* The list a reader follows, read after it was told of a subscription, has it.
LEMMA SubscriptionsCover ==
  ASSUME IInv, NEW r \in DOMAIN requests, requests[r].login # NoArg
  PROVE  Covers({m \in Logins : <<requests[r].login, m>> \in subscriptions}, r)
<1> DEFINE S == {m \in Logins : <<requests[r].login, m>> \in subscriptions}
<1>1. ASSUME NEW s \in DOMAIN requests, Followed(r, s), requests[s].arg # NoArg
      PROVE  requests[s].arg \in S
  <2>1. /\ requests[s].component = "SubscribeTo" /\ Succeeded(s)
        /\ requests[s].login = requests[r].login
    BY <1>1 DEF Followed, Of
  <2>2. ~MissingArgs(requests[s])
    BY <1>1, <2>1 DEF MissingArgs
  <2>3. Subscribed(s)
    BY <2>1, <2>2 DEF IInv, Promised, Kept
  <2>4. <<requests[r].login, requests[s].arg>> \in subscriptions
    BY <2>1, <2>3 DEF Subscribed
  <2>5. requests[s].arg \in Logins
    BY <1>1, <2>1 DEF IInv, Typed, Legal
  <2> QED
    BY <2>4, <2>5
<1> QED
  BY <1>1 DEF Covers

\* The newest images of the users a reader follows are a feed.
LEMMA NewestIsFeed ==
  ASSUME IInv, NEW r \in DOMAIN requests, NEW S, Covers(S, r),
         ParseTop(requests[r].arg) \in Nat
  PROVE  IsFeed(NewestFirst(S, ParseTop(requests[r].arg)), r)
<1> DEFINE n == ParseTop(requests[r].arg)
<1>1. PICK feed : feed = NewestFirst(S, n)
  OBVIOUS
<1>2. /\ Len(feed) \in Nat /\ Len(feed) <= n
      /\ DOMAIN feed = 1..Len(feed)
      /\ \A k \in DOMAIN feed :
           /\ feed[k].ts \in DOMAIN images
           /\ feed[k].login = images[feed[k].ts].login /\ feed[k].login \in S
           /\ feed[k].by = images[feed[k].ts].by
      /\ \A j, k \in DOMAIN feed : j < k => feed[j].ts > feed[k].ts
      /\ \A m \in DOMAIN images : images[m].login \in S =>
           \/ \E k \in DOMAIN feed : feed[k].ts = m
           \/ Len(feed) = n /\ \A k \in DOMAIN feed : m < feed[k].ts
  <2>1. n \in Nat /\ images \in Seq(ImageRows)
    BY DEF IInv, Typed
  <2> HIDE DEF n
  <2>2. NewestRows(feed, S, n)
    BY <1>1, <2>1, NewestFirstRows
  <2> QED
    BY <2>2 DEF NewestRows
<1>3. \A k \in DOMAIN feed : <<requests[r].login, feed[k].login>> \in subscriptions
  BY <1>2 DEF Covers
<1>4. ASSUME NEW p \in DOMAIN requests, NEW s \in DOMAIN requests,
             p \in requests[r].answered, Of(p, "PostImage"), Succeeded(p),
             Followed(r, s), requests[s].arg = requests[p].login
      PROVE  \/ \E k \in DOMAIN feed : feed[k].by = p
             \/ /\ Len(feed) = n
                /\ \A k \in DOMAIN feed : \E j \in DOMAIN images :
                     images[j].by = p /\ j < feed[k].ts
  <2>1. requests[p].component = "PostImage" /\ ~MissingArgs(requests[p]) /\ Stored(p)
    BY <1>4 DEF IInv, Promised, Kept, Of
  <2>2. requests[p].login # NoArg
    BY <2>1 DEF MissingArgs
  <2>3. PICK m \in DOMAIN images : images[m].by = p
    BY <2>1 DEF Stored
  <2>4. images[m].login = requests[p].login
    BY <2>3 DEF IInv, Written, Signed
  <2>5. images[m].login \in S
    BY <1>4, <2>2, <2>4 DEF Covers
  <2>6. CASE \E k \in DOMAIN feed : feed[k].ts = m
    BY <1>2, <2>3, <2>6
  <2>7. CASE Len(feed) = n /\ \A k \in DOMAIN feed : m < feed[k].ts
    BY <2>3, <2>7
  <2> QED
    BY <1>2, <2>5, <2>6, <2>7
<1>5. Len(feed) <= n /\ \A j, k \in DOMAIN feed : j < k => feed[j].ts > feed[k].ts
  BY <1>2
<1>6. IsFeed(feed, r)
  BY <1>3, <1>4, <1>5 DEF IsFeed
<1> QED
  BY <1>1, <1>6

\* The rows a select reads are what the next statement, or the answer, needs.
LEMMA ReadWorks ==
  ASSUME IInv, NEW t \in Threads, Blocked(t), thread[t].stmt.op = "select",
         NEW w, w = [pc |-> thread[t].pc, req |-> thread[t].req, stmt |-> thread[t].stmt,
                     rows |-> Rows(thread[t].stmt), future |-> "ok"]
  PROVE  Works(w)
<1> DEFINE q == requests[w.req]
<1>1. PICK v : v = thread[t]
  OBVIOUS
<1>2. /\ Works(v) /\ v.req \in DOMAIN requests /\ v.stmt.op = "select"
      /\ w = [pc |-> v.pc, req |-> v.req, stmt |-> v.stmt, rows |-> Rows(v.stmt), future |-> "ok"]
  BY <1>1, BusyInsert
<1>3. w.pc = v.pc /\ w.req = v.req /\ w.stmt = v.stmt /\ w.rows = Rows(v.stmt) /\ w.future = "ok"
  BY <1>2
<1>4. ~MissingArgs(q) /\ q \in AskedRequests /\ Legal(q)
  BY <1>2, <1>3, LenProperties DEF Works, IInv, Typed
<1>5. CASE v.pc = "getUsers"
  BY <1>2, <1>3, <1>5 DEF Works, Rcs
<1>6. CASE v.pc = "getSubscriptions"
  <2>1. q.component = "GetFeed" /\ v.stmt = SelectSubscriptions(q.login)
    BY <1>2, <1>3, <1>6 DEF Works
  <2>2. w.rows = {m \in Logins : <<q.login, m>> \in subscriptions}
    BY <1>3, <2>1 DEF Rows, SelectSubscriptions
  <2>3. q.login # NoArg
    BY <1>4, <2>1 DEF MissingArgs
  <2>4. Covers(w.rows, w.req)
    BY <1>2, <1>3, <2>2, <2>3, SubscriptionsCover
  <2> QED
    BY <1>2, <1>3, <1>4, <1>6, <2>1, <2>4 DEF Works, Rcs
<1>7. CASE v.pc = "getImages"
  <2>1. /\ q.component = "GetFeed" /\ Covers(v.stmt.logins, w.req)
        /\ v.stmt = SelectImages(v.stmt.logins, ParseTop(q.arg))
    BY <1>2, <1>3, <1>7 DEF Works
  <2>2. v.stmt.op = "select" /\ v.stmt.table = "images" /\ v.stmt.limit = ParseTop(q.arg)
    BY <2>1 DEF SelectImages
  <2>3. w.rows = NewestFirst(v.stmt.logins, ParseTop(q.arg))
    BY <1>3, <2>2 DEF Rows
  <2>4. ParseTop(q.arg) \in Nat
    BY <1>4, <2>1, BoundsAssumption DEF Legal, ParseTop
  <2>5. IsFeed(w.rows, w.req)
    BY <1>2, <1>3, <2>1, <2>3, <2>4, NewestIsFeed
  <2> QED
    BY <1>2, <1>3, <1>4, <1>7, <2>1, <2>5 DEF Works, Rcs
<1>8. CASE v.pc \in {"registerUser", "registerSelf", "postImage", "subscribe"}
  BY <1>2, <1>8 DEF Works, InsertUser, InsertSubscription, InsertImage
<1> QED
  BY <1>2, <1>5, <1>6, <1>7, <1>8 DEF Works

\* Set a future without touching the tables or the answers.
LEMMA SameTables ==
  ASSUME IInv, NEW t \in Threads, NEW rc, NEW rows, SetFuture(t, rc, rows),
         UNCHANGED <<session, users, subscriptions, images, requests, queue, reply>>,
         errors' \in 0..MaxErrors, \A stmt \in late' : Insert(stmt)
  PROVE  Grows /\ Typed' /\ Written'
<1>1. DOMAIN thread' = Threads
  BY DEF SetFuture, IInv, Typed
<1>2. Typed'
  BY <1>1 DEF IInv, Typed, Legal
<1>3. Written'
  BY DEF IInv, Written, Signed, Insert
<1> QED
  BY <1>2, <1>3 DEF Grows

\* The row of the thread's insert is put into its table.
LEMMA InsertSettles ==
  ASSUME IInv, NEW t \in Threads, Blocked(t), thread[t].stmt.op = "insert",
         Write(thread[t].stmt), SetFuture(t, "ok", {}),
         UNCHANGED <<session, requests, queue, reply>>,
         errors' \in 0..MaxErrors, \A stmt \in late' : Insert(stmt)
  PROVE  IInv'
<1>1. PICK stmt : stmt = thread[t].stmt
  OBVIOUS
<1>2. Insert(stmt) /\ Busy(t)
  BY <1>1, BusyInsert
<1>3. /\ users' \subseteq Logins
      /\ subscriptions' \subseteq Logins \X Logins
      /\ images' \in Seq(ImageRows)
      /\ (\A k \in DOMAIN images : Signed(images[k]))'
      /\ subscriptions \subseteq subscriptions'
      /\ DOMAIN images \subseteq DOMAIN images'
      /\ \A k \in DOMAIN images : images'[k] = images[k]
      /\ stmt.table = "subscriptions" => stmt.row \in subscriptions'
      /\ stmt.table = "images" => \E k \in DOMAIN images' : images'[k] = stmt.row
  BY <1>1, <1>2, WriteInserts DEF IInv
<1>4. Grows
  BY <1>3 DEF Grows
<1>5. DOMAIN thread' = Threads
  BY DEF SetFuture, IInv, Typed
<1>6. Typed'
  BY <1>3, <1>5 DEF IInv, Typed, Legal
<1>7. Written'
  <2>1. (\A s \in late : Insert(s))'
    BY DEF Insert
  <2> QED
    BY <1>3, <2>1 DEF Written
<1>8. PICK w : w = [pc |-> thread[t].pc, req |-> thread[t].req, stmt |-> thread[t].stmt,
                    rows |-> {}, future |-> "ok"]
  OBVIOUS
<1>9. Works(w)'
  BY <1>1, <1>3, <1>4, <1>8, WrittenWorks
<1>10. "ok" \in Rcs
  BY DEF Rcs
<1> QED
  BY <1>2, <1>4, <1>6, <1>7, <1>8, <1>9, <1>10, Settle

\* A statement that Cassandra executed has its effect before it returns.
LEMMA ExecuteStep ==
  ASSUME IInv, NEW t \in Threads, Execute(t)
  PROVE  IInv'
<1>1. /\ Blocked(t) /\ Valid(thread[t].stmt)
      /\ UNCHANGED <<session, late, requests, queue, reply, errors>>
      /\ SetFuture(t, "ok", Rows(thread[t].stmt))
  BY DEF Execute
<1>2. errors' \in 0..MaxErrors /\ \A stmt \in late' : Insert(stmt)
  BY <1>1 DEF IInv, Typed, Written
<1>3. CASE thread[t].stmt.op = "insert"
  <2>1. Write(thread[t].stmt) /\ Rows(thread[t].stmt) = {}
    BY <1>3 DEF Execute, Rows
  <2> QED
    BY <1>1, <1>2, <1>3, <2>1, InsertSettles
<1>4. CASE thread[t].stmt.op # "insert"
  <2>1. thread[t].stmt.op = "select" /\ Busy(t)
    BY <1>1, <1>4, BusyInsert
  <2>2. UNCHANGED <<users, subscriptions, images>>
    BY <1>4 DEF Execute
  <2>3. PICK rows : rows = Rows(thread[t].stmt)
    OBVIOUS
  <2>4. SetFuture(t, "ok", rows)
    BY <1>1, <2>3
  <2>5. Grows /\ Typed' /\ Written'
    BY <1>1, <1>2, <2>2, <2>4, SameTables
  <2>6. PICK w : w = [pc |-> thread[t].pc, req |-> thread[t].req, stmt |-> thread[t].stmt,
                      rows |-> rows, future |-> "ok"]
    OBVIOUS
  <2>7. Works(w) /\ w.req \in DOMAIN requests
    BY <1>1, <2>1, <2>3, <2>6, ReadWorks, BusyInsert
  <2>8. Works(w)'
    BY <2>5, <2>7, WorksStays DEF IInv
  <2>9. "ok" \in Rcs
    BY DEF Rcs
  <2> QED
    BY <1>1, <2>1, <2>4, <2>5, <2>6, <2>8, <2>9, Settle
<1> QED
  BY <1>3, <1>4

\* The second copy of a statement that was sent again is an insert as well.
LEMMA ExecuteResentStep ==
  ASSUME IInv, NEW t \in Threads, ExecuteResent(t)
  PROVE  IInv'
<1>1. /\ Blocked(t) /\ thread[t].stmt.op = "insert"
      /\ errors < MaxErrors /\ errors' = errors + 1
      /\ Write(thread[t].stmt) /\ late' = late \cup {thread[t].stmt}
      /\ SetFuture(t, "ok", {})
      /\ UNCHANGED <<session, requests, queue, reply>>
  BY DEF ExecuteResent
<1>2. errors' \in 0..MaxErrors
  BY <1>1, BoundsAssumption DEF IInv, Typed
<1>3. \A stmt \in late' : Insert(stmt)
  BY <1>1, BusyInsert DEF IInv, Written
<1> QED
  BY <1>1, <1>2, <1>3, InsertSettles

\* A future set to an error promises nothing.
LEMMA FailedSettles ==
  ASSUME IInv, NEW t \in Threads, Blocked(t), SetFuture(t, "error", {}),
         UNCHANGED <<session, users, subscriptions, images, requests, queue, reply>>,
         errors' \in 0..MaxErrors, \A stmt \in late' : Insert(stmt)
  PROVE  IInv'
<1>1. Busy(t) /\ Works(thread[t]) /\ thread[t].req \in DOMAIN requests
  BY BusyInsert
<1>2. Grows /\ Typed' /\ Written'
  BY SameTables
<1>3. PICK w : w = [pc |-> thread[t].pc, req |-> thread[t].req, stmt |-> thread[t].stmt,
                    rows |-> {}, future |-> "error"]
  OBVIOUS
<1>4. Works(w) /\ w.req \in DOMAIN requests
  BY <1>1, <1>3 DEF Works, Rcs
<1>5. Works(w)'
  BY <1>2, <1>4, WorksStays DEF IInv
<1>6. "error" \in Rcs
  BY DEF Rcs
<1> QED
  BY <1>1, <1>2, <1>3, <1>5, <1>6, Settle

\* A statement with a server error promises nothing.
LEMMA RefuseStep ==
  ASSUME IInv, NEW t \in Threads, Refuse(t)
  PROVE  IInv'
<1>1. /\ Blocked(t) /\ SetFuture(t, "error", {})
      /\ UNCHANGED <<session, tables, requests, queue, reply, errors>>
  BY DEF Refuse
<1>2. errors' \in 0..MaxErrors /\ \A stmt \in late' : Insert(stmt)
  BY <1>1 DEF IInv, Typed, Written, tables
<1> QED
  BY <1>1, <1>2, FailedSettles DEF tables

\* A statement that times out promises nothing, whether it is applied or not.
LEMMA GiveUpStep ==
  ASSUME IInv, NEW t \in Threads, GiveUp(t)
  PROVE  IInv'
<1>1. /\ Blocked(t) /\ SetFuture(t, "error", {})
      /\ errors < MaxErrors /\ errors' = errors + 1
      /\ UNCHANGED <<session, users, subscriptions, images, requests, queue, reply>>
      /\ \/ late' = late
         \/ thread[t].stmt.op = "insert" /\ late' = late \cup {thread[t].stmt}
  BY DEF GiveUp
<1>2. errors' \in 0..MaxErrors
  BY <1>1, BoundsAssumption DEF IInv, Typed
<1>3. \A stmt \in late' : Insert(stmt)
  BY <1>1, BusyInsert DEF IInv, Written
<1> QED
  BY <1>1, <1>2, <1>3, FailedSettles

\* A write applied after the client gave up adds a row that is signed.
LEMMA ApplyLateStep ==
  ASSUME IInv, ApplyLate
  PROVE  IInv'
<1> USE DEF IInv
<1>1. PICK stmt \in late :
        /\ Write(stmt)
        /\ late' = late \ {stmt}
        /\ UNCHANGED <<session, requests, queue, thread, reply, errors>>
  BY DEF ApplyLate
<1>2. Insert(stmt)
  BY DEF Written
<1>3. /\ users' \subseteq Logins
      /\ subscriptions' \subseteq Logins \X Logins
      /\ images' \in Seq(ImageRows)
      /\ (\A k \in DOMAIN images : Signed(images[k]))'
      /\ subscriptions \subseteq subscriptions'
      /\ DOMAIN images \subseteq DOMAIN images'
      /\ \A k \in DOMAIN images : images'[k] = images[k]
  BY <1>1, <1>2, WriteInserts
<1>4. Grows
  BY <1>1, <1>3 DEF Grows
<1>5. Typed'
  BY <1>1, <1>3 DEF Typed, Legal
<1>6. Written'
  <2>1. (\A s \in late : Insert(s))'
    BY <1>1 DEF Insert, Written
  <2> QED
    BY <1>3, <2>1 DEF Written
<1>7. Owned' /\ Told'
  BY <1>1 DEF Owned, Told, Answered, Busy
<1>8. ASSUME NEW u \in Threads, Busy(u)'
      PROVE  Works(thread[u])'
  <2>1. PICK v : v = thread[u]
    OBVIOUS
  <2>2. thread'[u] = v /\ Works(v) /\ v.req \in DOMAIN requests
    BY <1>1, <1>8, <2>1 DEF Working, Owned, Busy
  <2>3. Works(v)'
    BY <1>4, <2>2, WorksStays
  <2> QED
    BY <2>2, <2>3
<1>9. ASSUME NEW p \in DOMAIN requests', Succeeded(p)'
      PROVE  Kept(p, reply[p].body)'
  <2>1. PICK body : body = reply'[p].body
    OBVIOUS
  <2>2. Kept(p, body) /\ p \in DOMAIN requests
    BY <1>1, <1>9, <2>1 DEF Promised, Succeeded
  <2>3. Kept(p, body)'
    BY <1>4, <2>2, KeptStays
  <2> QED
    BY <2>1, <2>3
<1> QED
  BY <1>5, <1>6, <1>7, <1>8, <1>9 DEF Working, Promised

\* Nothing changes in a stuttering step.
LEMMA StutterStep ==
  ASSUME IInv, UNCHANGED vars
  PROVE  IInv'
<1>1. /\ UNCHANGED <<session, users, subscriptions, images, late>>
      /\ UNCHANGED <<requests, queue, thread, reply, errors>>
  BY DEF vars, tables
<1>2. Typed' /\ Written' /\ Owned' /\ Told'
  <2>1. Typed' /\ Written'
    BY <1>1 DEF IInv, Typed, Legal, Written, Signed, Insert
  <2>2. Owned' /\ Told'
    BY <1>1 DEF IInv, Owned, Told, Answered, Busy
  <2> QED
    BY <2>1, <2>2
<1>3. Grows
  BY <1>1 DEF Grows
<1>4. ASSUME NEW u \in Threads, Busy(u)'
      PROVE  Works(thread[u])'
  <2>1. PICK v : v = thread[u]
    OBVIOUS
  <2>2. thread'[u] = v /\ Works(v) /\ v.req \in DOMAIN requests
    BY <1>1, <1>4, <2>1 DEF IInv, Working, Owned, Busy
  <2>3. Works(v)'
    BY <1>3, <2>2, WorksStays DEF IInv
  <2> QED
    BY <2>2, <2>3
<1>5. ASSUME NEW p \in DOMAIN requests', Succeeded(p)'
      PROVE  Kept(p, reply[p].body)'
  <2>1. PICK body : body = reply'[p].body
    OBVIOUS
  <2>2. Kept(p, body) /\ p \in DOMAIN requests
    BY <1>1, <1>5, <2>1 DEF IInv, Promised, Succeeded
  <2>3. Kept(p, body)'
    BY <1>3, <2>2, KeptStays DEF IInv
  <2> QED
    BY <2>1, <2>3
<1> QED
  BY <1>2, <1>4, <1>5 DEF IInv, Working, Promised

\* The invariant holds in every behaviour: one step for each action.
LEMMA IInvHolds == Spec => []IInv
<1>1. Init => IInv
  BY InitIInv
<1>2. ASSUME IInv, [Next]_vars
      PROVE  IInv'
  <2>1. ASSUME NEW c \in Components, OnLoad(c)
        PROVE  IInv'
    BY <1>2, <2>1, OnLoadStep
  <2>2. CASE Submit
    BY <1>2, <2>2, SubmitStep
  <2>3. ASSUME NEW t \in Threads, Serve(t)
        PROVE  IInv'
    BY <1>2, <2>3, HandleRequestStep, RegisterUserReturnsStep, RegisterSelfReturnsStep,
       WriteReturnsStep, GetSubscriptionsReturnsStep, ReadReturnsStep DEF Serve
  <2>4. ASSUME NEW t \in Threads, Driver(t)
        PROVE  IInv'
    BY <1>2, <2>4, ExecuteStep, ExecuteResentStep, RefuseStep, GiveUpStep DEF Driver
  <2>5. CASE ApplyLate
    BY <1>2, <2>5, ApplyLateStep
  <2>6. CASE Done \/ UNCHANGED vars
    BY <1>2, <2>6, StutterStep DEF Done
  <2> QED
    BY <1>2, <2>1, <2>2, <2>3, <2>4, <2>5, <2>6 DEF Next
<1> QED
  BY <1>1, <1>2, PTL DEF Spec

----------------------------------------------------------------------------
(* The properties *)

\* "POST!" is only answered for an image that is in the table: whatever
\* happens to the two inserts before it (whose return codes are dropped), to
\* the futures and to the copies of a statement.
THEOREM AcknowledgedPosts == Spec => []AcknowledgedPostStored
<1>1. IInv => AcknowledgedPostStored
  BY DEF IInv, Promised, Kept, AcknowledgedPostStored, Of, Stored
<1> QED
  BY <1>1, IInvHolds, PTL

\* The invariant implies the types.
LEMMA IInvTypes ==
  ASSUME IInv
  PROVE  TypeOK
<1> USE DEF IInv
<1>1. \A k \in DOMAIN images : images[k] \in [login : Logins, img : Images, by : DOMAIN requests]
  <2>1. ASSUME NEW k \in DOMAIN images
        PROVE  images[k] \in [login : Logins, img : Images, by : DOMAIN requests]
    <3>1. images[k] \in ImageRows
      BY LenProperties DEF Typed
    <3>2. images[k].by \in DOMAIN requests
      BY DEF Written, Signed
    <3> QED
      BY <3>1, <3>2 DEF ImageRows
  <2> QED
    BY <2>1
<1>2. ASSUME NEW stmt, Insert(stmt)
      PROVE  stmt \in Statements /\ stmt.op = "insert"
  <2>1. CASE \E l \in Logins : stmt = InsertUser(l)
    BY <2>1 DEF InsertUser, Statements
  <2>2. CASE \E l, m \in Logins : stmt = InsertSubscription(l, m)
    BY <2>2 DEF InsertSubscription, Statements
  <2>3. CASE \E r \in DOMAIN requests : \E l \in Logins, i \in Images :
               stmt = InsertImage(l, i, r)
    <3>1. PICK r \in DOMAIN requests, l \in Logins, i \in Images : stmt = InsertImage(l, i, r)
      BY <2>3
    <3>2. r \in 1..MaxRequests
      BY RequestNumbers
    <3>3. stmt = [op |-> "insert", table |-> "images", row |-> [login |-> l, img |-> i, by |-> r]]
      BY <3>1 DEF InsertImage
    <3> QED
      BY <3>2, <3>3 DEF Statements
  <2> QED
    BY <1>2, <2>1, <2>2, <2>3 DEF Insert
<1>3. ASSUME NEW t \in Threads, Busy(t)
      PROVE  /\ thread[t].req \in DOMAIN requests
             /\ thread[t].future \in {"unset", "ok", "error"}
             /\ thread[t].stmt \in Statements
  <2>1. thread[t].req \in DOMAIN requests /\ Works(thread[t])
    BY <1>3 DEF Owned, Working
  <2>2. thread[t].future \in {"unset", "ok", "error"}
    BY <2>1 DEF Works, Rcs
  <2>3. thread[t].stmt \in Statements
    BY <1>2, <1>3, BusyStatement
  <2> QED
    BY <2>1, <2>2, <2>3
<1> QED
  BY <1>1, <1>2, <1>3 DEF Typed, Written, Owned, TypeOK

\* The invariant implies that replies to /feed are sound and complete.
LEMMA IInvFeeds ==
  ASSUME IInv
  PROVE  FeedSound /\ FeedComplete
<1>1. ASSUME NEW r \in DOMAIN requests, Of(r, "GetFeed"), Succeeded(r)
      PROVE  IsFeed(reply[r].body, r) /\ ~MissingArgs(requests[r])
  BY <1>1 DEF IInv, Promised, Kept, Of
<1>2. FeedSound
  BY <1>1 DEF FeedSound, IsFeed
<1>3. ASSUME NEW r \in DOMAIN requests, NEW p \in DOMAIN requests, NEW s \in DOMAIN requests,
             Of(r, "GetFeed"), Succeeded(r), {p, s} \subseteq requests[r].answered,
             Of(p, "PostImage"), Succeeded(p), Of(s, "SubscribeTo"), Succeeded(s),
             requests[s].arg = requests[p].login, requests[s].login = requests[r].login
      PROVE  \/ \E k \in DOMAIN reply[r].body : reply[r].body[k].by = p
             \/ /\ Len(reply[r].body) = ParseTop(requests[r].arg)
                /\ \A k \in DOMAIN reply[r].body : \E j \in DOMAIN images :
                     images[j].by = p /\ j < reply[r].body[k].ts
  <2>1. Followed(r, s) /\ p \in requests[r].answered
    BY <1>3 DEF Followed
  <2>2. IsFeed(reply[r].body, r)
    BY <1>1, <1>3
  <2> QED
    BY <1>3, <2>1, <2>2 DEF IsFeed
<1>4. FeedComplete
  BY <1>3 DEF FeedComplete
<1> QED
  BY <1>2, <1>4

\* GetFeed: with the subscriptions and the images read by two statements, and
\* posts, subscriptions and late writes between them, a feed shows only what
\* its reader follows, newest first, and what the reader had been told before.
THEOREM FeedsExact == Spec => []FeedExact
<1>1. IInv => FeedExact
  BY IInvTypes, IInvFeeds DEF FeedExact
<1> QED
  BY <1>1, IInvHolds, PTL
=============================================================================
