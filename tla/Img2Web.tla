------------------------------ MODULE Img2Web ------------------------------
(***************************************************************************)
(* The img2web service (img2web.cpp, cassandra_db.cpp): four FastCGI       *)
(* components served by one pool of threads.  Every component owns a       *)
(* CassandraDBClient; a handler runs a fixed sequence of statements, each  *)
(* sent with cass_session_execute and awaited with cass_future_wait, which *)
(* has no timeout.  A thread is therefore either idle or blocked on the    *)
(* future of one statement, and the threads meet only in the tables.       *)
(*                                                                         *)
(* External parts, modelled from their use: the FastCGI pool and its queue *)
(* (img2web.conf), the session the driver offers (connect may fail, a      *)
(* statement's future is set once, to a result or to an error), and the    *)
(* three Cassandra tables.  A statement whose future is set to an error    *)
(* may have been applied, may be applied later, or never.                  *)
(***************************************************************************)
EXTENDS Integers, Sequences, FiniteSets

CONSTANTS
  Threads,       \* threads of the pool "main"
  Logins,        \* user names
  Images,        \* base64 payloads
  TopArgs,       \* values of the argument "top" of /feed (numbers, Garbage)
  Workload,      \* the requests clients may send
  Unreliable,    \* components whose connect may fail
  DefaultTop,    \* the initial value of the local variable top (10)
  QueueSize,     \* capacity of the pool's queue
  MaxRequests,   \* bound: requests submitted in a behaviour
  MaxErrors,     \* bound: futures the driver sets to an error
  NoArg,         \* an argument the request does not carry
  Garbage        \* a "top" that is not a number

ASSUME BoundsAssumption ==
  /\ QueueSize \in Nat \ {0}
  /\ MaxRequests \in Nat
  /\ MaxErrors \in Nat
  /\ DefaultTop \in Nat
  /\ TopArgs \subseteq Nat \cup {Garbage}
  /\ NoArg \notin Logins \cup Images \cup TopArgs

Components == {"ShowUsers", "PostImage", "GetFeed", "SubscribeTo"}

\* The arguments the handlers look at: login and, in "arg", image, top or to.
AnyRequest ==
  [component : {"ShowUsers"}, login : {NoArg}, arg : {NoArg}]
    \cup [component : {"PostImage"}, login : Logins \cup {NoArg}, arg : Images \cup {NoArg}]
    \cup [component : {"GetFeed"}, login : Logins \cup {NoArg}, arg : TopArgs \cup {NoArg}]
    \cup [component : {"SubscribeTo"}, login : Logins \cup {NoArg}, arg : Logins \cup {NoArg}]

ASSUME WorkloadAssumption ==
  /\ Workload \subseteq AnyRequest
  /\ Unreliable \subseteq Components

VARIABLES
  session,        \* component -> "new" | "connected" | "failed"
  users,          \* table img2web.users: set of logins
  subscriptions,  \* table img2web.subscriptions: set of <<login_from, login_to>>
  images,         \* table img2web.images, in the order of ts = now()
  late,           \* writes that timed out at the client and are still under way
  requests,       \* every request submitted so far, with what had been answered by then
  queue,          \* request numbers waiting for a thread
  thread,         \* what each thread of the pool is doing
  reply,          \* request number -> the answer
  errors          \* how many futures were set to an error

tables == <<users, subscriptions, images, late>>
vars == <<session, users, subscriptions, images, late, requests, queue, thread, reply, errors>>

----------------------------------------------------------------------------
(* Requests, statements and threads *)

\* hasArg tests at the head of the handlers: "top" is the one optional argument.
MissingArgs(q) ==
  CASE q.component = "ShowUsers" -> FALSE
    [] q.component = "GetFeed"   -> q.login = NoArg
    [] OTHER                     -> q.login = NoArg \/ q.arg = NoArg

\* stream >> top: a failed extraction stores 0 and throws nothing, so the
\* catch block that restores the default is never entered.
ParseTop(arg) ==
  CASE arg = NoArg   -> DefaultTop
    [] arg = Garbage -> 0
    [] OTHER         -> arg

InsertUser(l)         == [op |-> "insert", table |-> "users", row |-> l]
InsertSubscription(l, m) == [op |-> "insert", table |-> "subscriptions", row |-> <<l, m>>]
InsertImage(l, i, r)  == [op |-> "insert", table |-> "images",
                          row |-> [login |-> l, img |-> i, by |-> r]]
SelectUsers           == [op |-> "select", table |-> "users"]
SelectSubscriptions(l) == [op |-> "select", table |-> "subscriptions", login |-> l]
SelectImages(s, n)    == [op |-> "select", table |-> "images", logins |-> s, limit |-> n]

\* pc names the execQuery call a busy thread is blocked in.
Idle == [pc |-> "idle"]
Busy(t) == thread[t] # Idle
Blocked(t) == Busy(t) /\ thread[t].future = "unset"

\* execQuery: cass_session_execute on a session that is not connected returns a
\* future that is already set to an error.
ExecQuery(t, pc, r, stmt) ==
  thread' = [thread EXCEPT ![t] =
    [pc |-> pc, req |-> r, stmt |-> stmt, rows |-> {},
     future |-> IF session[requests[r].component] = "connected" THEN "unset" ELSE "error"]]

\* The handler returns: its answer is sent and the thread is free again.
Finish(t, r, answer) ==
  /\ reply' = [reply EXCEPT ![r] = answer]
  /\ thread' = [thread EXCEPT ![t] = Idle]

NoReply == [status |-> "none"]
Ok(body) == [status |-> "200", body |-> body]
NotFound == [status |-> "404"]
Answered(r) == reply[r] # NoReply

Init ==
  /\ session = [c \in Components |-> "new"]
  /\ users = {} /\ subscriptions = {} /\ images = <<>> /\ late = {}
  /\ requests = <<>> /\ queue = <<>>
  /\ thread = [t \in Threads |-> Idle]
  /\ reply = [r \in 1..MaxRequests |-> NoReply]
  /\ errors = 0

----------------------------------------------------------------------------
(* The FastCGI daemon *)

\* onLoad of one component: client.connect, whose result is dropped.
OnLoad(c) ==
  /\ session[c] = "new"
  /\ \E outcome \in IF c \in Unreliable THEN {"connected", "failed"} ELSE {"connected"} :
       session' = [session EXCEPT ![c] = outcome]
  /\ UNCHANGED <<tables, requests, queue, thread, reply, errors>>

\* A client's request enters the queue once every component is loaded.
\* "answered" is what the clients had been told by then.
Submit ==
  /\ \A c \in Components : session[c] # "new"
  /\ Len(requests) < MaxRequests
  /\ Len(queue) < QueueSize
  /\ \E q \in Workload :
       requests' = Append(requests,
         [component |-> q.component, login |-> q.login, arg |-> q.arg,
          answered |-> {r \in 1..Len(requests) : Answered(r)}])
  /\ queue' = Append(queue, Len(requests) + 1)
  /\ UNCHANGED <<session, tables, thread, reply, errors>>

\* A thread takes a request: handleRequest up to its first execQuery, or to
\* the early return.  SubscribeTo returns without setting a status, which
\* leaves FastCGI's 200 and an empty body.
HandleRequest(t) ==
  /\ thread[t] = Idle
  /\ queue # <<>>
  /\ LET r == Head(queue)
         q == requests[r]
         missing == MissingArgs(q)
     IN \/ /\ missing
           /\ Finish(t, r, IF q.component = "SubscribeTo" THEN Ok("") ELSE NotFound)
        \/ /\ ~missing /\ q.component = "ShowUsers"
           /\ ExecQuery(t, "getUsers", r, SelectUsers)
           /\ UNCHANGED reply
        \/ /\ ~missing /\ q.component # "ShowUsers"
           /\ ExecQuery(t, "registerUser", r, InsertUser(q.login))
           /\ UNCHANGED reply
  /\ queue' = Tail(queue)
  /\ UNCHANGED <<session, tables, requests, errors>>

----------------------------------------------------------------------------
(* The handlers, from one cass_future_wait to the next *)

\* The thread's wait in execQuery at the point pc is over.
Returned(t, pc) == thread[t].pc = pc /\ thread[t].future # "unset"
Rc(t) == thread[t].future

\* RegisterSelf, first insert: the return code is not looked at.
RegisterUserReturns(t) ==
  /\ Returned(t, "registerUser")
  /\ LET r == thread[t].req IN
       ExecQuery(t, "registerSelf", r, InsertSubscription(requests[r].login, requests[r].login))
  /\ UNCHANGED <<session, tables, requests, queue, reply, errors>>

\* RegisterSelf, second insert: neither is this one; the handler goes on to
\* its own statement.
RegisterSelfReturns(t) ==
  /\ Returned(t, "registerSelf")
  /\ LET r == thread[t].req
         q == requests[r]
     IN \/ /\ q.component = "PostImage"
           /\ ExecQuery(t, "postImage", r, InsertImage(q.login, q.arg, r))
        \/ /\ q.component = "SubscribeTo"
           /\ ExecQuery(t, "subscribe", r, InsertSubscription(q.login, q.arg))
        \/ /\ q.component = "GetFeed"
           /\ ExecQuery(t, "getSubscriptions", r, SelectSubscriptions(q.login))
  /\ UNCHANGED <<session, tables, requests, queue, reply, errors>>

\* Faulty: the return code of the insert is not looked at.
WriteReturnsUnchecked(t) ==
  /\ Returned(t, "postImage") \/ Returned(t, "subscribe")
  /\ Finish(t, thread[t].req,
       Ok(IF thread[t].pc = "postImage" THEN "POST!" ELSE "SUBSCRIBED!"))
  /\ UNCHANGED <<session, tables, requests, queue, errors>>

\* PostImage and SubscribeTo after their own insert.
WriteReturns(t) ==
  /\ Returned(t, "postImage") \/ Returned(t, "subscribe")
  /\ Finish(t, thread[t].req,
       IF Rc(t) = "ok" THEN Ok(IF thread[t].pc = "postImage" THEN "POST!" ELSE "SUBSCRIBED!")
       ELSE NotFound)
  /\ UNCHANGED <<session, tables, requests, queue, errors>>

\* Faulty: JoinUsers stops one user early.
GetSubscriptionsReturnsOneLess(t) ==
  /\ Returned(t, "getSubscriptions")
  /\ LET r == thread[t].req IN
       IF Rc(t) = "ok" /\ thread[t].rows # {}
       THEN \E last \in thread[t].rows :
              /\ ExecQuery(t, "getImages", r,
                   SelectImages(thread[t].rows \ {last}, ParseTop(requests[r].arg)))
              /\ UNCHANGED reply
       ELSE Finish(t, r, NotFound)
  /\ UNCHANGED <<session, tables, requests, queue, errors>>

\* getFeed after getSubscriptionsCommon: the list read goes into the IN (...)
\* of the second statement.
GetSubscriptionsReturns(t) ==
  /\ Returned(t, "getSubscriptions")
  /\ LET r == thread[t].req IN
       \/ /\ Rc(t) = "ok"
          /\ ExecQuery(t, "getImages", r, SelectImages(thread[t].rows, ParseTop(requests[r].arg)))
          /\ UNCHANGED reply
       \/ /\ Rc(t) # "ok"
          /\ Finish(t, r, NotFound)
  /\ UNCHANGED <<session, tables, requests, queue, errors>>

\* GetFeed after its second statement, ShowUsers after its only one.
ReadReturns(t) ==
  /\ Returned(t, "getImages") \/ Returned(t, "getUsers")
  /\ Finish(t, thread[t].req, IF Rc(t) = "ok" THEN Ok(thread[t].rows) ELSE NotFound)
  /\ UNCHANGED <<session, tables, requests, queue, errors>>

----------------------------------------------------------------------------
(* The driver's session and the tables (external) *)

\* ORDER BY ts DESC LIMIT n over the partitions in s: the i-th row is the
\* image than which i - 1 of these partitions are newer.
NewestFirst(s, n) ==
  LET mine == {k \in DOMAIN images : images[k].login \in s}
      shown == IF Cardinality(mine) < n THEN Cardinality(mine) ELSE n
      Nth(i) == CHOOSE k \in mine : Cardinality({j \in mine : j > k}) = i - 1
      Row(k) == [login |-> images[k].login, img |-> images[k].img,
                 by |-> images[k].by, ts |-> k]
  IN [i \in 1..shown |-> Row(Nth(i))]

Rows(stmt) ==
  IF stmt.op = "insert" THEN {}
  ELSE CASE stmt.table = "users" -> users
         [] stmt.table = "subscriptions" ->
              {m \in Logins : <<stmt.login, m>> \in subscriptions}
         [] stmt.table = "images" -> NewestFirst(stmt.logins, stmt.limit)

\* Cassandra refuses LIMIT 0: the limit must be strictly positive.
Valid(stmt) == ~(stmt.op = "select" /\ stmt.table = "images" /\ stmt.limit = 0)

Write(stmt) ==
  /\ users' = IF stmt.table = "users" THEN users \cup {stmt.row} ELSE users
  /\ subscriptions' = IF stmt.table = "subscriptions" THEN subscriptions \cup {stmt.row}
                      ELSE subscriptions
  /\ images' = IF stmt.table = "images" THEN Append(images, stmt.row) ELSE images

SetFuture(t, rc, rows) ==
  thread' = [thread EXCEPT ![t] = [@ EXCEPT !.future = rc, !.rows = rows]]

\* The statement is executed and its answer reaches the waiting thread.
Execute(t) ==
  /\ Blocked(t)
  /\ LET stmt == thread[t].stmt IN
       /\ Valid(stmt)
       /\ IF stmt.op = "insert" THEN Write(stmt) ELSE UNCHANGED <<users, subscriptions, images>>
       /\ SetFuture(t, "ok", Rows(stmt))
  /\ UNCHANGED <<session, late, requests, queue, reply, errors>>

\* The connection broke under a write and the driver sent the statement again
\* to the next host: the first copy may be applied as well.
ExecuteResent(t) ==
  /\ Blocked(t)
  /\ thread[t].stmt.op = "insert"
  /\ errors < MaxErrors
  /\ errors' = errors + 1
  /\ Write(thread[t].stmt)
  /\ late' = late \cup {thread[t].stmt}
  /\ SetFuture(t, "ok", {})
  /\ UNCHANGED <<session, requests, queue, reply>>

\* The server refuses the statement.
Refuse(t) ==
  /\ Blocked(t)
  /\ ~Valid(thread[t].stmt)
  /\ SetFuture(t, "error", {})
  /\ UNCHANGED <<session, tables, requests, queue, reply, errors>>

\* The driver gives up (request timeout, no host available, connection lost):
\* a write that had been sent may still be on its way.
GiveUp(t) ==
  /\ Blocked(t)
  /\ errors < MaxErrors
  /\ errors' = errors + 1
  /\ SetFuture(t, "error", {})
  /\ \/ late' = late
     \/ thread[t].stmt.op = "insert" /\ late' = late \cup {thread[t].stmt}
  /\ UNCHANGED <<session, users, subscriptions, images, requests, queue, reply>>

\* A write whose future had been set to an error is applied after all.
ApplyLate ==
  \E stmt \in late :
    /\ Write(stmt)
    /\ late' = late \ {stmt}
    /\ UNCHANGED <<session, requests, queue, thread, reply, errors>>

----------------------------------------------------------------------------
Serve(t) ==
  \/ HandleRequest(t)
  \/ RegisterUserReturns(t)
  \/ RegisterSelfReturns(t)
  \/ WriteReturns(t)
  \/ GetSubscriptionsReturns(t)
  \/ ReadReturns(t)

Driver(t) == Execute(t) \/ ExecuteResent(t) \/ Refuse(t) \/ GiveUp(t)

\* The service waits for clients for ever: nothing more happens once the
\* bound on the requests is reached and all are answered.
Done ==
  /\ Len(requests) = MaxRequests
  /\ \A r \in 1..MaxRequests : Answered(r)
  /\ UNCHANGED vars

Next ==
  \/ \E c \in Components : OnLoad(c)
  \/ Submit
  \/ \E t \in Threads : Serve(t) \/ Driver(t)
  \/ ApplyLate
  \/ Done

Spec == Init /\ [][Next]_vars

----------------------------------------------------------------------------
(* Properties *)

Statements ==
  [op : {"insert"}, table : {"users"}, row : Logins]
    \cup [op : {"insert"}, table : {"subscriptions"}, row : Logins \X Logins]
    \cup [op : {"insert"}, table : {"images"},
          row : [login : Logins, img : Images, by : 1..MaxRequests]]
    \cup {SelectUsers}
    \cup [op : {"select"}, table : {"subscriptions"}, login : Logins]
    \cup [op : {"select"}, table : {"images"}, logins : SUBSET Logins, limit : Nat]

\* Types: the tables hold rows of their schema, every busy thread works on a
\* submitted request, and the queue never exceeds its capacity.
TypeOK ==
  /\ session \in [Components -> {"new", "connected", "failed"}]
  /\ users \subseteq Logins
  /\ subscriptions \subseteq Logins \X Logins
  /\ \A k \in DOMAIN images :
       images[k] \in [login : Logins, img : Images, by : DOMAIN requests]
  /\ \A stmt \in late : stmt \in Statements /\ stmt.op = "insert"
  /\ Len(requests) <= MaxRequests
  /\ Len(queue) <= QueueSize /\ \A k \in DOMAIN queue : queue[k] \in DOMAIN requests
  /\ \A t \in Threads : Busy(t) =>
       /\ thread[t].req \in DOMAIN requests
       /\ thread[t].future \in {"unset", "ok", "error"}
       /\ thread[t].stmt \in Statements
  /\ \A r \in DOMAIN reply : reply[r].status \in {"none", "200", "404"}
  /\ errors \in 0..MaxErrors

\* The request was answered with status 200.
Succeeded(r) == reply[r].status = "200"
Of(r, c) == r \in DOMAIN requests /\ requests[r].component = c

\* "POST!" is only answered for an image that is in the table, whatever
\* statements before it failed.
AcknowledgedPostStored ==
  \A r \in DOMAIN requests :
    Of(r, "PostImage") /\ Succeeded(r) => \E k \in DOMAIN images : images[k].by = r

\* A feed shows at most "top" images, newest first, all of users the reader is
\* subscribed to, although the subscriptions and the images are read by two
\* separate statements.
FeedSound ==
  \A r \in DOMAIN requests :
    Of(r, "GetFeed") /\ Succeeded(r) =>
      LET feed == reply[r].body IN
        /\ Len(feed) <= ParseTop(requests[r].arg)
        /\ \A j, k \in DOMAIN feed : j < k => feed[j].ts > feed[k].ts
        /\ \A k \in DOMAIN feed : <<requests[r].login, feed[k].login>> \in subscriptions

\* What a client was told before it asked for the feed is in the feed: an
\* image acknowledged to its owner, of a user the reader was acknowledged to
\* be subscribed to, is shown unless "top" newer ones push it out.
FeedComplete ==
  \A r, p, s \in DOMAIN requests :
    /\ Of(r, "GetFeed") /\ Succeeded(r)
    /\ {p, s} \subseteq requests[r].answered
    /\ Of(p, "PostImage") /\ Succeeded(p)
    /\ Of(s, "SubscribeTo") /\ Succeeded(s) /\ requests[s].arg = requests[p].login
    /\ requests[s].login = requests[r].login
    => LET feed == reply[r].body IN
         \/ \E k \in DOMAIN feed : feed[k].by = p
         \/ /\ Len(feed) = ParseTop(requests[r].arg)
            /\ \A k \in DOMAIN feed : \E j \in DOMAIN images :
                 images[j].by = p /\ j < feed[k].ts

\* GetFeed: a feed shows no image it should not, and misses none that the
\* reader was told to be there, although two statements read it.
FeedExact == TypeOK /\ FeedSound /\ FeedComplete

(* What the documentation says and the code does not do. *)

\* img2web.cpp, GetFeed: a "top" that cannot be converted is "defaulting to: 10".  Such
\* a request is then answered with a feed, as long as no session, statement or
\* connection has failed.
UnparsableTopDefaults ==
  errors = 0 /\ (\A c \in Components : session[c] # "failed") =>
    \A r \in DOMAIN requests :
      Of(r, "GetFeed") /\ requests[r].login # NoArg /\ requests[r].arg = Garbage
        => reply[r] # NotFound
=============================================================================
