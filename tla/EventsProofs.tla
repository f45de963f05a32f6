----------------------------- MODULE EventsProofs -----------------------------
(***************************************************************************)
(* Events of one priority are handled in the order they were sent, and an  *)
(* event to several tasks reaches all of them, for any number of tasks,    *)
(* channels and calls.                                                     *)
(***************************************************************************)
EXTENDS Events, NaturalsInduction, FiniteSetTheorems, TLAPS

EventRecord ==
  [id : Nat, delivery : {"direct", "group", "broadcast", "channel"},
   from : Tasks, priority : Priority, kill : BOOLEAN]

Queues == [Priority -> Seq(EventRecord)]

(* The events of s are in order, newer than l and older than n. *)
Sorted(s, l, n) ==
  /\ \A i \in 1 .. Len(s) : l < s[i].id /\ s[i].id < n
  /\ \A i, j \in 1 .. Len(s) : i < j => s[i].id < s[j].id

LEMMA QueuedHasId ==
  ASSUME NEW s \in Seq(EventRecord)
  PROVE  \A i \in 1 .. Len(s) : s[i] \in EventRecord /\ s[i].id \in Nat
<1>1. \A i \in 1 .. Len(s) : s[i] \in EventRecord
  OBVIOUS
<1>2. \A e \in EventRecord : e.id \in Nat
  BY DEF EventRecord
<1>3. QED BY <1>1, <1>2

LEMMA SortedAppend ==
  ASSUME NEW s \in Seq(EventRecord), NEW l \in Nat, NEW n \in Nat, NEW e \in EventRecord,
         Sorted(s, l, n), \A i \in 1 .. Len(s) : s[i].id < e.id, l < e.id, e.id < n
  PROVE  Append(s, e) \in Seq(EventRecord) /\ Sorted(Append(s, e), l, n)
<1> DEFINE a == Append(s, e)
<1>1. a \in Seq(EventRecord) /\ Len(a) = Len(s) + 1
  OBVIOUS
<1>2. \A i \in 1 .. Len(a) : a[i] = IF i <= Len(s) THEN s[i] ELSE e
  OBVIOUS
<1>3. e.id \in Nat /\ \A i \in 1 .. Len(s) : s[i].id \in Nat
  <2>1. e.id \in Nat
    BY DEF EventRecord
  <2>2. QED BY <2>1, QueuedHasId
<1> HIDE DEF a
<1>4. \A i \in 1 .. Len(a) : l < a[i].id /\ a[i].id < n
  BY <1>1, <1>2 DEF Sorted
<1>5. ASSUME NEW i \in 1 .. Len(a), NEW j \in 1 .. Len(a), i < j
      PROVE  a[i].id < a[j].id
  <2>1. i <= Len(s)
    BY <1>1, <1>5
  <2>2. a[i] = s[i] /\ i \in 1 .. Len(s)
    BY <1>2, <2>1
  <2>3. CASE j <= Len(s)
    BY <1>2, <1>5, <2>2, <2>3 DEF Sorted
  <2>4. CASE ~(j <= Len(s))
    BY <1>2, <2>2, <2>4
  <2>5. QED BY <2>3, <2>4
<1>6. QED BY <1>1, <1>4, <1>5 DEF Sorted, a

LEMMA SortedLater ==
  ASSUME NEW s \in Seq(EventRecord), NEW l \in Nat, NEW n \in Nat, NEW m \in Nat,
         Sorted(s, l, n), n <= m
  PROVE  Sorted(s, l, m)
<1>1. \A i \in 1 .. Len(s) : s[i].id \in Nat
  BY QueuedHasId
<1>2. QED BY <1>1 DEF Sorted

LEMMA SortedSuffix ==
  ASSUME NEW s \in Seq(EventRecord), NEW l \in Nat, NEW n \in Nat, Sorted(s, l, n),
         NEW k \in 0 .. Len(s)
  PROVE  /\ SubSeq(s, k + 1, Len(s)) \in Seq(EventRecord)
         /\ Sorted(SubSeq(s, k + 1, Len(s)), IF k = 0 THEN l ELSE s[k].id, n)
<1> DEFINE a == SubSeq(s, k + 1, Len(s))
<1>1. Len(s) \in Nat
  OBVIOUS
<1>2. a \in Seq(EventRecord) /\ Len(a) = Len(s) - k
  OBVIOUS
<1>3. \A i \in 1 .. Len(a) : a[i] = s[i + k] /\ i + k \in 1 .. Len(s)
  <2> SUFFICES ASSUME NEW i \in 1 .. Len(a)
               PROVE  a[i] = s[i + k] /\ i + k \in 1 .. Len(s)
    OBVIOUS
  <2>1. i \in 1 .. (Len(s) - k) /\ i + k \in 1 .. Len(s) /\ (k + 1) + i - 1 = i + k
    BY <1>1, <1>2
  <2>2. a[i] = s[(k + 1) + i - 1]
    BY <1>1, <2>1
  <2>3. QED BY <2>1, <2>2
<1> HIDE DEF a
<1>4. \A i \in 1 .. Len(s) : s[i].id \in Nat
  BY QueuedHasId
<1>5. \A i, j \in 1 .. Len(a) : i < j => a[i].id < a[j].id
  BY <1>1, <1>2, <1>3 DEF Sorted
<1>6. \A i \in 1 .. Len(a) : a[i].id < n
  BY <1>3 DEF Sorted
<1>7. CASE k = 0
  <2>1. \A i \in 1 .. Len(a) : l < a[i].id
    BY <1>3 DEF Sorted
  <2>2. QED BY <1>2, <1>5, <1>6, <1>7, <2>1 DEF Sorted, a
<1>8. CASE k # 0
  <2>1. k \in 1 .. Len(s)
    BY <1>1, <1>8
  <2>2. \A i \in 1 .. Len(a) : s[k].id < a[i].id
    BY <1>1, <1>2, <1>3, <2>1 DEF Sorted
  <2>3. QED BY <1>2, <1>5, <1>6, <1>8, <2>2 DEF Sorted, a
<1>9. QED BY <1>7, <1>8

-----------------------------------------------------------------------------
(* Delivery keeps the queues in order. *)
Settings ==
  /\ alive \subseteq Tasks /\ groups \subseteq Tasks
  /\ subscriptions \in [Channels -> SUBSET Tasks]
  /\ buffer_size \in [Tasks -> Nat] /\ total_count \in [Tasks -> Int]
  /\ last \in [Tasks -> [Priority -> Nat]]

BoxOk(box) ==
  /\ box.queue \in [Tasks -> Queues]
  /\ box.count \in [Tasks -> Int]
  /\ box.next \in Nat
  /\ \A t \in Tasks, p \in Priority :
       Sorted(box.queue[t][p], last[t][p], box.next) /\ last[t][p] < box.next

(* The event is newer than the events of its priority in q. *)
Fresh(q, ev) == \A i \in 1 .. Len(q[ev.priority]) : q[ev.priority][i].id < ev.id

(* The queues of a task with one more event. *)
With(q, ev) == [q EXCEPT ![ev.priority] = Append(@, ev)]

(* The queues and the counts of all tasks when t has it. *)
AllWith(queues, t, ev) == [queues EXCEPT ![t] = With(@, ev)]
OneMore(counts, t) == [counts EXCEPT ![t] = @ + 1]

LEMMA WithQueues ==
  ASSUME NEW q \in Queues, NEW ev \in EventRecord
  PROVE  /\ With(q, ev) \in Queues
         /\ With(q, ev)[ev.priority] = Append(q[ev.priority], ev)
         /\ \A p \in Priority : p # ev.priority => With(q, ev)[p] = q[p]
         /\ q[ev.priority] \in Seq(EventRecord)
<1>1. ev.priority \in Priority
  BY DEF EventRecord
<1>2. Append(q[ev.priority], ev) \in Seq(EventRecord) /\ q[ev.priority] \in Seq(EventRecord)
  BY <1>1 DEF Queues
<1>3. QED BY <1>1, <1>2 DEF Queues, With

LEMMA EnqueueIs ==
  ASSUME NEW box, NEW t, NEW ev
  PROVE  /\ Enqueue(box, t, ev).queue = AllWith(box.queue, t, ev)
         /\ Enqueue(box, t, ev).count = OneMore(box.count, t)
         /\ Enqueue(box, t, ev).next = box.next
<1>1. Enqueue(box, t, ev).queue = AllWith(box.queue, t, ev)
  BY Zenon DEF Enqueue, AllWith, With
<1>2. Enqueue(box, t, ev).count = OneMore(box.count, t)
  BY Zenon DEF Enqueue, OneMore
<1>3. Enqueue(box, t, ev).next = box.next
  BY Zenon DEF Enqueue
<1>4. QED BY <1>1, <1>2, <1>3, Zenon

LEMMA EnqueueOk ==
  ASSUME Settings, NEW box, BoxOk(box), NEW t \in Tasks, NEW ev \in EventRecord,
         ev.id < box.next, last[t][ev.priority] < ev.id, Fresh(box.queue[t], ev)
  PROVE  BoxOk(Enqueue(box, t, ev))
<1> DEFINE b == Enqueue(box, t, ev)
<1>1. /\ b.queue = AllWith(box.queue, t, ev)
      /\ b.count = OneMore(box.count, t)
      /\ b.next = box.next
  BY EnqueueIs, Zenon
<1> HIDE DEF b
<1>2. With(box.queue[t], ev) \in Queues /\ box.queue[t] \in Queues
  BY WithQueues DEF BoxOk
<1>3. /\ b.queue \in [Tasks -> Queues] /\ b.queue[t] = With(box.queue[t], ev)
      /\ \A x \in Tasks : x # t => b.queue[x] = box.queue[x]
  BY <1>1, <1>2 DEF BoxOk, AllWith
<1>4. b.count \in [Tasks -> Int]
  BY <1>1 DEF BoxOk, OneMore
<1>5. ASSUME NEW x \in Tasks, NEW p \in Priority
      PROVE  Sorted(b.queue[x][p], last[x][p], b.next)
  <2>1. Sorted(box.queue[x][p], last[x][p], box.next)
    BY DEF BoxOk
  <2>2. CASE x = t /\ p = ev.priority
    <3> DEFINE s == box.queue[t][ev.priority]
    <3>0. With(box.queue[t], ev)[ev.priority] = Append(s, ev) /\ s \in Seq(EventRecord)
      BY <1>2, WithQueues, Zenon
    <3>1. b.queue[x][p] = Append(s, ev) /\ s \in Seq(EventRecord)
      BY <1>3, <2>2, <3>0, Zenon
    <3>2. last[x][p] \in Nat /\ box.next \in Nat
      BY DEF Settings, BoxOk
    <3>3. (\A i \in 1 .. Len(s) : s[i].id < ev.id) /\ last[x][p] < ev.id
      BY <2>2, Zenon DEF Fresh
    <3>4. Sorted(s, last[x][p], box.next)
      BY <2>1, <2>2
    <3> HIDE DEF s
    <3>5. Sorted(Append(s, ev), last[x][p], box.next)
      BY <3>1, <3>2, <3>3, <3>4, SortedAppend
    <3>6. QED BY <1>1, <3>1, <3>5
  <2>3. CASE ~(x = t /\ p = ev.priority)
    <3>1. b.queue[x][p] = box.queue[x][p]
      BY <1>2, <1>3, <2>3, WithQueues
    <3>2. QED BY <1>1, <2>1, <3>1
  <2>4. QED BY <2>2, <2>3
<1>6. QED BY <1>1, <1>3, <1>4, <1>5 DEF BoxOk, b

LEMMA DeliverOk ==
  ASSUME Settings, NEW box, BoxOk(box), NEW t \in Tasks, NEW ev \in EventRecord,
         ev.id < box.next, last[t][ev.priority] < ev.id, Fresh(box.queue[t], ev)
  PROVE  BoxOk(DeliverToTask(box, t, ev)) /\ DeliverToTask(box, t, ev).next = box.next
<1>1. BoxOk(Enqueue(box, t, ev))
  BY EnqueueOk
<1>2. Enqueue(box, t, ev).next = box.next
  BY Zenon DEF Enqueue
<1>3. QED BY <1>1, <1>2, Zenon DEF DeliverToTask

LEMMA CountedOk ==
  ASSUME Settings, NEW box, BoxOk(box)
  PROVE  /\ BoxOk(Counted(box)) /\ Counted(box).next = box.next + 1
         /\ Counted(box).queue = box.queue /\ Counted(box).count = box.count
<1>1. /\ Counted(box).next = box.next + 1
      /\ Counted(box).queue = box.queue /\ Counted(box).count = box.count
  BY DEF Counted
<1>2. box.next \in Nat /\ box.next + 1 \in Nat /\ box.next <= box.next + 1
  BY DEF BoxOk
<1>3. ASSUME NEW t \in Tasks, NEW p \in Priority
      PROVE  Sorted(box.queue[t][p], last[t][p], box.next + 1) /\ last[t][p] < box.next + 1
  <2>1. last[t][p] \in Nat /\ box.queue[t][p] \in Seq(EventRecord)
    BY DEF Settings, BoxOk, Queues
  <2>2. Sorted(box.queue[t][p], last[t][p], box.next) /\ last[t][p] < box.next
    BY DEF BoxOk
  <2>3. QED BY <1>2, <2>1, <2>2, SortedLater
<1>4. QED BY <1>1, <1>2, <1>3 DEF BoxOk

(* An event that takes the next number is newer than all the others. *)
LEMMA NextIsFresh ==
  ASSUME Settings, NEW box, BoxOk(box), NEW t \in Tasks, NEW ev \in EventRecord,
         ev.id = box.next
  PROVE  Fresh(box.queue[t], ev) /\ last[t][ev.priority] < ev.id
<1>1. ev.priority \in Priority
  BY DEF EventRecord
<1>2. Sorted(box.queue[t][ev.priority], last[t][ev.priority], box.next)
      /\ last[t][ev.priority] < box.next
  BY <1>1 DEF BoxOk
<1>3. QED BY <1>2 DEF Sorted, Fresh

Notice(box, ev) == Event(box.next, "direct", ev.from, 1, FALSE)

LEMMA NoticeIs ==
  ASSUME NEW box, NEW ev \in EventRecord, box.next \in Nat
  PROVE  /\ Notice(box, ev) \in EventRecord /\ Notice(box, ev).id = box.next
         /\ Notice(box, ev).priority = 1 /\ Notice(box, ev).delivery = "direct"
         /\ ev.from \in Tasks
BY DEF Notice, Event, EventRecord, Priority

LEMMA HandleFailureOk ==
  ASSUME Settings, NEW box, BoxOk(box), NEW ev \in EventRecord
  PROVE  BoxOk(HandleFailure(box, ev)) /\ HandleFailure(box, ev).next >= box.next
<1> DEFINE n == Notice(box, ev)
           c == Counted(box)
<1>1. box.next \in Nat
  BY DEF BoxOk
<1>2. n \in EventRecord /\ n.id = box.next /\ ev.from \in Tasks
  BY <1>1, NoticeIs
<1>3. BoxOk(c) /\ c.next = box.next + 1 /\ c.queue = box.queue
  BY CountedOk
<1>4. Fresh(c.queue[ev.from], n) /\ last[ev.from][n.priority] < n.id
  BY <1>2, <1>3, NextIsFresh
<1>5. n.id < c.next
  BY <1>1, <1>2, <1>3
<1> HIDE DEF n, c
<1>6. BoxOk(DeliverToTask(c, ev.from, n)) /\ DeliverToTask(c, ev.from, n).next = c.next
  BY <1>2, <1>3, <1>4, <1>5, DeliverOk
<1>7. HandleFailure(box, ev) = IF notify[ev.from] THEN DeliverToTask(c, ev.from, n) ELSE box
  BY Zenon DEF HandleFailure, c, n, Notice
<1>8. c.next >= box.next /\ box.next >= box.next
  BY <1>1, <1>3
<1>9. QED BY <1>3, <1>6, <1>7, <1>8, Zenon

-----------------------------------------------------------------------------
(* What a task has of an event while it is sent, and in the end. *)
Willing(t, ev) == t \in alive /\ Passes(t, ev)

Served(q, count, t, ev) ==
  IF Gets(q, ev.id, ev.delivery)
  THEN Willing(t, ev) /\ total_count[t] < buffer_size[t] /\ GetsOnce(q, ev.id, ev.delivery)
  ELSE Willing(t, ev) => count >= buffer_size[t]

Waits(q, ev) == ~Gets(q, ev.id, ev.delivery) /\ Fresh(q, ev)

(* An event is queued as what it was sent as. *)
AsSent(q, ev) == \A d : d # ev.delivery => ~Gets(q, ev.id, d)

(* The tasks of the set have been served, the others have nothing of it. *)
Sent(box, ev, served) ==
  \A t \in Tasks :
    /\ total_count[t] <= box.count[t]
    /\ AsSent(box.queue[t], ev)
    /\ t \in served => Served(box.queue[t], box.count[t], t, ev)
    /\ t \notin served => Waits(box.queue[t], ev)

Copy(q, p, i, n, d) == i \in 1 .. Len(q[p]) /\ IsCopy(q, p, i, n, d)

LEMMA GetsIsCopy ==
  ASSUME NEW q, NEW n, NEW d
  PROVE  /\ Gets(q, n, d) <=> \E p \in Priority : \E i : Copy(q, p, i, n, d)
         /\ GetsOnce(q, n, d) <=>
              \A p, r \in Priority : \A i, j :
                Copy(q, p, i, n, d) /\ Copy(q, r, j, n, d) => p = r /\ i = j
<1>1. Gets(q, n, d) <=> \E p \in Priority : \E i : Copy(q, p, i, n, d)
  BY Zenon DEF Gets, Copy
<1>2. GetsOnce(q, n, d) <=>
        \A p, r \in Priority : \A i, j :
          Copy(q, p, i, n, d) /\ Copy(q, r, j, n, d) => p = r /\ i = j
  BY Zenon DEF GetsOnce, Copy
<1>3. QED BY <1>1, <1>2

(* Where the copies are when one more event is queued. *)
LEMMA CopiesWith ==
  ASSUME NEW q \in Queues, NEW ev \in EventRecord, NEW n, NEW d,
         NEW p \in Priority, NEW i
  PROVE  Copy(With(q, ev), p, i, n, d) <=>
           \/ Copy(q, p, i, n, d)
           \/ /\ p = ev.priority /\ i = Len(q[p]) + 1
              /\ ev.id = n /\ ev.delivery = d
<1> DEFINE w == With(q, ev)
<1>1. CASE p # ev.priority
  <2>1. w[p] = q[p]
    BY <1>1, WithQueues
  <2>2. QED BY <1>1, <2>1, Zenon DEF Copy, IsCopy
<1>2. CASE p = ev.priority
  <2>1. w[p] = Append(q[p], ev) /\ q[p] \in Seq(EventRecord)
    BY <1>2, WithQueues
  <2> HIDE DEF w
  <2>2. /\ Len(w[p]) = Len(q[p]) + 1 /\ Len(q[p]) \in Nat
        /\ \A k \in 1 .. Len(q[p]) : w[p][k] = q[p][k]
        /\ w[p][Len(q[p]) + 1] = ev
    BY <2>1
  <2>3. CASE i \in 1 .. Len(q[p])
    <3>1. w[p][i] = q[p][i] /\ i \in 1 .. Len(w[p]) /\ i # Len(q[p]) + 1
      BY <2>2, <2>3
    <3>2. QED BY <2>3, <3>1, Zenon DEF Copy, IsCopy, w
  <2>4. CASE i = Len(q[p]) + 1
    <3>1. w[p][i] = ev /\ i \in 1 .. Len(w[p]) /\ i \notin 1 .. Len(q[p])
      BY <2>2, <2>4
    <3>2. QED BY <1>2, <2>4, <3>1, Zenon DEF Copy, IsCopy, w
  <2>5. CASE i \notin 1 .. Len(q[p]) /\ i # Len(q[p]) + 1
    <3>1. i \notin 1 .. Len(w[p])
      BY <2>2, <2>5
    <3>2. QED BY <2>5, <3>1, Zenon DEF Copy, w
  <2>6. QED BY <2>3, <2>4, <2>5
<1>3. QED BY <1>1, <1>2

(* Another event adds no copy. *)
LEMMA GetsWithOther ==
  ASSUME NEW q \in Queues, NEW ev \in EventRecord, NEW n, NEW d,
         ev.id # n \/ ev.delivery # d
  PROVE  /\ Gets(With(q, ev), n, d) <=> Gets(q, n, d)
         /\ GetsOnce(With(q, ev), n, d) <=> GetsOnce(q, n, d)
<1>1. \A p \in Priority : \A i : Copy(With(q, ev), p, i, n, d) <=> Copy(q, p, i, n, d)
  BY CopiesWith, Zenon
<1> DEFINE w == With(q, ev)
<1> HIDE DEF w
<1>2. \A p \in Priority : \A i : Copy(w, p, i, n, d) <=> Copy(q, p, i, n, d)
  BY <1>1, Zenon DEF w
<1>3. /\ Gets(w, n, d) <=> \E p \in Priority : \E i : Copy(w, p, i, n, d)
      /\ Gets(q, n, d) <=> \E p \in Priority : \E i : Copy(q, p, i, n, d)
  BY GetsIsCopy, Zenon
<1>4. Gets(w, n, d) <=> Gets(q, n, d)
  BY <1>2, <1>3
<1>5. GetsOnce(w, n, d) <=>
        \A p, r \in Priority : \A i, j :
          Copy(w, p, i, n, d) /\ Copy(w, r, j, n, d) => p = r /\ i = j
  BY GetsIsCopy, Zenon
<1>6. GetsOnce(q, n, d) <=>
        \A p, r \in Priority : \A i, j :
          Copy(q, p, i, n, d) /\ Copy(q, r, j, n, d) => p = r /\ i = j
  BY GetsIsCopy, Zenon
<1>7. GetsOnce(w, n, d) <=> GetsOnce(q, n, d)
  BY <1>2, <1>5, <1>6
<1>8. QED BY <1>4, <1>7, Zenon DEF w

(* The event itself is one. *)
LEMMA GetsWith ==
  ASSUME NEW q \in Queues, NEW ev \in EventRecord, ~Gets(q, ev.id, ev.delivery)
  PROVE  /\ Gets(With(q, ev), ev.id, ev.delivery)
         /\ GetsOnce(With(q, ev), ev.id, ev.delivery)
<1> DEFINE k == Len(q[ev.priority]) + 1
<1>1. ev.priority \in Priority
  BY DEF EventRecord
<1>2. \A p \in Priority : \A i :
        Copy(With(q, ev), p, i, ev.id, ev.delivery) <=> p = ev.priority /\ i = k
  <2>1. \A p \in Priority : \A i : ~Copy(q, p, i, ev.id, ev.delivery)
    BY GetsIsCopy, Zenon
  <2>2. ASSUME NEW p \in Priority, NEW i
        PROVE  Copy(With(q, ev), p, i, ev.id, ev.delivery) <=> p = ev.priority /\ i = k
    <3>1. Copy(With(q, ev), p, i, ev.id, ev.delivery) <=>
            Copy(q, p, i, ev.id, ev.delivery) \/ (p = ev.priority /\ i = Len(q[p]) + 1)
      BY CopiesWith
    <3>2. p = ev.priority => Len(q[p]) + 1 = k
      BY Zenon
    <3>3. QED BY <2>1, <3>1, <3>2, Zenon
  <2>3. QED BY <2>2, Zenon
<1> HIDE DEF k
<1>3. Gets(With(q, ev), ev.id, ev.delivery)
  BY <1>1, <1>2, GetsIsCopy, Zenon
<1>4. GetsOnce(With(q, ev), ev.id, ev.delivery)
  <2>1. \A p, r \in Priority : \A i, j :
          /\ Copy(With(q, ev), p, i, ev.id, ev.delivery)
          /\ Copy(With(q, ev), r, j, ev.id, ev.delivery)
          => p = r /\ i = j
    BY <1>2
  <2>2. QED BY <2>1, GetsIsCopy, Zenon
<1>5. QED BY <1>3, <1>4

(* The task whose turn it is gets the event, or has no room or no use for  *)
(* it.                                                                     *)
LEMMA DeliverServes ==
  ASSUME Settings, NEW box, BoxOk(box), NEW ev \in EventRecord, NEW served,
         Sent(box, ev, served), NEW t \in Tasks \ served
  PROVE  Sent(DeliverToTask(box, t, ev), ev, served \cup {t})
<1> DEFINE b == DeliverToTask(box, t, ev)
           q == box.queue[t]
<1>1. /\ q \in Queues /\ box.queue \in [Tasks -> Queues] /\ box.count \in [Tasks -> Int]
      /\ buffer_size \in [Tasks -> Nat] /\ total_count \in [Tasks -> Int]
  BY DEF BoxOk, Settings
<1>2. ~Gets(q, ev.id, ev.delivery) /\ total_count[t] <= box.count[t]
  BY Zenon DEF Sent, Waits
<1> HIDE DEF q
<1>3. CASE Passes(t, ev) /\ ~Fails(box, t, ev)
  <2>1. b = Enqueue(box, t, ev)
    BY <1>3, Zenon DEF DeliverToTask
  <2>2. /\ b.queue = AllWith(box.queue, t, ev)
        /\ b.count = OneMore(box.count, t)
        /\ b.next = box.next
    <3> HIDE DEF b
    <3>1. QED BY <2>1, EnqueueIs
  <2> HIDE DEF b
  <2>3. /\ b.queue[t] = With(q, ev) /\ b.count[t] = box.count[t] + 1
        /\ \A x \in Tasks : x # t => b.queue[x] = box.queue[x] /\ b.count[x] = box.count[x]
    BY <1>1, <2>2 DEF q, AllWith, OneMore
  <2>4. Gets(With(q, ev), ev.id, ev.delivery) /\ GetsOnce(With(q, ev), ev.id, ev.delivery)
    BY <1>1, <1>2, GetsWith
  <2>5. t \in alive /\ Passes(t, ev) /\ ~(box.count[t] >= buffer_size[t])
    BY <1>3, Zenon DEF Fails, Full
  <2>6. total_count[t] < buffer_size[t] /\ total_count[t] <= b.count[t]
    BY <1>1, <1>2, <2>3, <2>5
  <2>7. Served(b.queue[t], b.count[t], t, ev)
    BY <2>3, <2>4, <2>5, <2>6, Zenon DEF Served, Willing
  <2>8. ASSUME NEW x \in Tasks, x # t
        PROVE  /\ total_count[x] <= b.count[x] /\ AsSent(b.queue[x], ev)
               /\ x \in served => Served(b.queue[x], b.count[x], x, ev)
               /\ x \notin served => Waits(b.queue[x], ev)
    <3>1. b.queue[x] = box.queue[x] /\ b.count[x] = box.count[x]
      BY <2>3, <2>8, Zenon
    <3>2. QED BY <3>1, Zenon DEF Sent
  <2>9. AsSent(b.queue[t], ev)
    <3>1. AsSent(q, ev)
      BY Zenon DEF Sent, q
    <3>2. \A d : d # ev.delivery => (Gets(With(q, ev), ev.id, d) <=> Gets(q, ev.id, d))
      BY <1>1, GetsWithOther, Zenon
    <3>3. QED BY <2>3, <3>1, <3>2, Zenon DEF AsSent
  <2>10. QED BY <2>6, <2>7, <2>8, <2>9, Zenon DEF Sent, b
<1>4. CASE ~(Passes(t, ev) /\ ~Fails(box, t, ev))
  <2>1. b = box
    BY <1>4, Zenon DEF DeliverToTask
  <2> HIDE DEF b
  <2>2. Willing(t, ev) => box.count[t] >= buffer_size[t]
    BY <1>4, Zenon DEF Willing, Fails, Full
  <2>3. Served(q, box.count[t], t, ev)
    BY <1>2, <2>2, Zenon DEF Served
  <2>4. Sent(box, ev, served \cup {t})
    BY <2>3, Zenon DEF Sent, q
  <2>5. QED BY <2>1, <2>4, Zenon DEF b
<1>5. QED BY <1>3, <1>4

(* The report of a failure is no copy of the event, and takes room only    *)
(* from those that have been served or still have nothing.                 *)
LEMMA NoticeKeepsSent ==
  ASSUME Settings, NEW box, BoxOk(box), NEW ev \in EventRecord, NEW served,
         Sent(box, ev, served), ev.id < box.next, ev.priority # 1
  PROVE  Sent(HandleFailure(box, ev), ev, served)
<1> DEFINE n == Notice(box, ev)
           c == Counted(box)
           s == ev.from
           b == Enqueue(c, s, n)
<1>1. box.next \in Nat /\ box.queue \in [Tasks -> Queues] /\ box.count \in [Tasks -> Int]
      /\ buffer_size \in [Tasks -> Nat] /\ total_count \in [Tasks -> Int] /\ ev.id \in Nat
  BY DEF BoxOk, Settings, EventRecord
<1>2. n \in EventRecord /\ n.id = box.next /\ s \in Tasks /\ n.priority = 1
  BY <1>1, NoticeIs
<1>3. c.queue = box.queue /\ c.count = box.count
  BY CountedOk
<1>4. Sent(c, ev, served)
  BY <1>3, Zenon DEF Sent
<1>5. HandleFailure(box, ev) \in {box, c, b}
  BY Zenon DEF HandleFailure, DeliverToTask, n, c, s, b, Notice
<1> HIDE DEF n, c, s
<1>6. /\ b.queue = AllWith(c.queue, s, n)
      /\ b.count = OneMore(c.count, s)
      /\ b.next = c.next
  BY EnqueueIs, Zenon
<1> HIDE DEF b
<1> DEFINE q == box.queue[s]
<1>7. /\ b.queue[s] = With(q, n) /\ b.count[s] = box.count[s] + 1
      /\ \A x \in Tasks : x # s => b.queue[x] = box.queue[x] /\ b.count[x] = box.count[x]
  BY <1>1, <1>2, <1>3, <1>6 DEF AllWith, OneMore
<1>8. q \in Queues
  BY <1>1, <1>2
<1>9. /\ \A d : Gets(With(q, n), ev.id, d) <=> Gets(q, ev.id, d)
      /\ GetsOnce(With(q, n), ev.id, ev.delivery) <=> GetsOnce(q, ev.id, ev.delivery)
  <2>1. n.id # ev.id
    BY <1>1, <1>2
  <2> HIDE DEF q
  <2>2. QED BY <1>2, <1>8, <2>1, GetsWithOther, Zenon
<1>10. Fresh(With(q, n), ev) <=> Fresh(q, ev)
  <2>1. ev.priority \in Priority /\ ev.priority # n.priority
    BY <1>2 DEF EventRecord
  <2>2. With(q, n)[ev.priority] = q[ev.priority]
    BY <1>2, <1>8, <2>1, WithQueues, Zenon
  <2>3. QED BY <2>2, Zenon DEF Fresh
<1>11. /\ total_count[s] <= box.count[s] /\ box.count[s] + 1 \in Int /\ AsSent(q, ev)
       /\ s \in served => Served(q, box.count[s], s, ev)
       /\ s \notin served => Waits(q, ev)
  BY <1>1, <1>2 DEF Sent
<1> HIDE DEF q
<1>12. total_count[s] <= b.count[s]
       /\ (box.count[s] >= buffer_size[s] => b.count[s] >= buffer_size[s])
  BY <1>1, <1>2, <1>7, <1>11
<1>13. s \in served => Served(b.queue[s], b.count[s], s, ev)
  BY <1>7, <1>9, <1>11, <1>12, Zenon DEF Served
<1>14. s \notin served => Waits(b.queue[s], ev)
  BY <1>7, <1>9, <1>10, <1>11, Zenon DEF Waits
<1>15. ASSUME NEW x \in Tasks, x # s
       PROVE  /\ total_count[x] <= b.count[x] /\ AsSent(b.queue[x], ev)
              /\ x \in served => Served(b.queue[x], b.count[x], x, ev)
              /\ x \notin served => Waits(b.queue[x], ev)
  <2>1. b.queue[x] = box.queue[x] /\ b.count[x] = box.count[x]
    BY <1>7, <1>15, Zenon
  <2>2. QED BY <2>1, Zenon DEF Sent
<1>16. Sent(b, ev, served)
  <2>1. AsSent(b.queue[s], ev)
    BY <1>7, <1>9, <1>11, Zenon DEF AsSent
  <2>2. QED BY <2>1, <1>12, <1>13, <1>14, <1>15, Zenon DEF Sent
<1>17. QED BY <1>4, <1>5, <1>16

-----------------------------------------------------------------------------
(* The loops over the targets of an event. *)
LEMMA LeastNatural ==
  ASSUME NEW S \in SUBSET Nat, S # {}
  PROVE  \E k \in S : \A m \in S : k <= m
<1>1. PICK k \in S : \A m \in S : ~(<<m, k>> \in OpToRel(<, Nat))
  BY NatLessThanWellFounded, WFMin, Zenon
<1>2. \A m \in S : ~(m < k)
  BY <1>1, Zenon DEF OpToRel
<1>3. QED BY <1>2

LEMMA CountUp ==
  ASSUME NEW n \in Nat, NEW S,
         0 \in S, \A k \in 0 .. n : k \in S /\ k < n => k + 1 \in S
  PROVE  0 .. n \subseteq S
<1> DEFINE missing == {k \in 0 .. n : k \notin S}
<1> SUFFICES ASSUME missing # {} PROVE FALSE
  OBVIOUS
<1>1. missing \in SUBSET Nat
  OBVIOUS
<1>2. PICK k \in missing : \A m \in missing : k <= m
  <2> HIDE DEF missing
  <2>1. QED BY <1>1, LeastNatural
<1>3. k - 1 \in 0 .. n /\ k - 1 < n /\ k = (k - 1) + 1
  OBVIOUS
<1>4. k - 1 \in S
  BY <1>2, <1>3
<1>5. QED BY <1>3, <1>4

(* An order of targets names each of them once. *)
LEMMA OrderIs ==
  ASSUME NEW targets, IsFiniteSet(targets), NEW order \in SetToSeqs(targets)
  PROVE  /\ Len(order) \in Nat
         /\ \A i \in 1 .. Len(order) : order[i] \in targets
         /\ \A i, j \in 1 .. Len(order) : i # j => order[i] # order[j]
         /\ targets = {order[i] : i \in 1 .. Len(order)}
<1> DEFINE n == Cardinality(targets)
<1>1. n \in Nat
  BY FS_CardinalityType
<1>2. order \in [1 .. n -> targets] /\ \A i, j \in 1 .. n : i # j => order[i] # order[j]
  BY DEF SetToSeqs
<1> HIDE DEF n
<1>3. Len(order) = n
  BY <1>1, <1>2
<1>4. order \in Injection(1 .. n, targets)
  BY <1>2 DEF Injection, IsInjective
<1>5. Cardinality(1 .. n) = n
  BY <1>1, FS_Interval
<1>6. order \in Surjection(1 .. n, targets)
  BY <1>4, <1>5, FS_Injection DEF n
<1>7. \A t \in targets : \E i \in 1 .. n : order[i] = t
  BY <1>6 DEF Surjection
<1>8. targets = {order[i] : i \in 1 .. n}
  BY <1>2, <1>7
<1>9. QED BY <1>1, <1>2, <1>3, <1>8

(* One round of a loop. *)
LEMMA RoundServes ==
  ASSUME Settings, NEW box, BoxOk(box), NEW ev \in EventRecord, NEW served,
         Sent(box, ev, served), ev.id < box.next, ev.priority # 1,
         NEW t \in Tasks \ served, last[t][ev.priority] < ev.id,
         NEW b \in {DeliverToTask(box, t, ev), DeliverOrReport(box, t, ev)}
  PROVE  BoxOk(b) /\ ev.id < b.next /\ Sent(b, ev, served \cup {t})
<1>1. Fresh(box.queue[t], ev)
  BY Zenon DEF Sent, Waits
<1>2. BoxOk(DeliverToTask(box, t, ev)) /\ DeliverToTask(box, t, ev).next = box.next
  BY <1>1, DeliverOk
<1>3. Sent(DeliverToTask(box, t, ev), ev, served \cup {t})
  BY DeliverServes
<1>4. CASE b = DeliverToTask(box, t, ev)
  BY <1>2, <1>3, <1>4
<1>5. CASE b # DeliverToTask(box, t, ev)
  <2>1. b = HandleFailure(box, ev) /\ DeliverToTask(box, t, ev) = box
    BY <1>5, Zenon DEF DeliverOrReport, DeliverToTask
  <2>2. BoxOk(b) /\ b.next >= box.next
    BY <2>1, HandleFailureOk
  <2>3. Sent(box, ev, served \cup {t})
    BY <1>3, <2>1
  <2>4. Sent(b, ev, served \cup {t})
    BY <2>1, <2>3, NoticeKeepsSent
  <2>5. ev.id < b.next
    <3>1. ev.id \in Nat /\ box.next \in Nat /\ b.next \in Nat
      BY <2>2 DEF BoxOk, EventRecord
    <3>2. QED BY <2>2, <3>1
  <2>6. QED BY <2>2, <2>4, <2>5
<1>6. QED BY <1>4, <1>5

(* Before the first round. *)
LEMMA NobodyHasIt ==
  ASSUME Settings, BoxOk(Box), NEW ev \in EventRecord, ev.id = next_event
  PROVE  /\ BoxOk(Numbered) /\ Numbered.next = next_event + 1 /\ next_event \in Nat
         /\ Numbered.queue = queue /\ Numbered.count = total_count
         /\ Sent(Numbered, ev, {})
         /\ \A t \in Tasks : last[t][ev.priority] < ev.id
<1>1. Box.queue = queue /\ Box.count = total_count /\ Box.next = next_event
  BY DEF Box
<1>2. BoxOk(Numbered) /\ Numbered.next = Box.next + 1
      /\ Numbered.queue = Box.queue /\ Numbered.count = Box.count
  BY CountedOk, Zenon DEF Numbered
<1>3. next_event \in Nat
  BY <1>1 DEF BoxOk
<1>4. ASSUME NEW t \in Tasks
      PROVE  Fresh(queue[t], ev) /\ last[t][ev.priority] < ev.id
  BY <1>1, NextIsFresh
<1>5. ASSUME NEW t \in Tasks
      PROVE  \A d : ~Gets(queue[t], ev.id, d)
  <2>1. ASSUME NEW p \in Priority, NEW i \in 1 .. Len(queue[t][p])
        PROVE  queue[t][p][i].id # ev.id
    <3>1. queue[t][p][i].id < next_event
      BY <1>1 DEF BoxOk, Sorted
    <3>2. queue[t][p] \in Seq(EventRecord)
      BY <1>1 DEF BoxOk, Queues
    <3>3. queue[t][p][i].id \in Nat
      BY <3>2, QueuedHasId
    <3>4. QED BY <1>3, <3>1, <3>3
  <2>2. QED BY <2>1, Zenon DEF Gets, IsCopy
<1>6. \A t \in Tasks : total_count[t] <= total_count[t]
  BY DEF Settings
<1>7. Sent(Numbered, ev, {})
  BY <1>1, <1>2, <1>4, <1>5, <1>6, Zenon DEF Sent, Waits, AsSent
<1>8. QED BY <1>1, <1>2, <1>3, <1>4, <1>7

(* All rounds of a loop. *)
LEMMA RoundsServe ==
  ASSUME Settings, BoxOk(Box), NEW ev \in EventRecord, ev.id = next_event, ev.priority # 1,
         NEW targets \in SUBSET Tasks, IsFiniteSet(targets), NEW order \in SetToSeqs(targets),
         NEW run, run[0] = [ev |-> ev, box |-> Numbered],
         \A k \in 1 .. Len(order) :
           /\ run[k].ev = run[k - 1].ev
           /\ run[k].box \in {DeliverToTask(run[k - 1].box, order[k], run[k - 1].ev),
                              DeliverOrReport(run[k - 1].box, order[k], run[k - 1].ev)}
  PROVE  LET box == run[Len(order)].box
         IN BoxOk(box) /\ next_event < box.next /\ Sent(box, ev, targets)
<1> DEFINE n == Len(order)
           served(k) == {order[i] : i \in 1 .. k}
           Good(k) == /\ run[k].ev = ev /\ BoxOk(run[k].box) /\ ev.id < run[k].box.next
                      /\ Sent(run[k].box, ev, served(k))
           S == {k \in 0 .. n : Good(k)}
<1>1. /\ n \in Nat
      /\ \A i \in 1 .. n : order[i] \in Tasks
      /\ \A i, j \in 1 .. n : i # j => order[i] # order[j]
      /\ targets = served(n)
  BY OrderIs
<1>2. /\ BoxOk(Numbered) /\ Numbered.next = next_event + 1 /\ next_event \in Nat
      /\ Sent(Numbered, ev, {})
      /\ \A t \in Tasks : last[t][ev.priority] < ev.id
  BY NobodyHasIt
<1>3. 0 \in S
  <2>1. run[0].ev = ev /\ run[0].box = Numbered
    OBVIOUS
  <2>2. served(0) = {}
    OBVIOUS
  <2> HIDE DEF served
  <2>3. ev.id < Numbered.next
    BY <1>2
  <2>4. Good(0)
    BY <1>2, <2>1, <2>2, <2>3, Zenon
  <2> HIDE DEF Good
  <2>5. QED BY <1>1, <2>4
<1>4. ASSUME NEW k \in 0 .. n, k \in S, k < n
      PROVE  k + 1 \in S
  <2> DEFINE t == order[k + 1]
             box == run[k].box
             b == run[k + 1].box
  <2>1. run[k].ev = ev /\ BoxOk(box) /\ ev.id < box.next /\ Sent(box, ev, served(k))
    BY <1>4
  <2>2. k + 1 \in 1 .. n /\ (k + 1) - 1 = k
    BY <1>1, <1>4
  <2>3. /\ run[k + 1].ev = ev
        /\ b \in {DeliverToTask(box, t, ev), DeliverOrReport(box, t, ev)}
    BY <2>1, <2>2
  <2>4. t \in Tasks \ served(k)
    BY <1>1, <1>4, <2>2
  <2>5. served(k + 1) = served(k) \cup {t}
    BY <1>1, <1>4
  <2> HIDE DEF served, t, box, b
  <2>6. BoxOk(b) /\ ev.id < b.next /\ Sent(b, ev, served(k) \cup {t})
    <3>1. last[t][ev.priority] < ev.id
      BY <1>2, <2>4
    <3>2. QED BY <2>1, <2>3, <2>4, <3>1, RoundServes
  <2>7. Good(k + 1)
    BY <2>3, <2>5, <2>6, Zenon DEF b
  <2> HIDE DEF Good
  <2>8. QED BY <1>1, <2>2, <2>7
<1> HIDE DEF S
<1>5. 0 .. n \subseteq S
  BY <1>1, <1>3, <1>4, CountUp, Zenon
<1>6. n \in S
  BY <1>1, <1>5
<1>7. Good(n)
  BY <1>6 DEF S
<1> HIDE DEF served
<1>8. QED BY <1>1, <1>7, Zenon

SendLoop == INSTANCE IterationProofs WITH Step <- SendStep
PublishLoop == INSTANCE IterationProofs WITH Step <- PublishStep

(* What SendAll commits. *)
LEMMA SendAllServes ==
  ASSUME Settings, BoxOk(Box), NEW ev \in EventRecord, ev.id = next_event, ev.priority # 1,
         NEW targets \in SUBSET Tasks, IsFiniteSet(targets), NEW order \in SetToSeqs(targets)
  PROVE  LET box == Sending!Iterate([ev |-> ev, box |-> Numbered], order).box
         IN BoxOk(box) /\ next_event < box.next /\ Sent(box, ev, targets)
<1> DEFINE start == [ev |-> ev, box |-> Numbered]
<1>1. Len(order) \in Nat
  BY OrderIs
<1>2. Sending!Iterate(start, order) = SendLoop!Iterate(start, order)
  BY Zenon DEF Sending!Iterate, SendLoop!Iterate
<1> HIDE DEF start
<1>3. SendLoop!CountsUp(Len(order))
  BY <1>1, CountUp, Zenon DEF SendLoop!CountsUp
<1>4. PICK run : /\ run[0] = start
                 /\ \A k \in 1 .. Len(order) : run[k] = SendStep(run[k - 1], order[k])
                 /\ SendLoop!Iterate(start, order) = run[Len(order)]
  <2>1. \E run : SendLoop!Runs(start, order, run)
    BY <1>1, <1>3, SendLoop!IterateIsALoop, Zenon
  <2>2. QED BY <2>1, Zenon DEF SendLoop!Runs
<1>5. ASSUME NEW k \in 1 .. Len(order)
      PROVE  /\ run[k].ev = run[k - 1].ev
             /\ run[k].box = DeliverOrReport(run[k - 1].box, order[k], run[k - 1].ev)
  <2>1. run[k] = SendStep(run[k - 1], order[k])
    BY <1>4, Zenon
  <2>2. QED BY <2>1 DEF SendStep
<1>6. LET box == run[Len(order)].box
      IN BoxOk(box) /\ next_event < box.next /\ Sent(box, ev, targets)
  BY <1>4, <1>5, RoundsServe, Zenon DEF start
<1>7. QED BY <1>2, <1>4, <1>6, Zenon DEF start

(* What Publish commits. *)
LEMMA PublishServes ==
  ASSUME Settings, BoxOk(Box), NEW ev \in EventRecord, ev.id = next_event, ev.priority # 1,
         NEW targets \in SUBSET Tasks, IsFiniteSet(targets), NEW order \in SetToSeqs(targets)
  PROVE  LET box == Publishing!Iterate([ev |-> ev, box |-> Numbered], order).box
         IN BoxOk(box) /\ next_event < box.next /\ Sent(box, ev, targets)
<1> DEFINE start == [ev |-> ev, box |-> Numbered]
<1>1. Len(order) \in Nat
  BY OrderIs
<1>2. Publishing!Iterate(start, order) = PublishLoop!Iterate(start, order)
  BY Zenon DEF Publishing!Iterate, PublishLoop!Iterate
<1> HIDE DEF start
<1>3. PublishLoop!CountsUp(Len(order))
  BY <1>1, CountUp, Zenon DEF PublishLoop!CountsUp
<1>4. PICK run : /\ run[0] = start
                 /\ \A k \in 1 .. Len(order) : run[k] = PublishStep(run[k - 1], order[k])
                 /\ PublishLoop!Iterate(start, order) = run[Len(order)]
  <2>1. \E run : PublishLoop!Runs(start, order, run)
    BY <1>1, <1>3, PublishLoop!IterateIsALoop, Zenon
  <2>2. QED BY <2>1, Zenon DEF PublishLoop!Runs
<1>5. ASSUME NEW k \in 1 .. Len(order)
      PROVE  /\ run[k].ev = run[k - 1].ev
             /\ run[k].box = DeliverToTask(run[k - 1].box, order[k], run[k - 1].ev)
  <2>1. run[k] = PublishStep(run[k - 1], order[k])
    BY <1>4, Zenon
  <2>2. QED BY <2>1 DEF PublishStep
<1>6. LET box == run[Len(order)].box
      IN BoxOk(box) /\ next_event < box.next /\ Sent(box, ev, targets)
  BY <1>4, <1>5, RoundsServe, Zenon DEF start
<1>7. QED BY <1>2, <1>4, <1>6, Zenon DEF start

-----------------------------------------------------------------------------
(* The inductive invariant. *)
Objects == [kind : {"none", "channel", "subscription"}, channel : Channels \cup {"none"},
            task : Tasks \cup {0}]

(* A handle of a channel names one that exists. *)
ChannelsKept ==
  /\ channels \subseteq Channels
  /\ handles \in [Tasks -> [1 .. Slots -> Objects]]
  /\ \A t \in Tasks, s \in 1 .. Slots :
       handles[t][s].kind = "channel" => handles[t][s].channel \in channels

IInv == Settings /\ ChannelsKept /\ BoxOk(Box)

LEMMA BoxIs ==
  /\ Box.queue = queue /\ Box.count = total_count /\ Box.next = next_event
  /\ (Box.queue)' = queue' /\ (Box.count)' = total_count' /\ (Box.next)' = next_event'
BY DEF Box

LEMMA InitOk == Init => IInv
<1> SUFFICES ASSUME Init PROVE IInv
  OBVIOUS
<1> USE EventsAssumption
<1>1. Max(Sizes) \in Nat
  BY Zenon DEF Max
<1>2. Settings
  BY <1>1 DEF Init, Settings
<1>3. ChannelsKept
  BY DEF Init, ChannelsKept, Objects, Empty
<1>4. BoxOk(Box)
  <2>1. queue \in [Tasks -> Queues]
    BY DEF Init, Queues
  <2>2. \A t \in Tasks, p \in Priority : queue[t][p] = <<>> /\ last[t][p] = 0
    BY DEF Init
  <2>3. \A l, n : Sorted(<<>>, l, n)
    BY DEF Sorted
  <2>4. total_count \in [Tasks -> Int] /\ next_event \in Nat /\ 0 < next_event
    BY DEF Init
  <2>5. QED BY <2>1, <2>2, <2>3, <2>4, BoxIs DEF BoxOk
<1>5. QED BY <1>2, <1>3, <1>4 DEF IInv

(* The queues stay in order when what a delivery made is committed. *)
LEMMA CommitOk ==
  ASSUME NEW b, BoxOk(b), Commit(b), UNCHANGED last
  PROVE  BoxOk(Box)'
<1>1. (Box.queue)' = b.queue /\ (Box.count)' = b.count /\ (Box.next)' = b.next
  BY BoxIs DEF Commit
<1>2. QED BY <1>1 DEF BoxOk

LEMMA DeliveryKeeps ==
  ASSUME IInv, NEW b, BoxOk(b), Commit(b), UNCHANGED DeliveryUnchanged
  PROVE  IInv'
<1>1. BoxOk(Box)'
  BY CommitOk DEF DeliveryUnchanged
<1>2. total_count' \in [Tasks -> Int]
  BY DEF BoxOk, Commit
<1>3. Settings'
  BY <1>2 DEF IInv, Settings, DeliveryUnchanged
<1>4. ChannelsKept'
  BY DEF IInv, ChannelsKept, DeliveryUnchanged
<1>5. QED BY <1>1, <1>3, <1>4 DEF IInv

(* Nothing but a delivery adds events. *)
LEMMA SilentReaches ==
  ASSUME IInv, UNCHANGED next_event
  PROVE  SentToAll
BY BoxIs DEF IInv, BoxOk, SentToAll

(* Every task of the audience has been served. *)
LEMMA DeliveryReaches ==
  ASSUME IInv, NEW b, Commit(b), NEW ev \in EventRecord, ev.id = next_event,
         NEW targets \in Audiences(ev.delivery), Sent(b, ev, targets)
  PROVE  SentToAll
<1> SUFFICES ASSUME NEW d \in {"group", "broadcast", "channel"}, NEW x \in Tasks,
                    Gets(queue'[x], next_event, d)
             PROVE  \E audience \in Audiences(d) : \A t \in Tasks :
                      LET meant == t \in audience \cap alive /\ Passes(t, [delivery |-> d])
                      IN IF Gets(queue'[t], next_event, d)
                         THEN /\ meant /\ total_count[t] < buffer_size[t]
                              /\ GetsOnce(queue'[t], next_event, d)
                         ELSE meant => total_count'[t] >= buffer_size[t]
  BY Zenon DEF SentToAll
<1>1. queue' = b.queue /\ total_count' = b.count
  BY DEF Commit
<1>2. d = ev.delivery
  BY <1>1, Zenon DEF Sent, AsSent
<1>3. \A t : Passes(t, [delivery |-> d]) <=> Passes(t, ev)
  BY <1>2 DEF Passes
<1>4. ASSUME NEW t \in Tasks
      PROVE  LET meant == t \in targets \cap alive /\ Passes(t, [delivery |-> d])
             IN IF Gets(queue'[t], next_event, d)
                THEN /\ meant /\ total_count[t] < buffer_size[t]
                     /\ GetsOnce(queue'[t], next_event, d)
                ELSE meant => total_count'[t] >= buffer_size[t]
  <2>1. /\ t \in targets => Served(queue'[t], total_count'[t], t, ev)
        /\ t \notin targets => ~Gets(queue'[t], next_event, d)
    BY <1>1, <1>2, Zenon DEF Sent, Waits
  <2>2. CASE t \in targets
    BY <1>2, <1>3, <2>1, <2>2, Zenon DEF Served, Willing
  <2>3. CASE t \notin targets
    BY <2>1, <2>3, Zenon
  <2>4. QED BY <2>2, <2>3, Zenon
<1>5. QED BY <1>2, <1>4, Zenon

-----------------------------------------------------------------------------
(* Every call keeps the invariant and serves its audience. *)
LEMMA EventIs ==
  ASSUME NEW n \in Nat, NEW d \in {"direct", "group", "broadcast", "channel"},
         NEW from \in Tasks, NEW p \in Priority, NEW kill \in BOOLEAN
  PROVE  LET ev == Event(n, d, from, p, kill)
         IN ev \in EventRecord /\ ev.id = n /\ ev.delivery = d /\ ev.priority = p
BY DEF Event, EventRecord

(* A queue in which nothing has the number n. *)
LEMMA NotYetSent ==
  ASSUME IInv, NEW t \in Tasks, NEW d
  PROVE  ~Gets(queue[t], next_event, d) /\ queue[t] \in Queues
<1>1. /\ Settings /\ BoxOk(Box) /\ next_event \in Nat /\ queue \in [Tasks -> Queues]
      /\ \A p \in Priority : Sorted(queue[t][p], last[t][p], next_event)
  BY BoxIs DEF IInv, BoxOk
<1>2. ASSUME NEW p \in Priority, NEW i \in 1 .. Len(queue[t][p])
      PROVE  queue[t][p][i].id # next_event
  <2>1. queue[t][p] \in Seq(EventRecord)
    BY <1>1 DEF Queues
  <2>2. queue[t][p][i].id \in Nat
    BY <2>1, QueuedHasId
  <2>3. queue[t][p][i].id < next_event
    BY <1>1 DEF Sorted
  <2>4. QED BY <1>1, <2>2, <2>3
<1>3. QED BY <1>1, <1>2 DEF Gets, IsCopy

(* A direct event, or the notice that reports its failure, is no event of  *)
(* a group or channel.                                                     *)
LEMMA DirectIsDirect ==
  ASSUME IInv, NEW t \in Tasks, NEW ev \in EventRecord, NEW d,
         ev.id # next_event \/ ev.delivery # d,
         queue' = AllWith(queue, t, ev)
  PROVE  \A x \in Tasks : ~Gets(queue'[x], next_event, d)
<1>1. queue \in [Tasks -> Queues]
  BY BoxIs DEF IInv, BoxOk
<1>2. queue'[t] = With(queue[t], ev) /\ \A x \in Tasks : x # t => queue'[x] = queue[x]
  BY <1>1 DEF AllWith
<1>3. ~Gets(With(queue[t], ev), next_event, d)
  BY NotYetSent, GetsWithOther, Zenon
<1>4. QED BY <1>2, <1>3, NotYetSent, Zenon

LEMMA SendDirectKeeps ==
  ASSUME IInv, NEW t \in Tasks, NEW target \in Tasks, NEW priority \in Priority,
         NEW kill \in BOOLEAN, SendDirect(t, target, priority, kill)
  PROVE  IInv' /\ SentToAll
<1> DEFINE direct == "direct"
           ev == Event(next_event, direct, t, priority, kill)
           b == DeliverOrReport(Numbered, target, ev)
           n == Notice(Numbered, ev)
<1>1. Settings /\ BoxOk(Box) /\ next_event \in Nat
  BY BoxIs DEF IInv, BoxOk
<1>2. ev \in EventRecord /\ ev.id = next_event /\ ev.delivery = direct
  BY <1>1, EventIs
<1>3. Commit(b) /\ UNCHANGED DeliveryUnchanged
  BY Zenon DEF SendDirect
<1>4. \A d \in {"group", "broadcast", "channel"} : d # direct
  OBVIOUS
<1> HIDE DEF ev, direct
<1>5. /\ BoxOk(Numbered) /\ Numbered.next = next_event + 1
      /\ Numbered.queue = queue /\ Sent(Numbered, ev, {})
      /\ last[target][ev.priority] < ev.id
  BY <1>1, <1>2, NobodyHasIt
<1>6. BoxOk(b)
  <2>1. Fresh(Numbered.queue[target], ev)
    BY <1>5, Zenon DEF Sent, Waits
  <2>2. ev.id < Numbered.next
    BY <1>1, <1>2, <1>5
  <2>3. BoxOk(DeliverToTask(Numbered, target, ev))
    BY <1>1, <1>2, <1>5, <2>1, <2>2, DeliverOk
  <2>4. BoxOk(HandleFailure(Numbered, ev))
    BY <1>1, <1>2, <1>5, HandleFailureOk
  <2>5. QED BY <2>3, <2>4, Zenon DEF DeliverOrReport
<1>7. IInv'
  BY <1>3, <1>6, DeliveryKeeps
<1>8. \/ queue' = queue
      \/ queue' = AllWith(queue, target, ev)
      \/ queue' = AllWith(queue, ev.from, n)
  <2>1. queue' = b.queue
    BY <1>3 DEF Commit
  <2>2. b \in {Enqueue(Numbered, target, ev), Numbered, Counted(Numbered),
               Enqueue(Counted(Numbered), ev.from, n)}
    BY Zenon DEF DeliverOrReport, DeliverToTask, HandleFailure, n, Notice
  <2>3. /\ Enqueue(Numbered, target, ev).queue = AllWith(queue, target, ev)
        /\ Enqueue(Counted(Numbered), ev.from, n).queue = AllWith(queue, ev.from, n)
        /\ Counted(Numbered).queue = queue
    <3>1. Counted(Numbered).queue = queue
      BY <1>1, <1>5, CountedOk
    <3> HIDE DEF n
    <3>2. Enqueue(Numbered, target, ev).queue = AllWith(Numbered.queue, target, ev)
      BY EnqueueIs
    <3>3. Enqueue(Counted(Numbered), ev.from, n).queue = AllWith(Counted(Numbered).queue, ev.from, n)
      BY EnqueueIs
    <3>4. QED BY <1>5, <3>1, <3>2, <3>3, Zenon
  <2> HIDE DEF b, n
  <2>4. QED BY <1>5, <2>1, <2>2, <2>3, Zenon
<1>9. /\ n \in EventRecord /\ n.id # next_event /\ ev.from \in Tasks
  <2>1. Numbered.next \in Nat
    BY <1>1, <1>5
  <2>2. n \in EventRecord /\ n.id = Numbered.next /\ ev.from \in Tasks
    BY <1>2, <2>1, NoticeIs
  <2>3. QED BY <1>1, <1>5, <2>2
<1> HIDE DEF n
<1>10. ASSUME NEW d \in {"group", "broadcast", "channel"}, NEW x \in Tasks
       PROVE  ~Gets(queue'[x], next_event, d)
  <2>1. CASE queue' = queue
    BY <2>1, NotYetSent, Zenon
  <2>2. CASE queue' = AllWith(queue, target, ev)
    BY <1>2, <1>4, <2>2, DirectIsDirect, Zenon
  <2>3. CASE queue' = AllWith(queue, ev.from, n)
    BY <1>9, <2>3, DirectIsDirect, Zenon
  <2>4. QED BY <1>8, <2>1, <2>2, <2>3
<1>11. SentToAll
  BY <1>10, Zenon DEF SentToAll
<1>12. QED BY <1>7, <1>11

(* An event to several tasks. *)
LEMMA SendAllKeeps ==
  ASSUME IInv, NEW targets \in SUBSET Tasks, NEW ev \in EventRecord, ev.id = next_event,
         ev.priority # 1, targets \in Audiences(ev.delivery),
         SendAll(targets, ev), UNCHANGED DeliveryUnchanged
  PROVE  IInv' /\ SentToAll
<1>1. Settings /\ BoxOk(Box)
  BY DEF IInv
<1>2. IsFiniteSet(targets)
  BY EventsAssumption, FS_Subset
<1>3. PICK order \in SetToSeqs(targets) :
        Commit(Sending!Iterate([ev |-> ev, box |-> Numbered], order).box)
  BY Zenon DEF SendAll
<1> DEFINE b == Sending!Iterate([ev |-> ev, box |-> Numbered], order).box
<1>4. BoxOk(b) /\ Sent(b, ev, targets)
  BY <1>1, <1>2, SendAllServes
<1>5. Commit(b)
  BY <1>3
<1> HIDE DEF b
<1>6. IInv'
  BY <1>4, <1>5, DeliveryKeeps
<1>7. SentToAll
  BY <1>4, <1>5, DeliveryReaches
<1>8. QED BY <1>6, <1>7

LEMMA SendGroupKeeps ==
  ASSUME IInv, NEW t \in Tasks, SendGroup(t, 2)
  PROVE  IInv' /\ SentToAll
<1> DEFINE group == "group"
           kill == FALSE
           ev == Event(next_event, group, t, 2, kill)
<1>1. next_event \in Nat /\ groups \subseteq Tasks
  BY BoxIs DEF IInv, BoxOk, Settings
<1>2. ev \in EventRecord /\ ev.id = next_event /\ ev.delivery = group /\ ev.priority # 1
  BY <1>1 DEF Event, EventRecord, Priority
<1>3. SendAll(groups, ev) /\ UNCHANGED DeliveryUnchanged
  BY Zenon DEF SendGroup, Members
<1>4. groups \in Audiences(group)
  BY DEF Audiences
<1> HIDE DEF group, kill, ev
<1>5. QED BY <1>1, <1>2, <1>3, <1>4, SendAllKeeps

LEMMA BroadcastKeeps ==
  ASSUME IInv, NEW t \in Tasks, Broadcast(t, 2)
  PROVE  IInv' /\ SentToAll
<1> DEFINE broadcast == "broadcast"
           kill == FALSE
           ev == Event(next_event, broadcast, t, 2, kill)
<1>1. next_event \in Nat /\ alive \subseteq Tasks
  BY BoxIs DEF IInv, BoxOk, Settings
<1>2. ev \in EventRecord /\ ev.id = next_event /\ ev.delivery = broadcast /\ ev.priority # 1
  BY <1>1 DEF Event, EventRecord, Priority
<1>3. SendAll(alive, ev) /\ UNCHANGED DeliveryUnchanged
  BY Zenon DEF Broadcast
<1>4. alive \in Audiences(broadcast)
  BY DEF Audiences
<1> HIDE DEF broadcast, kill, ev
<1>5. QED BY <1>1, <1>2, <1>3, <1>4, SendAllKeeps

LEMMA PublishKeeps ==
  ASSUME IInv, NEW t \in Tasks, NEW s \in 1 .. Slots, Publish(t, s)
  PROVE  IInv' /\ SentToAll
<1> DEFINE channel == "channel"
           kill == FALSE
           ev == Event(next_event, channel, t, 2, kill)
           c == handles[t][s].channel
<1>1. next_event \in Nat /\ Settings /\ BoxOk(Box) /\ ChannelsKept
  BY BoxIs DEF IInv, BoxOk
<1>2. ev \in EventRecord /\ ev.id = next_event /\ ev.delivery = channel /\ ev.priority # 1
  BY <1>1 DEF Event, EventRecord, Priority
<1>3. c \in channels /\ c \in Channels
  BY <1>1 DEF Publish, ChannelsKept
<1>4. subscriptions[c] \in Audiences(channel) /\ subscriptions[c] \in SUBSET Tasks
  BY <1>1, <1>3 DEF Audiences, Settings
<1>5. IsFiniteSet(subscriptions[c])
  BY <1>4, EventsAssumption, FS_Subset
<1>6. PICK order \in SetToSeqs(subscriptions[c]) :
        Commit(Publishing!Iterate([ev |-> ev, box |-> Numbered], order).box)
  BY Zenon DEF Publish
<1>7. UNCHANGED DeliveryUnchanged
  BY Zenon DEF Publish
<1> HIDE DEF channel, kill, ev
<1> DEFINE b == Publishing!Iterate([ev |-> ev, box |-> Numbered], order).box
<1>8. BoxOk(b) /\ Sent(b, ev, subscriptions[c])
  BY <1>1, <1>2, <1>4, <1>5, PublishServes, Zenon
<1>9. Commit(b)
  BY <1>6
<1> HIDE DEF b, c
<1>10. IInv'
  BY <1>7, <1>8, <1>9, DeliveryKeeps
<1>11. SentToAll
  BY <1>2, <1>4, <1>8, <1>9, DeliveryReaches
<1>12. QED BY <1>10, <1>11

(* The queues, their counters and what has been handled stay as they are. *)
LEMMA QueuesUnchanged ==
  ASSUME IInv, UNCHANGED <<queue, total_count, next_event, last>>
  PROVE  BoxOk(Box)' /\ SentToAll /\ total_count' \in [Tasks -> Int]
         /\ last' \in [Tasks -> [Priority -> Nat]]
<1>1. BoxOk(Box)'
  BY DEF IInv, BoxOk, Box
<1>2. QED BY <1>1, SilentReaches DEF IInv, Settings

(* The handles of a task when one more object is inserted. *)
LEMMA InsertKeeps ==
  ASSUME IInv, NEW t \in Tasks, NEW object \in Objects, InsertHandle(t, object),
         channels \subseteq channels', channels' \subseteq Channels,
         object.kind = "channel" => object.channel \in channels'
  PROVE  ChannelsKept'
<1>1. handles \in [Tasks -> [1 .. Slots -> Objects]]
  BY DEF IInv, ChannelsKept
<1>2. \A x \in Tasks, s \in 1 .. Slots :
        handles[x][s].kind = "channel" => handles[x][s].channel \in channels'
  BY DEF IInv, ChannelsKept
<1>3. CASE FreeSlots(t) = {}
  <2>1. handles' = handles
    BY <1>3 DEF InsertHandle
  <2>2. QED BY <1>1, <1>2, <2>1 DEF ChannelsKept
<1>4. CASE FreeSlots(t) # {}
  <2> DEFINE f == Min(FreeSlots(t))
  <2>1. handles' = [handles EXCEPT ![t][f] = object]
    BY <1>4 DEF InsertHandle
  <2> HIDE DEF f
  <2>2. handles' \in [Tasks -> [1 .. Slots -> Objects]]
    BY <1>1, <2>1, Zenon
  <2>3. \A x \in Tasks, s \in 1 .. Slots : handles'[x][s] = object \/ handles'[x][s] = handles[x][s]
    BY <1>1, <2>1
  <2>4. QED BY <1>2, <2>2, <2>3 DEF ChannelsKept
<1>5. QED BY <1>3, <1>4

LEMMA CreateChannelKeeps ==
  ASSUME IInv, NEW t \in Tasks, NEW c \in Channels, CreateChannel(t, c)
  PROVE  IInv' /\ SentToAll
<1>1. BoxOk(Box)' /\ SentToAll
  BY QueuesUnchanged DEF CreateChannel, CallUnchanged
<1>2. Settings'
  BY DEF IInv, Settings, CreateChannel, CallUnchanged
<1>3. ChannelObject(c) \in Objects /\ ChannelObject(c).channel = c
  BY DEF ChannelObject, Objects
<1>4. channels' = channels \cup {c} /\ channels \subseteq Channels
  BY DEF CreateChannel, IInv, ChannelsKept
<1>5. InsertHandle(t, ChannelObject(c))
  BY Zenon DEF CreateChannel
<1>6. ChannelsKept'
  BY <1>3, <1>4, <1>5, InsertKeeps
<1>7. QED BY <1>1, <1>2, <1>6 DEF IInv

LEMMA SubscribeKeeps ==
  ASSUME IInv, NEW t \in Tasks, NEW c \in Channels, Subscribe(t, c)
  PROVE  IInv' /\ SentToAll
<1>1. BoxOk(Box)' /\ SentToAll
  BY QueuesUnchanged DEF Subscribe, CallUnchanged
<1>2. Settings'
  BY DEF IInv, Settings, Subscribe, CallUnchanged
<1>3. SubscriptionObject(c, t) \in Objects /\ SubscriptionObject(c, t).kind # "channel"
  BY DEF SubscriptionObject, Objects
<1>4. channels' = channels \cup {c} /\ channels \subseteq Channels
  BY DEF Subscribe, FoundOrCreated, IInv, ChannelsKept
<1>5. InsertHandle(t, SubscriptionObject(c, t))
  BY Zenon DEF Subscribe
<1>6. ChannelsKept'
  BY <1>3, <1>4, <1>5, InsertKeeps
<1>7. QED BY <1>1, <1>2, <1>6 DEF IInv

(* The handles of a task when one is closed. *)
LEMMA CloseKeeps ==
  ASSUME IInv, NEW t \in Tasks, NEW s \in 1 .. Slots, UNCHANGED channels,
         handles' = [handles EXCEPT ![t][s] = Empty]
  PROVE  ChannelsKept'
<1>1. handles \in [Tasks -> [1 .. Slots -> Objects]]
  BY DEF IInv, ChannelsKept
<1>2. Empty \in Objects /\ Empty.kind # "channel"
  BY DEF Empty, Objects
<1>3. handles' \in [Tasks -> [1 .. Slots -> Objects]]
  BY <1>1, <1>2
<1>4. \A x \in Tasks, i \in 1 .. Slots : handles'[x][i] = Empty \/ handles'[x][i] = handles[x][i]
  BY <1>1
<1>5. QED BY <1>2, <1>3, <1>4 DEF IInv, ChannelsKept

LEMMA UnsubscribeKeeps ==
  ASSUME IInv, NEW t \in Tasks, NEW s \in 1 .. Slots, Unsubscribe(t, s)
  PROVE  IInv' /\ SentToAll
<1>1. BoxOk(Box)' /\ SentToAll
  BY QueuesUnchanged DEF Unsubscribe, CallUnchanged
<1>2. subscriptions' \in [Channels -> SUBSET Tasks]
  BY Zenon DEF IInv, Settings, Unsubscribe, Unregistered
<1>3. Settings'
  BY <1>2 DEF IInv, Settings, Unsubscribe, CallUnchanged
<1>4. ChannelsKept'
  BY CloseKeeps, Zenon DEF Unsubscribe
<1>5. QED BY <1>1, <1>3, <1>4 DEF IInv

LEMMA CloseHandleKeeps ==
  ASSUME IInv, NEW t \in Tasks, NEW s \in 1 .. Slots, CloseHandle(t, s)
  PROVE  IInv' /\ SentToAll
<1>1. BoxOk(Box)' /\ SentToAll
  BY QueuesUnchanged DEF CloseHandle, CallUnchanged
<1>2. Settings'
  BY DEF IInv, Settings, CloseHandle, CallUnchanged
<1>3. ChannelsKept'
  BY CloseKeeps, Zenon DEF CloseHandle
<1>4. QED BY <1>1, <1>2, <1>3 DEF IInv

LEMMA ExitKeeps ==
  ASSUME IInv, NEW t \in Tasks, Exit(t)
  PROVE  IInv' /\ SentToAll
<1>1. BoxOk(Box)' /\ SentToAll
  BY QueuesUnchanged DEF Exit
<1>2. Settings'
  BY DEF IInv, Settings, Exit
<1>3. ChannelsKept'
  <2> DEFINE none == [s \in 1 .. Slots |-> Empty]
  <2>1. Empty \in Objects /\ Empty.kind # "channel"
    BY DEF Empty, Objects
  <2>2. handles \in [Tasks -> [1 .. Slots -> Objects]]
    BY DEF IInv, ChannelsKept
  <2>3. handles' = [handles EXCEPT ![t] = none]
    BY DEF Exit
  <2>4. handles' \in [Tasks -> [1 .. Slots -> Objects]]
    BY <2>1, <2>2, <2>3
  <2>5. \A x \in Tasks, i \in 1 .. Slots : handles'[x][i] = Empty \/ handles'[x][i] = handles[x][i]
    BY <2>2, <2>3
  <2>6. channels' = channels
    BY DEF Exit
  <2>7. QED BY <2>1, <2>4, <2>5, <2>6 DEF IInv, ChannelsKept
<1>4. QED BY <1>1, <1>2, <1>3 DEF IInv

(* The settings of a task. *)
LEMMA SettingsKeep ==
  ASSUME IInv, NEW t \in Tasks,
         \/ JoinGroup(t) \/ LeaveGroup(t)
         \/ \E fs \in SUBSET Filters : SetFilters(t, fs)
         \/ \E size \in Sizes, policy \in BOOLEAN : ConfigureDelivery(t, size, policy)
         \/ \E on \in BOOLEAN : EnableEvents(t, on)
  PROVE  IInv' /\ SentToAll
<1> USE DEF JoinGroup, LeaveGroup, SetFilters, ConfigureDelivery, EnableEvents
<1>1. UNCHANGED <<alive, handles, channels, subscriptions, queue, total_count, next_event, last>>
  OBVIOUS
<1>2. groups' \subseteq Tasks
  BY DEF IInv, Settings
<1>3. buffer_size' \in [Tasks -> Nat]
  BY EventsAssumption DEF IInv, Settings
<1>4. BoxOk(Box)' /\ SentToAll
  BY <1>1, QueuesUnchanged
<1>5. Settings'
  BY <1>1, <1>2, <1>3 DEF IInv, Settings
<1>6. ChannelsKept'
  BY <1>1 DEF IInv, ChannelsKept
<1>7. QED BY <1>4, <1>5, <1>6 DEF IInv

-----------------------------------------------------------------------------
(* A batch takes the events of a priority from the front of their queue. *)
LEMMA BatchIsNatural ==
  ASSUME NEW q \in Queues
  PROVE  BatchSize(InOrder(q)) \in Nat
<1> DEFINE evs == InOrder(q)
           S == {MaxBatch, Len(evs)} \cup {i \in 1 .. Len(evs) : Critical(evs[i])}
<1>1. q[4] \in Seq(EventRecord) /\ q[3] \in Seq(EventRecord)
      /\ q[2] \in Seq(EventRecord) /\ q[1] \in Seq(EventRecord)
  BY DEF Queues, Priority
<1>2. evs \in Seq(EventRecord)
  BY <1>1 DEF InOrder
<1> HIDE DEF evs
<1>3. S \in SUBSET Nat /\ S # {}
  BY <1>2, EventsAssumption
<1> HIDE DEF S
<1>4. \E k \in S : \A m \in S : k <= m
  BY <1>3, LeastNatural
<1>5. Min(S) \in S
  BY <1>4 DEF Min
<1>6. Min(S) \in Nat
  BY <1>3, <1>5, Zenon
<1>7. QED BY <1>6 DEF BatchSize, S, evs

LEMMA TakenIs ==
  ASSUME NEW q \in Queues, NEW k \in Nat, NEW p \in Priority
  PROVE  Taken(q, k, p) \in 0 .. Len(q[p])
<1>1. \A r \in Priority : q[r] \in Seq(EventRecord) /\ Len(q[r]) \in Nat
  BY DEF Queues
<1>2. Ahead(q)[p] \in Int
  <2>1. Len(q[4]) \in Nat /\ Len(q[3]) \in Nat /\ Len(q[2]) \in Nat
    BY <1>1 DEF Priority
  <2>2. p = 1 \/ p = 2 \/ p = 3 \/ p = 4
    BY DEF Priority
  <2>3. /\ Ahead(q)[1] = Len(q[4]) + Len(q[3]) + Len(q[2])
        /\ Ahead(q)[2] = Len(q[4]) + Len(q[3])
        /\ Ahead(q)[3] = Len(q[4]) /\ Ahead(q)[4] = 0
    BY DEF Ahead
  <2>4. Ahead(q)[1] \in Int /\ Ahead(q)[2] \in Int /\ Ahead(q)[3] \in Int /\ Ahead(q)[4] \in Int
    BY <2>1, <2>3
  <2>5. QED BY <2>2, <2>4, Zenon
<1>3. QED BY <1>1, <1>2 DEF Taken

LEMMA DispatchKeeps ==
  ASSUME IInv, NEW t \in Tasks, ProcessPendingEvents(t)
  PROVE  IInv' /\ SentToAll
<1> DEFINE q == queue[t]
           k == BatchSize(InOrder(q))
<1>1. /\ Settings /\ ChannelsKept /\ BoxOk(Box) /\ next_event \in Nat
      /\ queue \in [Tasks -> Queues] /\ total_count \in [Tasks -> Int]
      /\ last \in [Tasks -> [Priority -> Nat]]
      /\ \A x \in Tasks, p \in Priority :
           Sorted(queue[x][p], last[x][p], next_event) /\ last[x][p] < next_event
  BY BoxIs, Zenon DEF IInv, BoxOk, Settings
<1>2. q \in Queues /\ k \in Nat
  BY <1>1, BatchIsNatural
<1>3. /\ queue' = [queue EXCEPT ![t] = Remaining(q, k)]
      /\ total_count' = [total_count EXCEPT ![t] = @ - k]
      /\ last' = [last EXCEPT ![t] = LastHandled(q, k, last[t])]
  BY Zenon DEF ProcessPendingEvents
<1>4. UNCHANGED <<alive, handles, channels, subscriptions, groups, buffer_size, next_event>>
  BY DEF ProcessPendingEvents
<1> HIDE DEF k
<1>5. ASSUME NEW p \in Priority
      PROVE  /\ Remaining(q, k)[p] \in Seq(EventRecord)
             /\ LastHandled(q, k, last[t])[p] \in Nat
             /\ LastHandled(q, k, last[t])[p] < next_event
             /\ Sorted(Remaining(q, k)[p], LastHandled(q, k, last[t])[p], next_event)
  <2> DEFINE s == q[p]
             n == Taken(q, k, p)
             l == last[t][p]
  <2>1. s \in Seq(EventRecord) /\ n \in 0 .. Len(s) /\ l \in Nat /\ l < next_event
        /\ Sorted(s, l, next_event)
    BY <1>1, <1>2, TakenIs, Zenon DEF Queues
  <2>2. /\ Remaining(q, k)[p] = SubSeq(s, n + 1, Len(s))
        /\ LastHandled(q, k, last[t])[p] = IF n = 0 THEN l ELSE s[n].id
    BY Zenon DEF Remaining, LastHandled
  <2> HIDE DEF s, n, l, q
  <2>3. /\ SubSeq(s, n + 1, Len(s)) \in Seq(EventRecord)
        /\ Sorted(SubSeq(s, n + 1, Len(s)), IF n = 0 THEN l ELSE s[n].id, next_event)
    BY <1>1, <2>1, SortedSuffix
  <2>4. (IF n = 0 THEN l ELSE s[n].id) \in Nat /\ (IF n = 0 THEN l ELSE s[n].id) < next_event
    <3>1. CASE n = 0
      BY <2>1, <3>1
    <3>2. CASE n # 0
      <4>1. n \in 1 .. Len(s)
        BY <2>1, <3>2
      <4>2. s[n].id \in Nat /\ s[n].id < next_event
        BY <2>1, <4>1, QueuedHasId DEF Sorted
      <4>3. QED BY <3>2, <4>2
    <3>3. QED BY <3>1, <3>2
  <2>5. QED BY <2>2, <2>3, <2>4, Zenon
<1> HIDE DEF q
<1>6. Remaining(q, k) \in Queues /\ LastHandled(q, k, last[t]) \in [Priority -> Nat]
  <2>1. Remaining(q, k) \in Queues
    BY <1>5 DEF Queues, Remaining
  <2>2. LastHandled(q, k, last[t]) \in [Priority -> Nat]
    BY <1>5, Zenon DEF LastHandled
  <2>3. QED BY <2>1, <2>2
<1>7. /\ queue' \in [Tasks -> Queues] /\ queue'[t] = Remaining(q, k)
      /\ total_count' \in [Tasks -> Int]
      /\ last' \in [Tasks -> [Priority -> Nat]] /\ last'[t] = LastHandled(q, k, last[t])
      /\ \A x \in Tasks : x # t => queue'[x] = queue[x] /\ last'[x] = last[x]
  BY <1>1, <1>2, <1>3, <1>6
<1>8. \A x \in Tasks, p \in Priority :
        Sorted(queue'[x][p], last'[x][p], next_event') /\ last'[x][p] < next_event'
  <2>1. \A p \in Priority :
          Sorted(queue'[t][p], last'[t][p], next_event') /\ last'[t][p] < next_event'
    BY <1>4, <1>5, <1>7, Zenon
  <2>2. \A x \in Tasks, p \in Priority : x # t =>
          Sorted(queue'[x][p], last'[x][p], next_event') /\ last'[x][p] < next_event'
    BY <1>1, <1>4, <1>7
  <2>3. QED BY <2>1, <2>2
<1>9. BoxOk(Box)'
  BY <1>1, <1>4, <1>7, <1>8, BoxIs, Zenon DEF BoxOk
<1>10. Settings'
  BY <1>1, <1>4, <1>7 DEF Settings
<1>11. ChannelsKept'
  BY <1>1, <1>4 DEF ChannelsKept
<1>12. QED BY <1>4, <1>9, <1>10, <1>11, SilentReaches DEF IInv

-----------------------------------------------------------------------------
LEMMA NextKeeps ==
  ASSUME IInv, [Next]_vars
  PROVE  IInv' /\ [SentToAll]_vars
<1>1. ASSUME NEW t \in Tasks, Direct(t)
      PROVE  IInv' /\ SentToAll
  <2>1. ASSUME NEW target \in Tasks, NEW p \in Urgencies, NEW kill \in BOOLEAN,
               SendDirect(t, target, p, kill)
        PROVE  IInv' /\ SentToAll
    <3>1. p \in Priority
      BY EventsAssumption DEF Priority
    <3>2. QED BY <2>1, <3>1, SendDirectKeeps
  <2>2. \/ \E target \in Tasks, p \in Urgencies, kill \in BOOLEAN :
            SendDirect(t, target, p, kill)
        \/ \E size \in Sizes, policy \in BOOLEAN : ConfigureDelivery(t, size, policy)
        \/ \E on \in BOOLEAN : EnableEvents(t, on)
    BY <1>1, Zenon DEF Direct
  <2>3. QED BY <2>1, <2>2, SettingsKeep, Zenon
<1>2. ASSUME NEW t \in Tasks, Group(t)
      PROVE  IInv' /\ SentToAll
  <2>1. ASSUME NEW target \in Tasks, SendDirect(t, target, 2, FALSE)
        PROVE  IInv' /\ SentToAll
    <3> DEFINE kill == FALSE
    <3>1. SendDirect(t, target, 2, kill)
      BY <2>1, Zenon
    <3>2. kill \in BOOLEAN
      OBVIOUS
    <3>3. 2 \in Priority
      BY DEF Priority
    <3> HIDE DEF kill
    <3>4. QED BY <3>1, <3>2, <3>3, SendDirectKeeps
  <2>2. ASSUME NEW size \in Sizes, ConfigureDelivery(t, size, TRUE)
        PROVE  IInv' /\ SentToAll
    <3>1. \E policy \in BOOLEAN : ConfigureDelivery(t, size, policy)
      BY <2>2, Zenon
    <3>2. QED BY <3>1, SettingsKeep, Zenon
  <2>3. CASE SendGroup(t, 2)
    BY <2>3, SendGroupKeeps
  <2>4. CASE Broadcast(t, 2)
    BY <2>4, BroadcastKeeps
  <2>5. CASE JoinGroup(t) \/ LeaveGroup(t) \/ \E fs \in SUBSET Filters : SetFilters(t, fs)
    BY <2>5, SettingsKeep, Zenon
  <2>6. QED BY <1>2, <2>1, <2>2, <2>3, <2>4, <2>5, Zenon DEF Group
<1>3. ASSUME NEW t \in Tasks, Channel(t)
      PROVE  IInv' /\ SentToAll
  <2>1. ASSUME NEW c \in Channels, CreateChannel(t, c) \/ Subscribe(t, c)
        PROVE  IInv' /\ SentToAll
    BY <2>1, CreateChannelKeeps, SubscribeKeeps, Zenon
  <2>2. ASSUME NEW s \in 1 .. Slots, Publish(t, s) \/ Unsubscribe(t, s) \/ CloseHandle(t, s)
        PROVE  IInv' /\ SentToAll
    BY <2>2, PublishKeeps, UnsubscribeKeeps, CloseHandleKeeps, Zenon
  <2>3. CASE Exit(t)
    BY <2>3, ExitKeeps
  <2>4. QED BY <1>3, <2>1, <2>2, <2>3, Zenon DEF Channel
<1>4. ASSUME NEW t \in Tasks, Call(t)
      PROVE  IInv' /\ SentToAll
  BY <1>1, <1>2, <1>3, <1>4, Zenon DEF Call, Calls
<1>5. ASSUME NEW t \in Tasks, Dispatch(t)
      PROVE  IInv' /\ SentToAll
  BY <1>5, DispatchKeeps, Zenon DEF Dispatch
<1>6. CASE UNCHANGED vars
  <2>1. UNCHANGED <<alive, handles, channels, subscriptions, groups, buffer_size,
                    queue, total_count, next_event, last>>
    BY <1>6 DEF vars
  <2>2. BoxOk(Box)'
    BY <2>1, QueuesUnchanged
  <2>3. Settings'
    BY <2>1 DEF IInv, Settings
  <2>4. ChannelsKept'
    BY <2>1 DEF IInv, ChannelsKept
  <2>5. QED BY <1>6, <2>2, <2>3, <2>4, Zenon DEF IInv
<1>7. QED BY <1>4, <1>5, <1>6, Zenon DEF Next, Over

(* The queues of the tasks are in order, and what a handle of a channel    *)
(* names exists.                                                           *)
THEOREM EventsAreInvariant == Spec => []IInv
<1>1. IInv /\ [Next]_vars => IInv'
  BY NextKeeps
<1>2. QED BY InitOk, <1>1, PTL DEF Spec

(* Task::process_pending_events handles the events of one priority in the  *)
(* order send_event numbered them, each once, for any tasks, batch and     *)
(* buffer sizes and whatever else they call.                               *)
THEOREM HandledInOrder == Spec => []FifoPerPriority
<1>1. IInv => FifoPerPriority
  <2> SUFFICES ASSUME IInv, NEW t \in Tasks, NEW p \in Priority
               PROVE  /\ \A i \in 1 .. Len(queue[t][p]) : queue[t][p][i].id > last[t][p]
                      /\ \A i, j \in 1 .. Len(queue[t][p]) :
                           i < j => queue[t][p][i].id < queue[t][p][j].id
    BY DEF FifoPerPriority
  <2>1. Sorted(queue[t][p], last[t][p], next_event)
    BY BoxIs DEF IInv, BoxOk
  <2>2. QED BY <2>1 DEF Sorted
<1>2. QED BY <1>1, EventsAreInvariant, PTL

(* deliver_to_group, deliver_broadcast and broadcast_to_subscribers reach  *)
(* every member, task or subscriber that has room, for any number of them  *)
(* and in any order, although failures are reported in between.            *)
THEOREM AudienceIsReached == Spec => ReachesAudience
<1>1. IInv /\ [Next]_vars => [SentToAll]_vars
  BY NextKeeps
<1>2. QED BY <1>1, EventsAreInvariant, PTL DEF Spec, ReachesAudience
=============================================================================
