-------------------------- MODULE PduSessionProofs --------------------------
(* For every set of sessions and HTTP threads and every bound: a transfer   *)
(* from the SMF is in one place until it is settled, it is sent to the gNB  *)
(* at most once, those of one thread in their order, and the gNB's answer   *)
(* stays in its SM context.                                                 *)
EXTENDS PduSession, FiniteSetTheorems, TLAPS

\* The way of a transfer is a line of five lanes: the HTTP threads (4), the
\* queues of TASK_AMF_APP (3), TASK_AMF_N1 (2) and TASK_AMF_N2 (1), and the gNB
\* (0).  A lane holds transfers, and 0 where there is something else.
Stages == 0..4
Counted(t) == {"transfer", "downlink"} \cup IF t = "app" THEN {"paging"} ELSE {}
Num(t, m) == IF m.what \in Counted(t) THEN m.n ELSE 0
Lane(t, q) == [k \in 1..Len(q) |-> Num(t, q[k])]
Line(q, h, g) ==
    [s \in Stages |-> CASE s = 0 -> g
                        [] s = 1 -> Lane("n2", q["n2"])
                        [] s = 2 -> Lane("n1", q["n1"])
                        [] s = 3 -> Lane("app", q["app"])
                        [] OTHER -> h]

\* The places of lane s, and the transfer that L has at place k of it.
Slots(L, s) == IF s = 4 THEN Threads ELSE 1..Len(L[s])

\* Place k of lane s is further on the way than place l of lane r; the threads
\* are not ordered among themselves.
Before(s, k, r, l) == s < r \/ (s = r /\ s # 4 /\ k < l)

\* A transfer has one place, and of one source the earlier one is further on.
InOrder(L, tr) ==
    \A m, n \in 1..Len(tr) : \A s, r \in Stages : \A k \in Slots(L, s), l \in Slots(L, r) :
       L[s][k] = m /\ L[r][l] = n =>
          /\ m = n => s = r /\ k = l
          /\ m < n /\ tr[m].src = tr[n].src => Before(s, k, r, l)

\* A transfer is on its way as long as it is accepted and not settled.
OnItsWay(L, n) == \E s \in 1..4 : \E k \in Slots(L, s) : L[s][k] = n
Awaited(L, tr) == \A n \in 1..Len(tr) : tr[n].fate = "accepted" <=> OnItsWay(L, n)

Ordered == InOrder(Line(queue, storing, toGnb), transfers)
Kept    == Awaited(Line(queue, storing, toGnb), transfers)
-----------------------------------------------------------------------------
\* What the variables hold.
Whats(t) == CASE t = "app" -> {"transfer", "paging", "released"}
              [] t = "n1" -> {"create", "update", "downlink"}
              [] t = "n2" -> {"downlink", "paging"}
              [] OTHER -> {"create", "update"}
Messages == [what : {"create", "update", "transfer", "paging", "released", "downlink"},
             sid : Sids, n : Nat]
Fates == {"accepted", "unknown", "dropped", "paged", "unlinked", "bare", "sent",
          "answered", "refused"}
Transfers == [sid : Sids, kind : Kinds, ctx : {None} \cup 0..MaxContexts,
              src : Threads \cup {"sbi"}, fate : Fates]
Contexts == [sid : Sids, known : BOOLEAN, open : BOOLEAN]

SeqsOK ==
    /\ queue \in [Tasks -> Seq(Messages)] /\ transfers \in Seq(Transfers)
    /\ contexts \in Seq(Contexts) /\ Len(contexts) <= MaxContexts
    /\ toGnb \in Seq(Nat) /\ storing \in [Threads -> Nat]
    /\ location \in [Sids -> {None} \cup 0..Len(contexts)]
    /\ requested \in BOOLEAN /\ linked \in BOOLEAN /\ dead \in BOOLEAN
    /\ asks \in 0..MaxAsks

\* A message about a transfer names one that was accepted, and one of the UE
\* names none; what the gNB answers is for the session of the transfer.
MsgOK(tr, t, m) ==
    /\ m.what \in Whats(t)
    /\ m.n <= Len(tr)
    /\ m.what \in {"transfer", "paging", "downlink"} => m.n # 0
    /\ m.what = "create" => m.n = 0
    /\ m.what = "update" /\ t = "n1" => m.n = 0
    /\ m.what = "update" /\ m.n # 0 => tr[m.n].sid = m.sid
QueueOK(tr, t, q) == \A k \in 1..Len(q) : MsgOK(tr, t, q[k])
QueuesOK == \A t \in Tasks : QueueOK(transfers, t, queue[t])

\* A thread holds a transfer of its own; the gNB was sent what was accepted.
HeldOK(tr, h) ==
    \A x \in Threads : h[x] # 0 => h[x] <= Len(tr) /\ tr[h[x]].src = x
SentOK(tr, g) == \A i \in 1..Len(g) : g[i] \in 1..Len(tr)
HoldsOK == HeldOK(transfers, storing) /\ SentOK(transfers, toGnb)

\* TASK_AMF_SBI waits for a create request, whose context is the newest of all
\* once the SMF has made it, or for an update, if it is an answer of the gNB then
\* for the session of its transfer.
CallingOK ==
    calling # None =>
       /\ calling \in Messages /\ calling.what \in {"create", "update"}
       /\ calling.what = "create" /\ calling.n # 0 =>
             calling.n = Len(contexts) /\ contexts[calling.n].sid = calling.sid
       /\ calling.what = "update" => calling.n <= Len(transfers)
       /\ calling.what = "update" /\ calling.n # 0 => transfers[calling.n].sid = calling.sid

\* The Location a session keeps is that of its newest context among those the
\* AMF knows.
LocationsOK ==
    \A s \in Sids : location[s] \in 1..Len(contexts) =>
       /\ contexts[location[s]].sid = s
       /\ \A d \in 1..Len(contexts) :
             contexts[d].known /\ contexts[d].sid = s => d <= location[s]

\* A transfer comes from a context of its session.
TransfersOK ==
    \A n \in 1..Len(transfers) :
       /\ transfers[n].ctx \in {None} \cup 0..Len(contexts)
       /\ transfers[n].ctx \in 1..Len(contexts) =>
             contexts[transfers[n].ctx].sid = transfers[n].sid

\* The inductive invariant.
Inv ==
    /\ SeqsOK /\ QueuesOK /\ HoldsOK /\ CallingOK /\ LocationsOK /\ TransfersOK
    /\ Ordered /\ Kept
-----------------------------------------------------------------------------
(* Sequences and lanes.                                                    *)

\* a1 is a with v at its end, or without its first.
Appended(a, a1, v) ==
    /\ Len(a1) = Len(a) + 1 /\ a1[Len(a) + 1] = v
    /\ \A k \in 1..Len(a) : a1[k] = a[k]
Popped(a, a1) ==
    /\ Len(a) = Len(a1) + 1
    /\ \A k \in 1..Len(a1) : a1[k] = a[k + 1]

LEMMA AppendOf ==
    ASSUME NEW S, NEW s \in Seq(S), NEW e \in S
    PROVE  Append(s, e) \in Seq(S) /\ Appended(s, Append(s, e), e)
  BY SMTT(40) DEF Appended

LEMMA TailOf ==
    ASSUME NEW S, NEW s \in Seq(S), s # <<>>
    PROVE  /\ Tail(s) \in Seq(S) /\ Popped(s, Tail(s))
           /\ Head(s) = s[1] /\ 1 \in 1..Len(s)
  BY DEF Popped

\* What a lane of a queue holds follows the queue.
LEMMA LaneOf ==
    ASSUME NEW S, NEW t, NEW q \in Seq(S)
    PROVE  /\ Len(q) \in Nat /\ Len(Lane(t, q)) = Len(q)
           /\ \A k \in 1..Len(q) : Lane(t, q)[k] = Num(t, q[k])
<1>1. Len(q) \in Nat
  OBVIOUS
<1>2. Lane(t, q) \in Seq({Num(t, q[k]) : k \in 1..Len(q)}) /\ DOMAIN Lane(t, q) = 1..Len(q)
  BY <1>1 DEF Lane
<1>3. Len(Lane(t, q)) = Len(q)
  BY <1>1, <1>2
<1>. QED  BY <1>1, <1>3 DEF Lane

LEMMA LaneAppended ==
    ASSUME NEW S, NEW t, NEW q \in Seq(S), NEW m \in S
    PROVE  Appended(Lane(t, q), Lane(t, Append(q, m)), Num(t, m))
<1>. DEFINE q1 == Append(q, m)
<1>1. q1 \in Seq(S) /\ Appended(q, q1, m)
  BY AppendOf
<1>. HIDE DEF q1
<1>2. /\ Len(q) \in Nat /\ Len(Lane(t, q)) = Len(q)
      /\ \A k \in 1..Len(q) : Lane(t, q)[k] = Num(t, q[k])
  BY LaneOf
<1>3. /\ Len(q1) \in Nat /\ Len(Lane(t, q1)) = Len(q1)
      /\ \A k \in 1..Len(q1) : Lane(t, q1)[k] = Num(t, q1[k])
  BY <1>1, LaneOf
<1>4. Appended(Lane(t, q), Lane(t, q1), Num(t, m))
  BY <1>1, <1>2, <1>3 DEF Appended
<1>. QED  BY <1>4 DEF q1

LEMMA LanePopped ==
    ASSUME NEW S, NEW t, NEW q \in Seq(S), q # <<>>
    PROVE  /\ Popped(Lane(t, q), Lane(t, Tail(q)))
           /\ Lane(t, q)[1] = Num(t, Head(q))
<1>. DEFINE q1 == Tail(q)
<1>1. q1 \in Seq(S) /\ Popped(q, q1) /\ Head(q) = q[1] /\ 1 \in 1..Len(q)
  BY TailOf
<1>. HIDE DEF q1
<1>2. /\ Len(q) \in Nat /\ Len(Lane(t, q)) = Len(q)
      /\ \A k \in 1..Len(q) : Lane(t, q)[k] = Num(t, q[k])
  BY LaneOf
<1>3. /\ Len(q1) \in Nat /\ Len(Lane(t, q1)) = Len(q1)
      /\ \A k \in 1..Len(q1) : Lane(t, q1)[k] = Num(t, q1[k])
  BY <1>1, LaneOf
<1>4. Popped(Lane(t, q), Lane(t, q1))
  BY <1>1, <1>2, <1>3 DEF Popped
<1>. QED  BY <1>1, <1>2, <1>4 DEF q1

\* A line has five lanes.
LinesOK(L) == \A s \in 0..3 : Len(L[s]) \in Nat

LEMMA LineIs ==
    ASSUME NEW q, NEW h, NEW g
    PROVE  /\ Line(q, h, g)[0] = g /\ Line(q, h, g)[1] = Lane("n2", q["n2"])
           /\ Line(q, h, g)[2] = Lane("n1", q["n1"]) /\ Line(q, h, g)[3] = Lane("app", q["app"])
           /\ Line(q, h, g)[4] = h
  BY DEF Line, Stages

LEMMA LineTyped ==
    ASSUME NEW q \in [Tasks -> Seq(Messages)], NEW h, NEW g \in Seq(Nat)
    PROVE  LinesOK(Line(q, h, g))
<1>1. q["n2"] \in Seq(Messages) /\ q["n1"] \in Seq(Messages) /\ q["app"] \in Seq(Messages)
  BY DEF Tasks
<1>2. /\ Len(Lane("n2", q["n2"])) \in Nat /\ Len(Lane("n1", q["n1"])) \in Nat
      /\ Len(Lane("app", q["app"])) \in Nat /\ Len(g) \in Nat
  BY <1>1, LaneOf
<1>3. \A s \in 0..3 : s = 0 \/ s = 1 \/ s = 2 \/ s = 3
  OBVIOUS
<1>. QED  BY <1>2, <1>3, LineIs DEF LinesOK
-----------------------------------------------------------------------------
(* The steps of a line.                                                    *)

\* What is at place k of lane s came from place l of lane r, when the first of
\* lane a (of the HTTP threads, thread x) has left it, for the end of lane b
\* (of n before that) or for good (b = -1).  Nothing has left a lane if a = 5.
From(a, x, b, n, s, k, r, l) ==
    \/ s = r /\ s # a /\ k = l /\ (s = b => k <= n)
    \/ s = r /\ s = a /\ a # 4 /\ l = k + 1
    \/ s = r /\ s = a /\ a = 4 /\ k = l /\ k # x
    \/ s = b /\ k = n + 1 /\ r = a /\ l = x

Place(s, k) == s \in Stages /\ (s # 4 => k \in Nat \ {0})

LEMMA FromKeepsOrder ==
    ASSUME NEW a \in 1..5, NEW b \in {-1, a - 1}, NEW n \in Nat, NEW x, a # 4 => x = 1
    PROVE  \A s, k, r, l, s2, k2, r2, l2 :
              /\ Place(s, k) /\ Place(r, l) /\ Place(s2, k2) /\ Place(r2, l2)
              /\ From(a, x, b, n, s, k, r, l) /\ From(a, x, b, n, s2, k2, r2, l2)
              => /\ r = r2 /\ l = l2 => s = s2 /\ k = k2
                 /\ Before(r, l, r2, l2) => Before(s, k, s2, k2)
  BY DEF From, Place, Before, Stages

\* Every place of line M that holds a transfer has it from a place of line L.
AllFrom(L, M, a, x, b, n) ==
    \A s \in Stages : \A k \in Slots(M, s) : M[s][k] # 0 =>
       \E r \in Stages : \E l \in Slots(L, r) :
          L[r][l] = M[s][k] /\ From(a, x, b, n, s, k, r, l)

LEMMA PlaceOf ==
    ASSUME NEW L, LinesOK(L)
    PROVE  \A s \in Stages : \A k \in Slots(L, s) : Place(s, k)
  BY DEF Slots, Place, LinesOK, Stages

LEMMA StaysInOrder ==
    ASSUME NEW L, NEW M, LinesOK(L), LinesOK(M), NEW tr, Len(tr) \in Nat,
           NEW a \in 1..5, NEW b \in {-1, a - 1}, NEW n \in Nat, NEW x, a # 4 => x = 1,
           AllFrom(L, M, a, x, b, n), InOrder(L, tr)
    PROVE  InOrder(M, tr)
<1> SUFFICES ASSUME NEW i \in 1..Len(tr), NEW j \in 1..Len(tr),
                    NEW s \in Stages, NEW s2 \in Stages,
                    NEW k \in Slots(M, s), NEW k2 \in Slots(M, s2),
                    M[s][k] = i, M[s2][k2] = j
             PROVE  /\ i = j => s = s2 /\ k = k2
                    /\ i < j /\ tr[i].src = tr[j].src => Before(s, k, s2, k2)
  BY DEF InOrder
<1>1. i # 0 /\ j # 0
  OBVIOUS
<1>2. PICK r \in Stages : \E l \in Slots(L, r) :
          L[r][l] = M[s][k] /\ From(a, x, b, n, s, k, r, l)
  BY <1>1, Zenon DEF AllFrom
<1>3. PICK l \in Slots(L, r) : L[r][l] = i /\ From(a, x, b, n, s, k, r, l)
  BY <1>2, Zenon
<1>4. PICK r2 \in Stages : \E l2 \in Slots(L, r2) :
          L[r2][l2] = M[s2][k2] /\ From(a, x, b, n, s2, k2, r2, l2)
  BY <1>1, Zenon DEF AllFrom
<1>5. PICK l2 \in Slots(L, r2) : L[r2][l2] = j /\ From(a, x, b, n, s2, k2, r2, l2)
  BY <1>4, Zenon
<1>6. /\ i = j => r = r2 /\ l = l2
      /\ i < j /\ tr[i].src = tr[j].src => Before(r, l, r2, l2)
  BY <1>3, <1>5, Zenon DEF InOrder
<1>7. Place(s, k) /\ Place(r, l) /\ Place(s2, k2) /\ Place(r2, l2)
  BY PlaceOf, Zenon
<1>8. \A y1, y2, y3, y4, z1, z2, z3, z4 :
         /\ Place(y1, y2) /\ Place(y3, y4) /\ Place(z1, z2) /\ Place(z3, z4)
         /\ From(a, x, b, n, y1, y2, y3, y4) /\ From(a, x, b, n, z1, z2, z3, z4)
         => /\ y3 = z3 /\ y4 = z4 => y1 = z1 /\ y2 = z2
            /\ Before(y3, y4, z3, z4) => Before(y1, y2, z1, z2)
  BY FromKeepsOrder
<1>9. /\ r = r2 /\ l = l2 => s = s2 /\ k = k2
      /\ Before(r, l, r2, l2) => Before(s, k, s2, k2)
  BY <1>3, <1>5, <1>7, <1>8, Zenon
<1>. QED  BY <1>6, <1>9

\* A step by which nothing that matters is added: the first of lane a is taken
\* (none if a = 5) and something else put at the end of lane b (none if b = 5).
Drops(L, M, a, b) ==
    \A s \in Stages : IF s = a THEN Popped(L[s], M[s])
                      ELSE IF s = b THEN Appended(L[s], M[s], 0)
                      ELSE M[s] = L[s]

LEMMA DropsFrom ==
    ASSUME NEW L, NEW M, LinesOK(L), LinesOK(M), NEW a \in {1, 2, 3, 5}, NEW b \in {1, 2, 3, 5},
           Drops(L, M, a, b)
    PROVE  AllFrom(L, M, a, 1, -1, 0)
<1> SUFFICES ASSUME NEW s \in Stages, NEW k \in Slots(M, s), M[s][k] # 0
             PROVE  \E r \in Stages : \E l \in Slots(L, r) :
                       L[r][l] = M[s][k] /\ From(a, 1, -1, 0, s, k, r, l)
  BY Zenon DEF AllFrom
<1>1. CASE s = a
  <2>0. s \in 1..3
    BY <1>1 DEF Stages
  <2>1. /\ k \in 1..Len(M[s]) /\ Len(L[s]) = Len(M[s]) + 1 /\ Len(M[s]) \in Nat
        /\ M[s][k] = L[s][k + 1]
    BY SMTT(40), <1>1, <2>0 DEF Drops, Popped, Slots, LinesOK
  <2>2. k + 1 \in Slots(L, s)
    BY <1>1, <2>1 DEF Slots
  <2>3. From(a, 1, -1, 0, s, k, s, k + 1)
    BY <1>1 DEF From
  <2>. QED  BY <2>1, <2>2, <2>3
<1>2. CASE s # a
  <2>1. k \in Slots(L, s) /\ L[s][k] = M[s][k]
    <3>1. CASE s = b
      <4>1. /\ k \in 1..Len(M[s]) /\ Len(M[s]) = Len(L[s]) + 1 /\ Len(L[s]) \in Nat
            /\ M[s][Len(L[s]) + 1] = 0 /\ \A y \in 1..Len(L[s]) : M[s][y] = L[s][y]
        BY <1>2, <3>1 DEF Drops, Appended, Slots, LinesOK
      <4>2. k \in 1..Len(L[s])
        BY <4>1
      <4>. QED  BY <3>1, <4>1, <4>2 DEF Slots
    <3>2. CASE s # b
      BY <1>2, <3>2, Zenon DEF Drops, Slots
    <3>. QED  BY <3>1, <3>2
  <2>2. From(a, 1, -1, 0, s, k, s, k)
    BY <1>2 DEF From, Stages
  <2>. QED  BY <2>1, <2>2
<1>. QED  BY <1>1, <1>2

\* The first of lane a goes to the end of the next one.
Passes(L, M, a) ==
    \A s \in Stages : IF s = a THEN Popped(L[s], M[s])
                      ELSE IF s = a - 1 THEN Appended(L[s], M[s], L[a][1])
                      ELSE M[s] = L[s]

LEMMA PassesFrom ==
    ASSUME NEW L, NEW M, LinesOK(L), LinesOK(M), NEW a \in 1..3, Passes(L, M, a)
    PROVE  AllFrom(L, M, a, 1, a - 1, Len(L[a - 1]))
<1>. DEFINE b == a - 1
            n == Len(L[b])
<1> SUFFICES ASSUME NEW s \in Stages, NEW k \in Slots(M, s), M[s][k] # 0
             PROVE  \E r \in Stages : \E l \in Slots(L, r) :
                       L[r][l] = M[s][k] /\ From(a, 1, b, n, s, k, r, l)
  BY Zenon DEF AllFrom
<1>0. b \in 0..2 /\ b # a /\ n \in Nat /\ a \in Stages
  BY DEF LinesOK, Stages
<1>1. CASE s = a
  <2>0. s \in 1..3
    BY <1>1 DEF Stages
  <2>1. /\ k \in 1..Len(M[s]) /\ Len(L[s]) = Len(M[s]) + 1 /\ Len(M[s]) \in Nat
        /\ M[s][k] = L[s][k + 1]
    <3>1. Popped(L[s], M[s])
      BY <1>1, Zenon DEF Passes
    <3>2. Len(M[s]) \in Nat /\ k \in 1..Len(M[s])
      BY SMTT(40), <2>0 DEF Slots, LinesOK
    <3>. QED  BY <3>1, <3>2 DEF Popped
  <2>2. k + 1 \in Slots(L, s)
    BY <1>1, <2>1 DEF Slots
  <2>3. From(a, 1, b, n, s, k, s, k + 1)
    BY <1>1 DEF From
  <2>. QED  BY <2>1, <2>2, <2>3
<1>2. CASE s = b
  <2>1. /\ k \in 1..Len(M[s]) /\ Len(M[s]) = n + 1
        /\ M[s][n + 1] = L[a][1] /\ \A y \in 1..n : M[s][y] = L[s][y]
    BY <1>0, <1>2 DEF Passes, Appended, Slots, LinesOK
  <2>2. CASE k = n + 1
    <3>1. 1 \in Slots(L, a)
      BY SMTT(40), <1>0 DEF Passes, Popped, Slots, LinesOK, Stages
    <3>2. From(a, 1, b, n, s, k, a, 1)
      BY <1>2, <2>2 DEF From
    <3>3. L[a][1] = M[s][k]
      BY <2>1, <2>2
    <3>. QED  BY <1>0, <3>1, <3>2, <3>3
  <2>3. CASE k # n + 1
    <3>1. k \in 1..n
      BY <1>0, <2>1, <2>3
    <3>2. k \in Slots(L, s) /\ L[s][k] = M[s][k]
      BY <1>0, <1>2, <2>1, <3>1 DEF Slots
    <3>3. From(a, 1, b, n, s, k, s, k)
      BY <1>0, <1>2, <3>1 DEF From
    <3>. QED  BY <3>2, <3>3
  <2>. QED  BY <2>2, <2>3
<1>3. CASE s # a /\ s # b
  <2>1. k \in Slots(L, s) /\ L[s][k] = M[s][k]
    BY <1>3, Zenon DEF Passes, Slots
  <2>2. From(a, 1, b, n, s, k, s, k)
    BY <1>3 DEF From
  <2>. QED  BY <2>1, <2>2
<1>. QED  BY <1>1, <1>2, <1>3

\* What thread x holds goes to the end of the lane of TASK_AMF_APP.
Enters(L, M, x) ==
    /\ M[4] = [L[4] EXCEPT ![x] = 0] /\ Appended(L[3], M[3], L[4][x])
    /\ M[2] = L[2] /\ M[1] = L[1] /\ M[0] = L[0]

LEMMA EntersFrom ==
    ASSUME NEW L, NEW M, LinesOK(L), LinesOK(M), NEW x \in Threads,
           L[4] \in [Threads -> Nat], Enters(L, M, x)
    PROVE  AllFrom(L, M, 4, x, 3, Len(L[3]))
<1>. DEFINE n == Len(L[3])
<1> SUFFICES ASSUME NEW s \in Stages, NEW k \in Slots(M, s), M[s][k] # 0
             PROVE  \E r \in Stages : \E l \in Slots(L, r) :
                       L[r][l] = M[s][k] /\ From(4, x, 3, n, s, k, r, l)
  BY Zenon DEF AllFrom
<1>0. n \in Nat /\ 4 \in Stages /\ 3 \in Stages
  BY DEF LinesOK, Stages
<1>1. CASE s = 4
  <2>1. k \in Slots(L, s) /\ k # x /\ L[s][k] = M[s][k]
    BY <1>1 DEF Enters, Slots
  <2>2. From(4, x, 3, n, s, k, s, k)
    BY <1>1, <2>1 DEF From
  <2>. QED  BY <2>1, <2>2
<1>2. CASE s = 3
  <2>1. /\ k \in 1..Len(M[s]) /\ Len(M[s]) = n + 1
        /\ M[s][n + 1] = L[4][x] /\ \A y \in 1..n : M[s][y] = L[s][y]
    BY <1>0, <1>2 DEF Enters, Appended, Slots, LinesOK
  <2>2. CASE k = n + 1
    <3>1. x \in Slots(L, 4)
      BY DEF Slots
    <3>2. From(4, x, 3, n, s, k, 4, x)
      BY <1>2, <2>2 DEF From
    <3>3. L[4][x] = M[s][k]
      BY <2>1, <2>2
    <3>. QED  BY <1>0, <3>1, <3>2, <3>3
  <2>3. CASE k # n + 1
    <3>1. k \in 1..n
      BY <1>0, <2>1, <2>3
    <3>2. k \in Slots(L, s) /\ L[s][k] = M[s][k]
      BY <1>0, <1>2, <2>1, <3>1 DEF Slots
    <3>3. From(4, x, 3, n, s, k, s, k)
      BY <1>0, <1>2, <3>1 DEF From
    <3>. QED  BY <3>2, <3>3
  <2>. QED  BY <2>2, <2>3
<1>3. CASE s \in 0..2
  <2>1. k \in Slots(L, s) /\ L[s][k] = M[s][k]
    BY <1>3 DEF Enters, Slots
  <2>2. From(4, x, 3, n, s, k, s, k)
    BY <1>3 DEF From
  <2>. QED  BY <2>1, <2>2
<1>. QED  BY <1>1, <1>2, <1>3 DEF Stages

\* What is on its way stays in its lane, but for place x of lane a.
AllTo(L, M, a, x) ==
    \A s \in 1..4 : \A k \in Slots(L, s) : L[s][k] # 0 /\ ~(s = a /\ k = x) =>
       \E l \in Slots(M, s) : M[s][l] = L[s][k]

LEMMA DropsTo ==
    ASSUME NEW L, NEW M, LinesOK(L), LinesOK(M), NEW a \in {1, 2, 3, 5}, NEW b \in {1, 2, 3, 5},
           Drops(L, M, a, b)
    PROVE  AllTo(L, M, a, 1)
<1> SUFFICES ASSUME NEW s \in 1..4, NEW k \in Slots(L, s), ~(s = a /\ k = 1)
             PROVE  \E l \in Slots(M, s) : M[s][l] = L[s][k]
  BY Zenon DEF AllTo
<1>0. s \in Stages
  BY DEF Stages
<1>1. CASE s = a
  <2>1. Popped(L[s], M[s])
    BY <1>0, <1>1, Zenon DEF Drops
  <2>2. k \in 1..Len(L[s]) /\ Len(L[s]) \in Nat /\ Len(M[s]) \in Nat /\ s # 4
    BY <1>1 DEF Slots, LinesOK
  <2>3. k - 1 \in 1..Len(M[s]) /\ M[s][k - 1] = L[s][k]
    BY <1>1, <2>1, <2>2 DEF Popped
  <2>. QED  BY <2>2, <2>3 DEF Slots
<1>2. CASE s # a /\ s = b
  <2>1. Appended(L[s], M[s], 0)
    BY <1>0, <1>2, Zenon DEF Drops
  <2>2. k \in 1..Len(L[s]) /\ Len(L[s]) \in Nat /\ Len(M[s]) \in Nat /\ s # 4
    BY SMTT(40), <1>2 DEF Slots, LinesOK
  <2>3. k \in 1..Len(M[s]) /\ M[s][k] = L[s][k]
    BY <2>1, <2>2 DEF Appended
  <2>. QED  BY <2>2, <2>3 DEF Slots
<1>3. CASE s # a /\ s # b
  BY <1>0, <1>3, Zenon DEF Drops, Slots
<1>. QED  BY <1>1, <1>2, <1>3

LEMMA PassesTo ==
    ASSUME NEW L, NEW M, LinesOK(L), LinesOK(M), NEW a \in 1..3, Passes(L, M, a)
    PROVE  /\ AllTo(L, M, a, 1)
           /\ \E l \in Slots(M, a - 1) : M[a - 1][l] = L[a][1]
<1>1. AllTo(L, M, a, 1)
  <2> SUFFICES ASSUME NEW s \in 1..4, NEW k \in Slots(L, s), ~(s = a /\ k = 1)
               PROVE  \E l \in Slots(M, s) : M[s][l] = L[s][k]
    BY Zenon DEF AllTo
  <2>0. s \in Stages
    BY DEF Stages
  <2>1. CASE s = a
    <3>1. Popped(L[s], M[s])
      BY <2>0, <2>1, Zenon DEF Passes
    <3>2. k \in 1..Len(L[s]) /\ Len(L[s]) \in Nat /\ Len(M[s]) \in Nat /\ s # 4
      BY SMTT(40), <2>1 DEF Slots, LinesOK
    <3>3. k \in 2..Len(L[s])
      BY <2>1, <3>2
    <3>4. k - 1 \in 1..Len(M[s]) /\ M[s][k - 1] = L[s][k - 1 + 1] /\ k - 1 + 1 = k
      BY <3>1, <3>2, <3>3 DEF Popped
    <3>. QED  BY <3>2, <3>4 DEF Slots
  <2>2. CASE s = a - 1
    <3>1. Appended(L[s], M[s], L[a][1])
      BY <2>0, <2>2 DEF Passes
    <3>2. k \in 1..Len(L[s]) /\ Len(L[s]) \in Nat /\ Len(M[s]) \in Nat /\ s # 4
      BY <2>2 DEF Slots, LinesOK
    <3>3. k \in 1..Len(M[s]) /\ M[s][k] = L[s][k]
      BY <3>1, <3>2 DEF Appended
    <3>. QED  BY <3>2, <3>3 DEF Slots
  <2>3. CASE s # a /\ s # a - 1
    BY <2>0, <2>3, Zenon DEF Passes, Slots
  <2>. QED  BY <2>1, <2>2, <2>3
<1>2. a - 1 \in Stages /\ a - 1 # a /\ a - 1 # 4 /\ Len(L[a - 1]) \in Nat
  BY DEF Stages, LinesOK
<1>3. Appended(L[a - 1], M[a - 1], L[a][1])
  BY <1>2, Zenon DEF Passes
<1>4. Len(L[a - 1]) + 1 \in Slots(M, a - 1) /\ M[a - 1][Len(L[a - 1]) + 1] = L[a][1]
  BY <1>2, <1>3 DEF Appended, Slots
<1>. QED  BY <1>1, <1>4

LEMMA EntersTo ==
    ASSUME NEW L, NEW M, LinesOK(L), LinesOK(M), NEW x \in Threads,
           L[4] \in [Threads -> Nat], Enters(L, M, x)
    PROVE  /\ AllTo(L, M, 4, x)
           /\ \E l \in Slots(M, 3) : M[3][l] = L[4][x]
<1>1. AllTo(L, M, 4, x)
  <2> SUFFICES ASSUME NEW s \in 1..4, NEW k \in Slots(L, s), ~(s = 4 /\ k = x)
               PROVE  \E l \in Slots(M, s) : M[s][l] = L[s][k]
    BY Zenon DEF AllTo
  <2>1. CASE s = 4
    <3>1. k \in Threads /\ k # x
      BY <2>1 DEF Slots
    <3>2. M[4][k] = L[4][k]
      BY <3>1 DEF Enters
    <3>. QED  BY <2>1, <3>1, <3>2 DEF Slots
  <2>2. CASE s = 3
    <3>1. k \in 1..Len(L[3]) /\ Len(L[3]) \in Nat
      BY <2>2 DEF Slots, LinesOK
    <3>2. k \in 1..Len(M[3]) /\ M[3][k] = L[3][k]
      BY <3>1 DEF Enters, Appended
    <3>. QED  BY <2>2, <3>2 DEF Slots
  <2>3. CASE s \in 1..2
    BY <2>3 DEF Enters, Slots
  <2>. QED  BY <2>1, <2>2, <2>3
<1>2. Len(L[3]) + 1 \in Slots(M, 3) /\ M[3][Len(L[3]) + 1] = L[4][x]
  BY DEF Enters, Appended, Slots, LinesOK
<1>. QED  BY <1>1, <1>2

\* What is on its way remains so, but for what leaves its lane for good or for
\* the gNB.
LEMMA WayAfter ==
    ASSUME NEW L, NEW M, LinesOK(L), LinesOK(M), NEW tr, InOrder(L, tr),
           NEW a \in 1..5, NEW b \in {-1, a - 1}, NEW n, NEW x,
           a # 4 => x = 1, a # 5 => x \in Slots(L, a),
           AllFrom(L, M, a, x, b, n), AllTo(L, M, a, x),
           b >= 1 => a # 5 /\ \E l \in Slots(M, b) : M[b][l] = L[a][x],
           NEW i \in 1..Len(tr), Len(tr) \in Nat
    PROVE  OnItsWay(M, i) <=> OnItsWay(L, i) /\ (b >= 1 \/ a = 5 \/ L[a][x] # i)
<1>1. ASSUME OnItsWay(M, i)
      PROVE  OnItsWay(L, i) /\ (b >= 1 \/ a = 5 \/ L[a][x] # i)
  <2>1. PICK s \in 1..4 : \E k \in Slots(M, s) : M[s][k] = i
    BY <1>1, Zenon DEF OnItsWay
  <2>2. PICK k \in Slots(M, s) : M[s][k] = i
    BY <2>1, Zenon
  <2>3. s \in Stages /\ i # 0
    BY DEF Stages
  <2>4. PICK r \in Stages : \E l \in Slots(L, r) :
            L[r][l] = M[s][k] /\ From(a, x, b, n, s, k, r, l)
    BY <2>2, <2>3, Zenon DEF AllFrom
  <2>5. PICK l \in Slots(L, r) : L[r][l] = i /\ From(a, x, b, n, s, k, r, l)
    BY <2>2, <2>4, Zenon
  <2>6. r \in 1..4
    BY <2>5 DEF From, Stages
  <2>7. Place(s, k) /\ Place(r, l)
    BY <2>3, PlaceOf, Zenon
  <2>8. ASSUME a # 5, L[a][x] = i
        PROVE  b >= 1
    <3>1. a \in Stages
      BY <2>8 DEF Stages
    <3>2. r = a /\ l = x
      BY <2>5, <2>8, <3>1 DEF InOrder
    <3>. QED  BY <2>5, <2>7, <3>2 DEF From, Place
  <2>. QED  BY <2>5, <2>6, <2>8 DEF OnItsWay
<1>2. ASSUME OnItsWay(L, i), b >= 1 \/ a = 5 \/ L[a][x] # i
      PROVE  OnItsWay(M, i)
  <2>1. PICK s \in 1..4 : \E k \in Slots(L, s) : L[s][k] = i
    BY <1>2, Zenon DEF OnItsWay
  <2>2. PICK k \in Slots(L, s) : L[s][k] = i
    BY <2>1, Zenon
  <2>3. i # 0
    OBVIOUS
  <2>4. CASE s = a /\ k = x
    <3>1. b >= 1 /\ b \in 1..4
      BY <1>2, <2>2, <2>4
    <3>2. PICK l \in Slots(M, b) : M[b][l] = L[a][x]
      BY <3>1
    <3>3. M[b][l] = i
      BY <2>2, <2>4, <3>2
    <3>. QED  BY <3>1, <3>2, <3>3 DEF OnItsWay
  <2>5. CASE ~(s = a /\ k = x)
    <3>1. PICK l \in Slots(M, s) : M[s][l] = L[s][k]
      BY <2>2, <2>3, <2>5, Zenon DEF AllTo
    <3>. QED  BY <2>2, <3>1, Zenon DEF OnItsWay
  <2>. QED  BY <2>4, <2>5
<1>. QED  BY <1>1, <1>2

\* A new transfer is put at place k of lane s.
Adds(L, M, s, k, i) ==
    /\ s \in Stages /\ k \in Slots(M, s) /\ M[s][k] = i
    /\ \A r \in Stages : \A l \in Slots(M, r) :
          ~(r = s /\ l = k) => l \in Slots(L, r) /\ M[r][l] = L[r][l]
    /\ \A r \in Stages : \A l \in Slots(L, r) :
          ~(r = s /\ l = k) => l \in Slots(M, r) /\ M[r][l] = L[r][l]
    /\ k \in Slots(L, s) => L[s][k] = 0

LEMMA AddsInOrder ==
    ASSUME NEW L, NEW M, NEW tr, NEW tr1, Len(tr) \in Nat, Len(tr1) = Len(tr) + 1,
           \A n \in 1..Len(tr) : tr1[n].src = tr[n].src,
           NEW s, NEW k, Adds(L, M, s, k, Len(tr) + 1), InOrder(L, tr),
           \A r \in Stages : \A l \in Slots(L, r) : L[r][l] \in 0..Len(tr),
           \A r \in Stages : \A l \in Slots(L, r) :
              L[r][l] # 0 /\ tr[L[r][l]].src = tr1[Len(tr1)].src => Before(r, l, s, k)
    PROVE  InOrder(M, tr1)
<1>. DEFINE N == Len(tr)
<1> SUFFICES ASSUME NEW i \in 1..Len(tr1), NEW j \in 1..Len(tr1),
                    NEW r \in Stages, NEW r2 \in Stages,
                    NEW l \in Slots(M, r), NEW l2 \in Slots(M, r2),
                    M[r][l] = i, M[r2][l2] = j
             PROVE  /\ i = j => r = r2 /\ l = l2
                    /\ i < j /\ tr1[i].src = tr1[j].src => Before(r, l, r2, l2)
  BY DEF InOrder
<1>1. ~(r = s /\ l = k) => l \in Slots(L, r) /\ L[r][l] = i /\ i \in 1..N
  <2> SUFFICES ASSUME ~(r = s /\ l = k)  PROVE l \in Slots(L, r) /\ L[r][l] = i /\ i \in 1..N
    OBVIOUS
  <2>1. l \in Slots(L, r) /\ M[r][l] = L[r][l]
    BY Zenon DEF Adds
  <2>2. L[r][l] \in 0..N
    BY <2>1, Zenon
  <2>. QED  BY <2>1, <2>2
<1>2. ~(r2 = s /\ l2 = k) => l2 \in Slots(L, r2) /\ L[r2][l2] = j /\ j \in 1..N
  <2> SUFFICES ASSUME ~(r2 = s /\ l2 = k)
               PROVE  l2 \in Slots(L, r2) /\ L[r2][l2] = j /\ j \in 1..N
    OBVIOUS
  <2>1. l2 \in Slots(L, r2) /\ M[r2][l2] = L[r2][l2]
    BY Zenon DEF Adds
  <2>2. L[r2][l2] \in 0..N
    BY <2>1, Zenon
  <2>. QED  BY <2>1, <2>2
<1>3. r = s /\ l = k => i = N + 1
  BY DEF Adds
<1>4. r2 = s /\ l2 = k => j = N + 1
  BY DEF Adds
<1>5. CASE ~(r = s /\ l = k) /\ ~(r2 = s /\ l2 = k)
  <2>1. tr1[i].src = tr[i].src /\ tr1[j].src = tr[j].src
    BY <1>1, <1>2, <1>5
  <2>2. /\ i = j => r = r2 /\ l = l2
        /\ i < j /\ tr[i].src = tr[j].src => Before(r, l, r2, l2)
    BY <1>1, <1>2, <1>5 DEF InOrder
  <2>. QED  BY <2>1, <2>2
<1>6. CASE ~(r = s /\ l = k) /\ r2 = s /\ l2 = k
  <2>1. tr1[i].src = tr[i].src /\ i # j /\ j = Len(tr1)
    BY <1>1, <1>4, <1>6
  <2>2. i < j /\ tr[i].src = tr1[j].src => Before(r, l, s, k)
    BY <1>1, <1>6, <2>1
  <2>. QED  BY <1>6, <2>1, <2>2
<1>7. CASE r = s /\ l = k /\ ~(r2 = s /\ l2 = k)
  <2>1. j < i
    BY <1>2, <1>3, <1>7
  <2>. QED  BY <2>1
<1>8. CASE r = s /\ l = k /\ r2 = s /\ l2 = k
  BY <1>3, <1>4, <1>8
<1>. QED  BY <1>5, <1>6, <1>7, <1>8

Lacks(L, i) == \A r \in Stages : \A l \in Slots(L, r) : L[r][l] # i

LEMMA AddsWay ==
    ASSUME NEW L, NEW M, NEW s, s \in 1..4, NEW k, NEW i, i \in Nat, i # 0,
           Adds(L, M, s, k, i), Lacks(L, i)
    PROVE  \A n \in Nat \ {0} : OnItsWay(M, n) <=> OnItsWay(L, n) \/ n = i
<1> SUFFICES ASSUME NEW n \in Nat \ {0}
             PROVE  OnItsWay(M, n) <=> OnItsWay(L, n) \/ n = i
  OBVIOUS
<1>0. \A r \in 1..4 : r \in Stages
  BY DEF Stages
<1>1. ASSUME OnItsWay(M, n), n # i
      PROVE  OnItsWay(L, n)
  <2>1. PICK r \in 1..4 : \E l \in Slots(M, r) : M[r][l] = n
    BY <1>1, Zenon DEF OnItsWay
  <2>2. PICK l \in Slots(M, r) : M[r][l] = n
    BY <2>1, Zenon
  <2>3. ~(r = s /\ l = k)
    BY <1>1, <2>2 DEF Adds
  <2>4. l \in Slots(L, r) /\ M[r][l] = L[r][l]
    BY <1>0, <2>3, Zenon DEF Adds
  <2>. QED  BY <2>2, <2>4 DEF OnItsWay
<1>2. ASSUME OnItsWay(L, n)
      PROVE  OnItsWay(M, n)
  <2>1. PICK r \in 1..4 : \E l \in Slots(L, r) : L[r][l] = n
    BY <1>2, Zenon DEF OnItsWay
  <2>2. PICK l \in Slots(L, r) : L[r][l] = n
    BY <2>1, Zenon
  <2>3. ~(r = s /\ l = k)
    BY <2>2, <1>0 DEF Adds, Lacks
  <2>4. l \in Slots(M, r) /\ M[r][l] = L[r][l]
    BY <1>0, <2>3, Zenon DEF Adds
  <2>. QED  BY <2>2, <2>4 DEF OnItsWay
<1>3. OnItsWay(M, i)
  BY DEF Adds, OnItsWay
<1>. QED  BY <1>1, <1>2, <1>3

\* What the transfers that are accepted become when a line makes a step.
SameSources(tr, tr1) == Len(tr1) = Len(tr) /\ \A n \in 1..Len(tr) : tr1[n].src = tr[n].src

LEMMA SameOrder ==
    ASSUME NEW L, NEW tr, NEW tr1, SameSources(tr, tr1), InOrder(L, tr)
    PROVE  InOrder(L, tr1)
  BY DEF SameSources, InOrder

LEMMA DropsInv ==
    ASSUME NEW L, NEW M, LinesOK(L), LinesOK(M), NEW a \in {1, 2, 3, 5}, NEW b \in {1, 2, 3, 5},
           Drops(L, M, a, b), a # 5 => 1 \in Slots(L, a),
           NEW tr, NEW tr1, Len(tr) \in Nat, SameSources(tr, tr1),
           InOrder(L, tr), Awaited(L, tr),
           \A n \in 1..Len(tr) : tr1[n].fate = "accepted" <=>
              tr[n].fate = "accepted" /\ (a = 5 \/ L[a][1] # n)
    PROVE  InOrder(M, tr1) /\ Awaited(M, tr1)
<1>1. AllFrom(L, M, a, 1, -1, 0) /\ AllTo(L, M, a, 1)
  BY DropsFrom, DropsTo
<1>2. InOrder(M, tr)
  BY <1>1, StaysInOrder
<1>3. \A n \in 1..Len(tr) : OnItsWay(M, n) <=> OnItsWay(L, n) /\ (-1 >= 1 \/ a = 5 \/ L[a][1] # n)
  BY <1>1, WayAfter
<1>4. Awaited(M, tr1)
  BY <1>3 DEF Awaited, SameSources
<1>. QED  BY <1>2, <1>4, SameOrder

LEMMA PassesInv ==
    ASSUME NEW L, NEW M, LinesOK(L), LinesOK(M), NEW a \in 1..3, Passes(L, M, a),
           1 \in Slots(L, a),
           NEW tr, NEW tr1, Len(tr) \in Nat, SameSources(tr, tr1),
           InOrder(L, tr), Awaited(L, tr),
           \A n \in 1..Len(tr) : tr1[n].fate = "accepted" <=>
              tr[n].fate = "accepted" /\ (a > 1 \/ L[a][1] # n)
    PROVE  InOrder(M, tr1) /\ Awaited(M, tr1)
<1>1. /\ AllFrom(L, M, a, 1, a - 1, Len(L[a - 1])) /\ AllTo(L, M, a, 1)
      /\ \E l \in Slots(M, a - 1) : M[a - 1][l] = L[a][1]
  BY PassesFrom, PassesTo
<1>2. Len(L[a - 1]) \in Nat /\ a \in 1..5 /\ a # 5
  BY DEF LinesOK
<1>3. InOrder(M, tr)
  BY <1>1, <1>2, StaysInOrder
<1>4. \A n \in 1..Len(tr) : OnItsWay(M, n) <=> OnItsWay(L, n) /\ (a - 1 >= 1 \/ a = 5 \/ L[a][1] # n)
  BY SMTT(40), <1>1, <1>2, WayAfter
<1>5. Awaited(M, tr1)
  BY <1>4 DEF Awaited, SameSources
<1>. QED  BY <1>3, <1>5, SameOrder

LEMMA EntersInv ==
    ASSUME NEW L, NEW M, LinesOK(L), LinesOK(M), NEW x \in Threads,
           L[4] \in [Threads -> Nat], Enters(L, M, x),
           NEW tr, Len(tr) \in Nat, InOrder(L, tr), Awaited(L, tr)
    PROVE  InOrder(M, tr) /\ Awaited(M, tr)
<1>. DEFINE a == 4
            b == 3
            k == Len(L[3])
<1>1. /\ AllFrom(L, M, a, x, b, k) /\ AllTo(L, M, a, x)
      /\ \E l \in Slots(M, b) : M[b][l] = L[a][x]
  BY EntersFrom, EntersTo
<1>2. /\ k \in Nat /\ x \in Slots(L, a) /\ b \in {-1, a - 1} /\ a \in 1..5
      /\ a # 5 /\ b >= 1 /\ (a # 4 => x = 1)
  BY DEF LinesOK, Slots
<1>. HIDE DEF a, b, k
<1>3. InOrder(M, tr)
  BY <1>1, <1>2, StaysInOrder
<1>4. ASSUME NEW n \in 1..Len(tr)
      PROVE  OnItsWay(M, n) <=> OnItsWay(L, n) /\ (b >= 1 \/ a = 5 \/ L[a][x] # n)
  BY SMTT(40), <1>1, <1>2, WayAfter
<1>. QED  BY <1>2, <1>3, <1>4 DEF Awaited

\* Every place of a line holds 0 or a transfer that was accepted.
Bounded(L, tr) == \A r \in Stages : \A l \in Slots(L, r) : L[r][l] \in 0..Len(tr)

LEMMA AddsInv ==
    ASSUME NEW L, NEW M, NEW tr \in Seq(Transfers), NEW e \in Transfers, e.fate = "accepted",
           NEW s \in 1..4, NEW k, Adds(L, M, s, k, Len(tr) + 1),
           Bounded(L, tr), InOrder(L, tr), Awaited(L, tr),
           \A r \in Stages : \A l \in Slots(L, r) :
              L[r][l] # 0 /\ tr[L[r][l]].src = e.src => Before(r, l, s, k)
    PROVE  InOrder(M, Append(tr, e)) /\ Awaited(M, Append(tr, e))
<1>. DEFINE tr1 == Append(tr, e)
<1>1. /\ Len(tr) \in Nat /\ Len(tr1) = Len(tr) + 1 /\ tr1[Len(tr1)] = e
      /\ tr1[Len(tr) + 1] = e /\ \A n \in 1..Len(tr) : tr1[n] = tr[n]
  BY AppendOf DEF Appended
<1>. HIDE DEF tr1
<1>2. /\ \A n \in 1..Len(tr) : tr1[n].src = tr[n].src
      /\ \A r \in Stages : \A l \in Slots(L, r) : L[r][l] \in 0..Len(tr)
      /\ \A r \in Stages : \A l \in Slots(L, r) :
            L[r][l] # 0 /\ tr[L[r][l]].src = tr1[Len(tr1)].src => Before(r, l, s, k)
  BY <1>1 DEF Bounded
<1>3. InOrder(M, tr1)
  BY <1>1, <1>2, AddsInOrder
<1>. DEFINE i == Len(tr) + 1
<1>4. Lacks(L, i) /\ i \in Nat /\ i # 0 /\ Adds(L, M, s, k, i)
  BY <1>1, <1>2 DEF Lacks
<1>. HIDE DEF i
<1>5. \A n \in Nat \ {0} : OnItsWay(M, n) <=> OnItsWay(L, n) \/ n = i
  BY <1>4, AddsWay
<1>6. ~OnItsWay(L, i)
  BY <1>4 DEF OnItsWay, Lacks, Stages
<1>7. Awaited(M, tr1)
  <2> SUFFICES ASSUME NEW n \in 1..Len(tr1)
               PROVE  tr1[n].fate = "accepted" <=> OnItsWay(M, n)
    BY DEF Awaited
  <2>1. n \in Nat \ {0} /\ (n # i => n \in 1..Len(tr))
    BY <1>1 DEF i
  <2>2. OnItsWay(M, n) <=> OnItsWay(L, n) \/ n = i
    BY <1>5, <2>1
  <2>3. CASE n = i
    BY <1>1, <2>2, <2>3 DEF i
  <2>4. CASE n # i
    BY <1>1, <2>1, <2>2, <2>4 DEF Awaited
  <2>. QED  BY <2>3, <2>4
<1>. QED  BY <1>3, <1>7 DEF tr1
-----------------------------------------------------------------------------
(* What a step does to the queues, and so to the line.                     *)

\* Task t takes its first message, and m is sent to task u (there is no such
\* task if it is "none").
Queued(q, q1, t, u, m) ==
    /\ q1 = [v \in Tasks |-> IF v = t THEN Tail(q[v])
                             ELSE IF v = u THEN Append(q[v], m) ELSE q[v]]
    /\ t \in Tasks => q[t] # <<>>
TaskOrNone == Tasks \cup {"none"}

LEMMA QueuedTyped ==
    ASSUME NEW q \in [Tasks -> Seq(Messages)], NEW q1, NEW t, NEW u, NEW m \in Messages,
           Queued(q, q1, t, u, m)
    PROVE  q1 \in [Tasks -> Seq(Messages)]
<1>1. \A v \in Tasks : q[v] \in Seq(Messages) /\ Append(q[v], m) \in Seq(Messages)
  BY AppendOf
<1>2. \A v \in Tasks : v = t => Tail(q[v]) \in Seq(Messages)
  BY <1>1, TailOf DEF Queued
<1>. QED  BY <1>1, <1>2 DEF Queued

\* Which transfers were accepted, of whom and for which session.
Grows(tr, tr1) ==
    /\ Len(tr) \in Nat /\ Len(tr1) \in Nat /\ Len(tr) <= Len(tr1)
    /\ \A n \in 1..Len(tr) : tr1[n].sid = tr[n].sid /\ tr1[n].src = tr[n].src

LEMMA MsgGrows ==
    ASSUME NEW tr, NEW tr1, Grows(tr, tr1)
    PROVE  \A t \in Tasks, m \in Messages : MsgOK(tr, t, m) => MsgOK(tr1, t, m)
  BY DEF Grows, MsgOK, Messages

LEMMA QueuedOK ==
    ASSUME NEW q \in [Tasks -> Seq(Messages)], NEW q1, NEW t, NEW u, NEW m \in Messages,
           Queued(q, q1, t, u, m), NEW tr, NEW tr1, Grows(tr, tr1),
           \A v \in Tasks : QueueOK(tr, v, q[v]),
           u \in Tasks => MsgOK(tr1, u, m)
    PROVE  \A v \in Tasks : QueueOK(tr1, v, q1[v])
<1> SUFFICES ASSUME NEW v \in Tasks, NEW k \in 1..Len(q1[v])
             PROVE  MsgOK(tr1, v, q1[v][k])
  BY DEF QueueOK
<1>1. /\ q[v] \in Seq(Messages) /\ Len(q[v]) \in Nat
      /\ \A i \in 1..Len(q[v]) : q[v][i] \in Messages /\ MsgOK(tr, v, q[v][i])
  BY DEF QueueOK
<1>2. \A i \in 1..Len(q[v]) : MsgOK(tr1, v, q[v][i])
  BY <1>1, MsgGrows
<1>3. CASE v = t
  <2>1. q1[v] = Tail(q[v]) /\ q[v] # <<>>
    BY <1>3 DEF Queued
  <2>2. Popped(q[v], q1[v]) /\ q1[v] \in Seq(Messages)
    BY <1>1, <2>1, TailOf
  <2>. QED  BY <1>1, <1>2, <2>2 DEF Popped
<1>4. CASE v # t /\ v = u
  <2>1. q1[v] = Append(q[v], m)
    BY <1>4 DEF Queued
  <2>2. Appended(q[v], q1[v], m)
    BY <1>1, <2>1, AppendOf
  <2>3. MsgOK(tr1, v, m)
    BY <1>4
  <2>4. CASE k = Len(q[v]) + 1
    BY <2>2, <2>3, <2>4 DEF Appended
  <2>5. CASE k # Len(q[v]) + 1
    <3>1. k \in 1..Len(q[v])
      BY <1>1, <2>2, <2>5 DEF Appended
    <3>. QED  BY <1>2, <2>2, <3>1 DEF Appended
  <2>. QED  BY <2>4, <2>5
<1>5. CASE v # t /\ v # u
  <2>1. q1[v] = q[v]
    BY <1>5 DEF Queued
  <2>. QED  BY <1>2, <2>1
<1>. QED  BY <1>3, <1>4, <1>5

\* The lane of a task; 5 for TASK_AMF_SBI, which has none.
LaneNo(t) == CASE t = "n2" -> 1 [] t = "n1" -> 2 [] t = "app" -> 3 [] OTHER -> 5

\* What the step of a queue is to its lane.
LEMMA QueuedLane ==
    ASSUME NEW q \in [Tasks -> Seq(Messages)], NEW q1, NEW t, NEW u, NEW m \in Messages,
           Queued(q, q1, t, u, m), NEW v \in Tasks
    PROVE  /\ v = t => Popped(Lane(v, q[v]), Lane(v, q1[v])) /\ Lane(v, q[v])[1] = Num(v, Head(q[v]))
           /\ v # t /\ v = u => Appended(Lane(v, q[v]), Lane(v, q1[v]), Num(v, m))
           /\ v # t /\ v # u => Lane(v, q1[v]) = Lane(v, q[v])
<1>1. q[v] \in Seq(Messages)
  OBVIOUS
<1>2. CASE v = t
  <2>1. q1[v] = Tail(q[v]) /\ q[v] # <<>>
    BY <1>2 DEF Queued
  <2>2. Popped(Lane(v, q[v]), Lane(v, Tail(q[v]))) /\ Lane(v, q[v])[1] = Num(v, Head(q[v]))
    BY <1>1, <2>1, LanePopped
  <2>. QED  BY <1>2, <2>1, <2>2
<1>3. CASE v # t /\ v = u
  <2>1. q1[v] = Append(q[v], m)
    BY <1>3 DEF Queued
  <2>2. Appended(Lane(v, q[v]), Lane(v, Append(q[v], m)), Num(v, m))
    BY <1>1, LaneAppended
  <2>. QED  BY <1>3, <2>1, <2>2
<1>4. CASE v # t /\ v # u
  <2>1. q1[v] = q[v]
    BY <1>4 DEF Queued
  <2>. QED  BY <1>4, <2>1
<1>. QED  BY <1>2, <1>3, <1>4

\* A message that carries no transfer to its lane: the first of t is dropped.
NoNum(u, m) == u \in Tasks => Num(u, m) = 0
Dropped(q, q1, t, u, h, g) ==
    /\ Drops(Line(q, h, g), Line(q1, h, g), LaneNo(t), LaneNo(u))
    /\ LaneNo(t) # 5 => Line(q, h, g)[LaneNo(t)][1] = Num(t, Head(q[t]))
    /\ LaneNo(t) \in {1, 2, 3, 5} /\ LaneNo(u) \in {1, 2, 3, 5}

LEMMA QueuedDrops ==
    ASSUME NEW q \in [Tasks -> Seq(Messages)], NEW q1, NEW t \in TaskOrNone, NEW u \in TaskOrNone,
           NEW m \in Messages, Queued(q, q1, t, u, m), NoNum(u, m), NEW h, NEW g
    PROVE  Dropped(q, q1, t, u, h, g)
<1>1. \A v \in Tasks :
         /\ v = t => Popped(Lane(v, q[v]), Lane(v, q1[v])) /\ Lane(v, q[v])[1] = Num(v, Head(q[v]))
         /\ v # t /\ v = u => Appended(Lane(v, q[v]), Lane(v, q1[v]), Num(v, m))
         /\ v # t /\ v # u => Lane(v, q1[v]) = Lane(v, q[v])
  BY QueuedLane
<1>2. LaneNo("n2") = 1 /\ LaneNo("n1") = 2 /\ LaneNo("app") = 3
  BY DEF LaneNo
<1>3. LaneNo(t) \in {1, 2, 3, 5} /\ LaneNo(u) \in {1, 2, 3, 5}
  BY DEF LaneNo
<1>4. \A v \in {"app", "n1", "n2"}, w \in TaskOrNone : LaneNo(v) = LaneNo(w) => v = w
  BY DEF LaneNo, TaskOrNone, Tasks
<1>. DEFINE L == Line(q, h, g)
            M == Line(q1, h, g)
<1>5. /\ L[0] = g /\ L[4] = h /\ M[0] = g /\ M[4] = h
      /\ \A v \in {"app", "n1", "n2"} :
            L[LaneNo(v)] = Lane(v, q[v]) /\ M[LaneNo(v)] = Lane(v, q1[v])
  BY <1>2, LineIs
<1>. HIDE DEF L, M
<1>6. ASSUME NEW v \in {"app", "n1", "n2"}
      PROVE  LET s == LaneNo(v) IN
             IF s = LaneNo(t) THEN Popped(L[s], M[s])
             ELSE IF s = LaneNo(u) THEN Appended(L[s], M[s], 0)
             ELSE M[s] = L[s]
  <2>1. v \in Tasks
    BY DEF Tasks
  <2>. QED  BY <1>1, <1>4, <1>5, <2>1 DEF NoNum
<1>7. Drops(L, M, LaneNo(t), LaneNo(u))
  <2> SUFFICES ASSUME NEW s \in Stages
               PROVE  IF s = LaneNo(t) THEN Popped(L[s], M[s])
                      ELSE IF s = LaneNo(u) THEN Appended(L[s], M[s], 0)
                      ELSE M[s] = L[s]
    BY Zenon DEF Drops
  <2>1. s = 0 \/ s = 1 \/ s = 2 \/ s = 3 \/ s = 4
    BY DEF Stages
  <2>2. CASE s = 0 \/ s = 4
    BY <1>3, <1>5, <2>2
  <2>3. CASE s = 1
    BY <1>2, <1>6, <2>3
  <2>4. CASE s = 2
    BY <1>2, <1>6, <2>4
  <2>5. CASE s = 3
    BY <1>2, <1>6, <2>5
  <2>. QED  BY <2>1, <2>2, <2>3, <2>4, <2>5
<1>8. LaneNo(t) # 5 => L[LaneNo(t)][1] = Num(t, Head(q[t]))
  <2> SUFFICES ASSUME LaneNo(t) # 5  PROVE  L[LaneNo(t)][1] = Num(t, Head(q[t]))
    OBVIOUS
  <2>1. t \in {"app", "n1", "n2"} /\ t \in Tasks
    BY DEF LaneNo, TaskOrNone, Tasks
  <2>. QED  BY <1>1, <1>5, <2>1
<1>. QED  BY <1>3, <1>7, <1>8 DEF L, M, Dropped

\* A message that takes the transfer of the first of t to the next lane.
LEMMA QueuedPasses ==
    ASSUME NEW q \in [Tasks -> Seq(Messages)], NEW q1, NEW m \in Messages, NEW h, NEW g,
           NEW t \in {"app", "n1"}, NEW u \in {"n1", "n2"}, LaneNo(u) = LaneNo(t) - 1,
           Queued(q, q1, t, u, m), Num(u, m) = Num(t, Head(q[t]))
    PROVE  /\ Passes(Line(q, h, g), Line(q1, h, g), LaneNo(t))
           /\ Line(q, h, g)[LaneNo(t)][1] = Num(t, Head(q[t]))
           /\ LaneNo(t) \in 2..3
<1>1. \A v \in Tasks :
         /\ v = t => Popped(Lane(v, q[v]), Lane(v, q1[v])) /\ Lane(v, q[v])[1] = Num(v, Head(q[v]))
         /\ v # t /\ v = u => Appended(Lane(v, q[v]), Lane(v, q1[v]), Num(v, m))
         /\ v # t /\ v # u => Lane(v, q1[v]) = Lane(v, q[v])
  BY QueuedLane
<1>2. LaneNo("n2") = 1 /\ LaneNo("n1") = 2 /\ LaneNo("app") = 3
  BY DEF LaneNo
<1>3. LaneNo(t) \in 2..3 /\ t # u /\ t \in {"app", "n1", "n2"}
  BY <1>2
<1>4. \A v, w \in {"app", "n1", "n2"} : LaneNo(v) = LaneNo(w) => v = w
  BY DEF LaneNo
<1>. DEFINE L == Line(q, h, g)
            M == Line(q1, h, g)
<1>5. /\ L[0] = g /\ L[4] = h /\ M[0] = g /\ M[4] = h
      /\ \A v \in {"app", "n1", "n2"} :
            L[LaneNo(v)] = Lane(v, q[v]) /\ M[LaneNo(v)] = Lane(v, q1[v])
  BY <1>2, LineIs
<1>. HIDE DEF L, M
<1>6. L[LaneNo(t)][1] = Num(t, Head(q[t]))
  BY <1>1, <1>3, <1>5 DEF Tasks
<1>7. ASSUME NEW v \in {"app", "n1", "n2"}
      PROVE  LET s == LaneNo(v) IN
             IF s = LaneNo(t) THEN Popped(L[s], M[s])
             ELSE IF s = LaneNo(t) - 1 THEN Appended(L[s], M[s], L[LaneNo(t)][1])
             ELSE M[s] = L[s]
  <2>1. v \in Tasks
    BY DEF Tasks
  <2>. QED  BY <1>1, <1>3, <1>4, <1>5, <1>6, <2>1
<1>8. Passes(L, M, LaneNo(t))
  <2> SUFFICES ASSUME NEW s \in Stages
               PROVE  IF s = LaneNo(t) THEN Popped(L[s], M[s])
                      ELSE IF s = LaneNo(t) - 1 THEN Appended(L[s], M[s], L[LaneNo(t)][1])
                      ELSE M[s] = L[s]
    BY Zenon DEF Passes
  <2>1. s = 0 \/ s = 1 \/ s = 2 \/ s = 3 \/ s = 4
    BY DEF Stages
  <2>2. CASE s = 0 \/ s = 4
    BY <1>3, <1>5, <2>2
  <2>3. CASE s = 1
    BY <1>2, <1>7, <2>3
  <2>4. CASE s = 2
    BY <1>2, <1>7, <2>4
  <2>5. CASE s = 3
    BY <1>2, <1>7, <2>5
  <2>. QED  BY <2>1, <2>2, <2>3, <2>4, <2>5
<1>. QED  BY <1>3, <1>6, <1>8 DEF L, M

\* The first of TASK_AMF_N2 is sent to the gNB.
LEMMA QueuedLast ==
    ASSUME NEW q \in [Tasks -> Seq(Messages)], NEW q1, NEW m \in Messages, NEW h,
           NEW g \in Seq(Nat), NEW n \in Nat, Num("n2", Head(q["n2"])) = n,
           Queued(q, q1, "n2", "none", m)
    PROVE  /\ Passes(Line(q, h, g), Line(q1, h, Append(g, n)), 1)
           /\ Line(q, h, g)[1][1] = n
<1>1. \A v \in Tasks :
         /\ v = "n2" => Popped(Lane(v, q[v]), Lane(v, q1[v])) /\ Lane(v, q[v])[1] = Num(v, Head(q[v]))
         /\ v # "n2" /\ v # "none" => Lane(v, q1[v]) = Lane(v, q[v])
  BY QueuedLane
<1>2. /\ Popped(Lane("n2", q["n2"]), Lane("n2", q1["n2"])) /\ Lane("n2", q["n2"])[1] = n
      /\ Lane("n1", q1["n1"]) = Lane("n1", q["n1"]) /\ Lane("app", q1["app"]) = Lane("app", q["app"])
  BY <1>1 DEF Tasks
<1>. DEFINE g1 == Append(g, n)
            L == Line(q, h, g)
            M == Line(q1, h, g1)
<1>3. Appended(g, g1, n)
  BY AppendOf
<1>. HIDE DEF g1
<1>4. /\ L[0] = g /\ L[1] = Lane("n2", q["n2"]) /\ L[2] = Lane("n1", q["n1"])
      /\ L[3] = Lane("app", q["app"]) /\ L[4] = h
      /\ M[0] = g1 /\ M[1] = Lane("n2", q1["n2"]) /\ M[2] = Lane("n1", q1["n1"])
      /\ M[3] = Lane("app", q1["app"]) /\ M[4] = h
  BY LineIs
<1>. HIDE DEF L, M
<1>5. Popped(L[1], M[1]) /\ Appended(L[0], M[0], L[1][1]) /\ L[1][1] = n
  BY <1>2, <1>3, <1>4
<1>6. M[2] = L[2] /\ M[3] = L[3] /\ M[4] = L[4]
  BY <1>2, <1>4
<1>7. \A s \in Stages : s = 0 \/ s = 1 \/ s = 2 \/ s = 3 \/ s = 4
  BY DEF Stages
<1>8. Passes(L, M, 1)
  <2> SUFFICES ASSUME NEW s \in Stages
               PROVE  IF s = 1 THEN Popped(L[s], M[s])
                      ELSE IF s = 1 - 1 THEN Appended(L[s], M[s], L[1][1])
                      ELSE M[s] = L[s]
    BY Zenon DEF Passes
  <2>1. CASE s = 0
    BY <1>5, <2>1
  <2>2. CASE s = 1
    BY <1>5, <2>2
  <2>3. CASE s = 2 \/ s = 3 \/ s = 4
    BY <1>6, <2>3
  <2>. QED  BY <1>7, <2>1, <2>2, <2>3
<1>. QED  BY <1>5, <1>8 DEF L, M, g1

\* A thread sends what it holds.
LEMMA QueuedEnters ==
    ASSUME NEW q \in [Tasks -> Seq(Messages)], NEW q1, NEW m \in Messages, NEW g,
           NEW h, NEW x \in Threads, Num("app", m) = h[x],
           Queued(q, q1, "none", "app", m)
    PROVE  Enters(Line(q, h, g), Line(q1, [h EXCEPT ![x] = 0], g), x)
<1>1. \A v \in Tasks :
         /\ v # "none" /\ v = "app" => Appended(Lane(v, q[v]), Lane(v, q1[v]), Num(v, m))
         /\ v # "none" /\ v # "app" => Lane(v, q1[v]) = Lane(v, q[v])
  BY QueuedLane
<1>2. /\ Appended(Lane("app", q["app"]), Lane("app", q1["app"]), h[x])
      /\ Lane("n1", q1["n1"]) = Lane("n1", q["n1"]) /\ Lane("n2", q1["n2"]) = Lane("n2", q["n2"])
  BY <1>1 DEF Tasks
<1>. DEFINE h1 == [h EXCEPT ![x] = 0]
            L == Line(q, h, g)
            M == Line(q1, h1, g)
<1>. HIDE DEF h1
<1>3. /\ L[0] = g /\ L[1] = Lane("n2", q["n2"]) /\ L[2] = Lane("n1", q["n1"])
      /\ L[3] = Lane("app", q["app"]) /\ L[4] = h
      /\ M[0] = g /\ M[1] = Lane("n2", q1["n2"]) /\ M[2] = Lane("n1", q1["n1"])
      /\ M[3] = Lane("app", q1["app"]) /\ M[4] = h1
  BY LineIs
<1>. HIDE DEF L, M
<1>4. Enters(L, M, x)
  BY <1>2, <1>3 DEF Enters, h1
<1>. QED  BY <1>4 DEF L, M, h1

\* An HTTP thread accepts a transfer.
LEMMA HeldAdds ==
    ASSUME NEW q \in [Tasks -> Seq(Messages)], NEW g \in Seq(Nat), NEW h \in [Threads -> Nat],
           NEW x \in Threads, h[x] = 0, NEW n \in Nat
    PROVE  Adds(Line(q, h, g), Line(q, [h EXCEPT ![x] = n], g), 4, x, n)
<1>. DEFINE h1 == [h EXCEPT ![x] = n]
            L == Line(q, h, g)
            M == Line(q, h1, g)
<1>. HIDE DEF h1
<1>1. /\ L[0] = M[0] /\ L[1] = M[1] /\ L[2] = M[2] /\ L[3] = M[3] /\ L[4] = h /\ M[4] = h1
  BY LineIs
<1>. HIDE DEF L, M
<1>2. \A s \in Stages : s = 4 \/ M[s] = L[s]
  BY <1>1 DEF Stages
<1>3. h1[x] = n /\ \A y \in Threads \ {x} : h1[y] = h[y]
  BY DEF h1
<1>4. 4 \in Stages
  BY DEF Stages
<1>5. Adds(L, M, 4, x, n)
  BY <1>1, <1>2, <1>3, <1>4 DEF Adds, Slots
<1>. QED  BY <1>5 DEF L, M, h1

\* TASK_AMF_SBI sends a transfer to TASK_AMF_APP.
LEMMA SentAdds ==
    ASSUME NEW q \in [Tasks -> Seq(Messages)], NEW q1, NEW m \in Messages, NEW g \in Seq(Nat),
           NEW h, Queued(q, q1, "none", "app", m), NEW n \in Nat, Num("app", m) = n
    PROVE  /\ Adds(Line(q, h, g), Line(q1, h, g), 3, Len(q["app"]) + 1, n)
           /\ Len(Line(q, h, g)[3]) = Len(q["app"])
<1>1. \A v \in Tasks :
         /\ v # "none" /\ v = "app" => Appended(Lane(v, q[v]), Lane(v, q1[v]), Num(v, m))
         /\ v # "none" /\ v # "app" => Lane(v, q1[v]) = Lane(v, q[v])
  BY SMTT(40), QueuedLane
<1>2. /\ Appended(Lane("app", q["app"]), Lane("app", q1["app"]), n)
      /\ Lane("n1", q1["n1"]) = Lane("n1", q["n1"]) /\ Lane("n2", q1["n2"]) = Lane("n2", q["n2"])
  BY <1>1 DEF Tasks
<1>3. q["app"] \in Seq(Messages)
  BY DEF Tasks
<1>4. Len(Lane("app", q["app"])) = Len(q["app"]) /\ Len(q["app"]) \in Nat
  BY <1>3, LaneOf
<1>. DEFINE L == Line(q, h, g)
            M == Line(q1, h, g)
            k == Len(q["app"])
<1>5. /\ L[0] = M[0] /\ L[1] = M[1] /\ L[2] = M[2] /\ L[4] = M[4]
      /\ Appended(L[3], M[3], n) /\ Len(L[3]) = k /\ k \in Nat
  BY <1>2, <1>4, LineIs
<1>. HIDE DEF L, M, k
<1>6. \A s \in Stages : s = 3 \/ M[s] = L[s]
  BY <1>5 DEF Stages
<1>7. /\ Slots(L, 3) = 1..k /\ Slots(M, 3) = 1..(k + 1) /\ 3 \in Stages
      /\ M[3][k + 1] = n /\ \A l \in 1..k : M[3][l] = L[3][l]
  BY <1>5 DEF Slots, Appended, Stages
<1>8. \A s \in Stages : s # 3 => Slots(M, s) = Slots(L, s)
  BY <1>6 DEF Slots
<1>9. /\ \A s \in Stages : \A l \in Slots(M, s) :
            ~(s = 3 /\ l = k + 1) => l \in Slots(L, s) /\ M[s][l] = L[s][l]
      /\ \A s \in Stages : \A l \in Slots(L, s) :
            ~(s = 3 /\ l = k + 1) => l \in Slots(M, s) /\ M[s][l] = L[s][l]
  <2>1. ASSUME NEW l \in Slots(M, 3), l # k + 1
        PROVE  l \in Slots(L, 3) /\ M[3][l] = L[3][l]
    BY <1>5, <1>7, <2>1
  <2>2. ASSUME NEW l \in Slots(L, 3)
        PROVE  l \in Slots(M, 3) /\ M[3][l] = L[3][l]
    BY <1>5, <1>7
  <2>3. ASSUME NEW s \in Stages, s # 3
        PROVE  Slots(M, s) = Slots(L, s) /\ M[s] = L[s]
    BY <1>6, <1>8, <2>3
  <2>4. ASSUME NEW s \in Stages, NEW l \in Slots(M, s), ~(s = 3 /\ l = k + 1)
        PROVE  l \in Slots(L, s) /\ M[s][l] = L[s][l]
    BY <2>1, <2>3, <2>4
  <2>5. ASSUME NEW s \in Stages, NEW l \in Slots(L, s), ~(s = 3 /\ l = k + 1)
        PROVE  l \in Slots(M, s) /\ M[s][l] = L[s][l]
    BY <2>2, <2>3, <2>5
  <2>. QED  BY <2>4, <2>5
<1>10. k + 1 \in Slots(M, 3) /\ k + 1 \notin Slots(L, 3)
  BY <1>5, <1>7
<1>11. Adds(L, M, 3, k + 1, n)
  BY <1>7, <1>9, <1>10 DEF Adds
<1>. QED  BY <1>5, <1>11 DEF L, M, k
-----------------------------------------------------------------------------
(* The inductive invariant and its parts, step by step.                    *)

LEMMA InitInv == Init => Inv
<1> SUFFICES ASSUME Init  PROVE Inv
  OBVIOUS
<1>. USE DEF Init
<1>1. SeqsOK
  <2>1. /\ queue \in [Tasks -> Seq(Messages)] /\ transfers \in Seq(Transfers)
        /\ contexts \in Seq(Contexts) /\ toGnb \in Seq(Nat)
    OBVIOUS
  <2>2. Len(contexts) = 0 /\ MaxContexts \in Nat /\ MaxAsks \in Nat
    BY PduAssumption
  <2>3. location \in [Sids -> {None} \cup 0..Len(contexts)] /\ storing \in [Threads -> Nat]
    OBVIOUS
  <2>4. requested \in BOOLEAN /\ linked \in BOOLEAN /\ dead \in BOOLEAN
    OBVIOUS
  <2>. QED  BY <2>1, <2>2, <2>3, <2>4 DEF SeqsOK
<1>2. QueuesOK /\ HoldsOK /\ CallingOK /\ TransfersOK
  BY DEF QueuesOK, QueueOK, HoldsOK, HeldOK, SentOK, CallingOK, TransfersOK
<1>3. LocationsOK
  BY DEF LocationsOK
<1>4. Ordered /\ Kept
  BY DEF Ordered, Kept, InOrder, Awaited
<1>. QED  BY <1>1, <1>2, <1>3, <1>4 DEF Inv

LEMMA LineFacts ==
    ASSUME Inv
    PROVE  /\ LinesOK(Line(queue, storing, toGnb))
           /\ Len(transfers) \in Nat
           /\ Bounded(Line(queue, storing, toGnb), transfers)
           /\ \A t \in TaskOrNone : LaneNo(t) # 5 /\ queue[t] # <<>> =>
                 1 \in Slots(Line(queue, storing, toGnb), LaneNo(t))
<1>. DEFINE L == Line(queue, storing, toGnb)
<1>0. /\ queue \in [Tasks -> Seq(Messages)] /\ toGnb \in Seq(Nat)
      /\ storing \in [Threads -> Nat] /\ transfers \in Seq(Transfers)
      /\ QueuesOK /\ HoldsOK
  BY DEF Inv, SeqsOK
<1>1. LinesOK(L) /\ Len(transfers) \in Nat
  BY <1>0, LineTyped
<1>2. /\ L[0] = toGnb /\ L[1] = Lane("n2", queue["n2"]) /\ L[2] = Lane("n1", queue["n1"])
      /\ L[3] = Lane("app", queue["app"]) /\ L[4] = storing
  BY LineIs
<1>. HIDE DEF L
<1>3. ASSUME NEW t \in Tasks
      PROVE  /\ Len(Lane(t, queue[t])) = Len(queue[t])
             /\ \A k \in 1..Len(queue[t]) : Lane(t, queue[t])[k] \in 0..Len(transfers)
             /\ queue[t] # <<>> => 1 \in 1..Len(queue[t])
  <2>1. queue[t] \in Seq(Messages) /\ Len(queue[t]) \in Nat
    BY <1>0
  <2>2. /\ Len(Lane(t, queue[t])) = Len(queue[t])
        /\ \A k \in 1..Len(queue[t]) : Lane(t, queue[t])[k] = Num(t, queue[t][k])
    BY <2>1, LaneOf
  <2>3. \A k \in 1..Len(queue[t]) :
           queue[t][k] \in Messages /\ MsgOK(transfers, t, queue[t][k])
    BY <1>0, <2>1 DEF QueuesOK, QueueOK
  <2>4. \A k \in 1..Len(queue[t]) : queue[t][k].n \in 0..Len(transfers)
    BY <1>1, <2>3 DEF MsgOK, Messages
  <2>5. \A k \in 1..Len(queue[t]) : Lane(t, queue[t])[k] \in 0..Len(transfers)
    BY <1>1, <2>2, <2>4 DEF Num
  <2>6. queue[t] # <<>> => 1 \in 1..Len(queue[t])
    BY <2>1
  <2>. QED  BY <2>2, <2>5, <2>6
<1>4. \A k \in 1..Len(toGnb) : toGnb[k] \in 0..Len(transfers)
  BY <1>0, <1>1 DEF HoldsOK, SentOK
<1>5. \A x \in Threads : storing[x] \in 0..Len(transfers)
  BY <1>0, <1>1 DEF HoldsOK, HeldOK
<1>6. Bounded(L, transfers)
  <2> SUFFICES ASSUME NEW s \in Stages, NEW k \in Slots(L, s)
               PROVE  L[s][k] \in 0..Len(transfers)
    BY DEF Bounded
  <2>1. s = 0 \/ s = 1 \/ s = 2 \/ s = 3 \/ s = 4
    BY DEF Stages
  <2>2. CASE s = 0
    BY <1>2, <1>4, <2>2 DEF Slots
  <2>3. CASE s = 1
    BY <1>2, <1>3, <2>3 DEF Slots, Tasks
  <2>4. CASE s = 2
    BY <1>2, <1>3, <2>4 DEF Slots, Tasks
  <2>5. CASE s = 3
    BY <1>2, <1>3, <2>5 DEF Slots, Tasks
  <2>6. CASE s = 4
    BY <1>2, <1>5, <2>6 DEF Slots
  <2>. QED  BY <2>1, <2>2, <2>3, <2>4, <2>5, <2>6
<1>7. ASSUME NEW t \in TaskOrNone, LaneNo(t) # 5, queue[t] # <<>>
      PROVE  1 \in Slots(L, LaneNo(t))
  <2>1. /\ t \in Tasks /\ LaneNo(t) # 4
        /\ L[LaneNo(t)] = Lane(t, queue[t])
    BY <1>2, <1>7 DEF LaneNo, TaskOrNone, Tasks
  <2>. QED  BY <1>3, <1>7, <2>1 DEF Slots
<1>. QED  BY <1>1, <1>6, <1>7 DEF L

\* What a step does to the queues keeps what they hold.
LEMMA QueuesAfter ==
    ASSUME Inv, NEW t, NEW u, NEW m \in Messages, Queued(queue, queue', t, u, m),
           Grows(transfers, transfers'), u \in Tasks => MsgOK(transfers', u, m)
    PROVE  queue' \in [Tasks -> Seq(Messages)] /\ QueuesOK'
<1>1. queue \in [Tasks -> Seq(Messages)] /\ \A v \in Tasks : QueueOK(transfers, v, queue[v])
  BY DEF Inv, SeqsOK, QueuesOK
<1>2. queue' \in [Tasks -> Seq(Messages)]
  BY <1>1, QueuedTyped
<1>3. \A v \in Tasks : QueueOK(transfers', v, queue'[v])
  BY <1>1, QueuedOK
<1>. QED  BY <1>2, <1>3 DEF QueuesOK

\* The step of the line, when no transfer goes on to the next lane: that of the
\* message task t has taken is accepted no more.
LEMMA DropStep ==
    ASSUME Inv, NEW t \in TaskOrNone, NEW u \in TaskOrNone, NEW m \in Messages,
           Queued(queue, queue', t, u, m), NoNum(u, m),
           storing' = storing, toGnb' = toGnb, SameSources(transfers, transfers'),
           queue' \in [Tasks -> Seq(Messages)],
           \A n \in 1..Len(transfers) : transfers'[n].fate = "accepted" <=>
              transfers[n].fate = "accepted" /\ (LaneNo(t) = 5 \/ Num(t, Head(queue[t])) # n)
    PROVE  Ordered' /\ Kept'
<1>. DEFINE L == Line(queue, storing, toGnb)
            M == Line(queue', storing, toGnb)
            a == LaneNo(t)
            b == LaneNo(u)
<1>1. queue \in [Tasks -> Seq(Messages)] /\ toGnb \in Seq(Nat)
  BY DEF Inv, SeqsOK
<1>2. /\ Drops(L, M, a, b) /\ a \in {1, 2, 3, 5} /\ b \in {1, 2, 3, 5}
      /\ a # 5 => L[a][1] = Num(t, Head(queue[t]))
  <2>1. Dropped(queue, queue', t, u, storing, toGnb)
    BY <1>1, QueuedDrops
  <2>. QED  BY <2>1 DEF Dropped
<1>3. LinesOK(L) /\ LinesOK(M) /\ Len(transfers) \in Nat
  BY <1>1, LineTyped, LineFacts
<1>4. a # 5 => t \in Tasks
  BY DEF LaneNo, Tasks
<1>5. a # 5 => 1 \in Slots(L, a)
  BY <1>4, LineFacts DEF Queued
<1>6. InOrder(L, transfers) /\ Awaited(L, transfers)
  BY DEF Inv, Ordered, Kept
<1>7. Ordered' <=> InOrder(M, transfers')
  BY DEF Ordered
<1>8. Kept' <=> Awaited(M, transfers')
  BY DEF Kept
<1>9. \A n \in 1..Len(transfers) : transfers'[n].fate = "accepted" <=>
         transfers[n].fate = "accepted" /\ (a = 5 \/ L[a][1] # n)
  BY <1>2
<1>. HIDE DEF L, M, a, b
<1>10. InOrder(M, transfers') /\ Awaited(M, transfers')
  BY <1>2, <1>3, <1>5, <1>6, <1>9, DropsInv
<1>. QED  BY <1>7, <1>8, <1>10

\* The step of the line, when a transfer goes on.
LEMMA PassStep ==
    ASSUME Inv, NEW t \in {"app", "n1"}, NEW u \in {"n1", "n2"}, LaneNo(u) = LaneNo(t) - 1,
           NEW m \in Messages, Queued(queue, queue', t, u, m),
           Num(u, m) = Num(t, Head(queue[t])),
           storing' = storing, toGnb' = toGnb, transfers' = transfers,
           queue' \in [Tasks -> Seq(Messages)]
    PROVE  Ordered' /\ Kept'
<1>. DEFINE L == Line(queue, storing, toGnb)
            M == Line(queue', storing, toGnb)
            a == LaneNo(t)
<1>1. queue \in [Tasks -> Seq(Messages)] /\ toGnb \in Seq(Nat)
  BY DEF Inv, SeqsOK
<1>2. Passes(L, M, a) /\ a \in 2..3
  BY <1>1, QueuedPasses
<1>3. LinesOK(L) /\ LinesOK(M) /\ Len(transfers) \in Nat
  BY <1>1, LineTyped, LineFacts
<1>4. t \in Tasks /\ t \in TaskOrNone /\ a # 5
  BY <1>2 DEF Tasks, TaskOrNone
<1>5. 1 \in Slots(L, a)
  BY <1>4, LineFacts DEF Queued
<1>6. InOrder(L, transfers) /\ Awaited(L, transfers)
  BY DEF Inv, Ordered, Kept
<1>7. Ordered' <=> InOrder(M, transfers)
  BY DEF Ordered
<1>8. Kept' <=> Awaited(M, transfers)
  BY DEF Kept
<1>. HIDE DEF L, M, a
<1>9. a \in 1..3 /\ \A n \in 1..Len(transfers) : transfers[n].fate = "accepted" <=>
         transfers[n].fate = "accepted" /\ (a > 1 \/ L[a][1] # n)
  BY <1>2
<1>10. SameSources(transfers, transfers)
  BY DEF SameSources
<1>11. InOrder(M, transfers) /\ Awaited(M, transfers)
  BY <1>2, <1>3, <1>5, <1>6, <1>9, <1>10, PassesInv
<1>. QED  BY <1>7, <1>8, <1>11

\* The contexts, when none is made and none becomes known, and the transfers,
\* when none is accepted.
SameContexts(c, c1) ==
    /\ Len(c1) = Len(c)
    /\ \A d \in 1..Len(c) : c1[d].sid = c[d].sid /\ c1[d].known = c[d].known
SameTransfers(tr, tr1) ==
    /\ Len(tr1) = Len(tr)
    /\ \A n \in 1..Len(tr) :
          /\ tr1[n].sid = tr[n].sid /\ tr1[n].src = tr[n].src /\ tr1[n].ctx = tr[n].ctx
          /\ tr1[n].kind = tr[n].kind

SettledAs(tr, tr1, n, f) ==
    /\ tr1 \in Seq(Transfers) /\ SameTransfers(tr, tr1)
    /\ tr1[n].fate = f
    /\ \A i \in 1..Len(tr) : i # n => tr1[i] = tr[i]

LEMMA SettledIs ==
    ASSUME NEW tr \in Seq(Transfers), NEW n \in 1..Len(tr), NEW f \in Fates
    PROVE  SettledAs(tr, [tr EXCEPT ![n].fate = f], n, f)
<1>. DEFINE e == [tr[n] EXCEPT !.fate = f]
            tr1 == [tr EXCEPT ![n] = e]
<1>1. tr[n] \in Transfers /\ Len(tr) \in Nat
  OBVIOUS
<1>2. /\ e \in Transfers /\ e.sid = tr[n].sid /\ e.kind = tr[n].kind /\ e.ctx = tr[n].ctx
      /\ e.src = tr[n].src /\ e.fate = f
  BY <1>1 DEF Transfers
<1>. HIDE DEF e
<1>3. /\ tr1 \in Seq(Transfers) /\ Len(tr1) = Len(tr) /\ tr1[n] = e
      /\ \A i \in 1..Len(tr) : i # n => tr1[i] = tr[i]
  BY <1>2
<1>. HIDE DEF tr1
<1>4. SameTransfers(tr, tr1)
  <2> SUFFICES ASSUME NEW i \in 1..Len(tr)
               PROVE  /\ tr1[i].sid = tr[i].sid /\ tr1[i].src = tr[i].src /\ tr1[i].ctx = tr[i].ctx
                      /\ tr1[i].kind = tr[i].kind
    BY <1>3 DEF SameTransfers
  <2>1. CASE i = n
    BY <1>2, <1>3, <2>1
  <2>2. CASE i # n
    BY <1>3, <2>2
  <2>. QED  BY <2>1, <2>2
<1>5. tr1 = [tr EXCEPT ![n].fate = f]
  BY DEF tr1, e
<1>. QED  BY <1>2, <1>3, <1>4, <1>5 DEF SettledAs

LEMMA SameGrows ==
    ASSUME NEW tr, NEW tr1, Len(tr) \in Nat, SameTransfers(tr, tr1)
    PROVE  Grows(tr, tr1) /\ SameSources(tr, tr1)
  BY DEF SameTransfers, Grows, SameSources

LEMMA SameAsIs ==
    /\ \A tr : SameTransfers(tr, tr)
    /\ \A c : SameContexts(c, c)
  BY DEF SameTransfers, SameContexts

\* What the threads hold and the gNB was sent stays accepted.
LEMMA HoldsGrow ==
    ASSUME Inv, Grows(transfers, transfers'), storing' = storing, toGnb' = toGnb
    PROVE  HoldsOK'
<1>1. HeldOK(transfers, storing) /\ SentOK(transfers, toGnb) /\ storing \in [Threads -> Nat]
  BY DEF Inv, HoldsOK, SeqsOK
<1>2. HeldOK(transfers', storing)
  BY <1>1 DEF HeldOK, Grows
<1>3. SentOK(transfers', toGnb)
  BY <1>1 DEF SentOK, Grows
<1>. QED  BY <1>2, <1>3 DEF HoldsOK

\* The contexts, the sessions and the request of TASK_AMF_SBI, when at most
\* sessions are forgotten or found.
LEMMA QuietStep ==
    ASSUME Inv, SameContexts(contexts, contexts'), SameTransfers(transfers, transfers'),
           \A s \in Sids : location'[s] \in {location[s], None, 0},
           calling' = calling \/ calling' = None \/ CallingOK'
    PROVE  CallingOK' /\ LocationsOK' /\ TransfersOK'
<1>1. /\ CallingOK /\ LocationsOK /\ TransfersOK /\ Len(transfers) \in Nat /\ Len(contexts) \in Nat
      /\ None \notin Int
  BY PduAssumption DEF Inv, SeqsOK
<1>2. CallingOK'
  <2> SUFFICES ASSUME calling' = calling, calling # None
               PROVE  CallingOK'
    BY DEF CallingOK
  <2>1. calling' = calling /\ calling # None
    OBVIOUS
  <2>2. /\ calling \in Messages /\ calling.what \in {"create", "update"}
        /\ calling.what = "create" /\ calling.n # 0 =>
             calling.n = Len(contexts) /\ contexts[calling.n].sid = calling.sid
        /\ calling.what = "update" => calling.n <= Len(transfers)
        /\ calling.what = "update" /\ calling.n # 0 => transfers[calling.n].sid = calling.sid
        /\ calling.n \in Nat
    BY <1>1, <2>1 DEF CallingOK, Messages
  <2>3. calling.what = "create" /\ calling.n # 0 =>
           calling.n = Len(contexts') /\ contexts'[calling.n].sid = calling.sid
    BY <1>1, <2>2 DEF SameContexts
  <2>4. /\ calling.what = "update" => calling.n <= Len(transfers')
        /\ calling.what = "update" /\ calling.n # 0 => transfers'[calling.n].sid = calling.sid
    BY <1>1, <2>2 DEF SameTransfers
  <2>. QED  BY <2>1, <2>2, <2>3, <2>4 DEF CallingOK
<1>3. LocationsOK'
  <2> SUFFICES ASSUME NEW s \in Sids, location'[s] \in 1..Len(contexts')
               PROVE  /\ contexts'[location'[s]].sid = s
                      /\ \A d \in 1..Len(contexts') :
                            contexts'[d].known /\ contexts'[d].sid = s => d <= location'[s]
    BY DEF LocationsOK
  <2>1. location'[s] = location[s] /\ location[s] \in 1..Len(contexts)
    BY <1>1 DEF SameContexts
  <2>2. /\ contexts[location[s]].sid = s
        /\ \A d \in 1..Len(contexts) : contexts[d].known /\ contexts[d].sid = s => d <= location[s]
    BY <1>1, <2>1 DEF LocationsOK
  <2>. QED  BY <2>1, <2>2 DEF SameContexts
<1>4. TransfersOK'
  <2> SUFFICES ASSUME NEW n \in 1..Len(transfers')
               PROVE  /\ transfers'[n].ctx \in {None} \cup 0..Len(contexts')
                      /\ transfers'[n].ctx \in 1..Len(contexts') =>
                            contexts'[transfers'[n].ctx].sid = transfers'[n].sid
    BY DEF TransfersOK
  <2>1. n \in 1..Len(transfers)
    BY DEF SameTransfers
  <2>2. /\ transfers[n].ctx \in {None} \cup 0..Len(contexts)
        /\ transfers[n].ctx \in 1..Len(contexts) =>
              contexts[transfers[n].ctx].sid = transfers[n].sid
    BY <1>1, <2>1 DEF TransfersOK
  <2>3. /\ transfers'[n].sid = transfers[n].sid /\ transfers'[n].ctx = transfers[n].ctx
        /\ transfers'[n].kind = transfers[n].kind
    BY <2>1 DEF SameTransfers
  <2>. QED  BY <2>2, <2>3 DEF SameContexts
<1>. QED  BY <1>2, <1>3, <1>4

\* The steps that do no more to the line than take a transfer off it.
LEMMA QuietDrop ==
    ASSUME Inv, NEW t \in TaskOrNone, NEW u \in TaskOrNone, NEW m \in Messages,
           Queued(queue, queue', t, u, m), NoNum(u, m),
           u \in Tasks => MsgOK(transfers', u, m),
           storing' = storing, toGnb' = toGnb,
           transfers' \in Seq(Transfers), SameTransfers(transfers, transfers'),
           \A n \in 1..Len(transfers) : transfers'[n].fate = "accepted" <=>
              transfers[n].fate = "accepted" /\ (LaneNo(t) = 5 \/ Num(t, Head(queue[t])) # n),
           contexts' \in Seq(Contexts), SameContexts(contexts, contexts'),
           location' \in [Sids -> {None} \cup 0..Len(contexts)],
           \A s \in Sids : location'[s] \in {location[s], None, 0},
           calling' = calling \/ calling' = None \/ CallingOK',
           UNCHANGED <<requested, linked>>, dead' \in BOOLEAN, asks' \in 0..MaxAsks
    PROVE  Inv'
<1>1. /\ Len(transfers) \in Nat /\ toGnb \in Seq(Nat) /\ storing \in [Threads -> Nat]
      /\ requested \in BOOLEAN /\ linked \in BOOLEAN /\ dead \in BOOLEAN
      /\ Len(contexts) <= MaxContexts
  BY DEF Inv, SeqsOK
<1>2. Grows(transfers, transfers') /\ SameSources(transfers, transfers')
  BY <1>1, SameGrows
<1>3. queue' \in [Tasks -> Seq(Messages)] /\ QueuesOK'
  BY <1>2, QueuesAfter
<1>4. HoldsOK'
  BY <1>2, HoldsGrow
<1>5. CallingOK' /\ LocationsOK' /\ TransfersOK'
  BY QuietStep
<1>6. Ordered' /\ Kept'
  BY <1>2, <1>3, DropStep
<1>7. Len(contexts') = Len(contexts)
  BY DEF SameContexts
<1>8. SeqsOK'
  BY <1>1, <1>3, <1>7 DEF SeqsOK
<1>. QED  BY <1>3, <1>4, <1>5, <1>6, <1>8 DEF Inv

LEMMA Unchanged ==
    ASSUME Inv
    PROVE  /\ transfers \in Seq(Transfers) /\ SameTransfers(transfers, transfers)
           /\ contexts \in Seq(Contexts) /\ SameContexts(contexts, contexts)
           /\ location \in [Sids -> {None} \cup 0..Len(contexts)]
           /\ \A s \in Sids : location[s] \in {location[s], None, 0}
           /\ asks \in 0..MaxAsks /\ dead \in BOOLEAN /\ Len(transfers) \in Nat
  BY SameAsIs DEF Inv, SeqsOK

\* The steps that do nothing to the line.
LEMMA LineStill ==
    ASSUME Inv, UNCHANGED <<queue, storing, transfers, toGnb>>
    PROVE  QueuesOK' /\ HoldsOK' /\ Ordered' /\ Kept'
  BY DEF Inv, QueuesOK, HoldsOK, Ordered, Kept

\* The steps that settle only what has left the line.
LEMMA LineSettled ==
    ASSUME Inv, UNCHANGED <<queue, storing, toGnb>>, SameTransfers(transfers, transfers'),
           \A n \in 1..Len(transfers) :
              transfers'[n].fate = "accepted" <=> transfers[n].fate = "accepted"
    PROVE  QueuesOK' /\ HoldsOK' /\ Ordered' /\ Kept'
<1>1. Len(transfers) \in Nat /\ Len(transfers') = Len(transfers)
  BY Unchanged DEF SameTransfers
<1>2. Grows(transfers, transfers') /\ SameSources(transfers, transfers')
  BY <1>1, SameGrows
<1>3. QueuesOK'
  <2> SUFFICES ASSUME NEW t \in Tasks, NEW k \in 1..Len(queue[t])
               PROVE  MsgOK(transfers', t, queue[t][k])
    BY DEF QueuesOK, QueueOK
  <2>1. MsgOK(transfers, t, queue[t][k]) /\ queue[t][k] \in Messages
    BY DEF Inv, SeqsOK, QueuesOK, QueueOK
  <2>. QED  BY <1>1, <2>1 DEF MsgOK, SameTransfers, Messages
<1>4. HoldsOK'
  BY <1>2, HoldsGrow
<1>. DEFINE L == Line(queue, storing, toGnb)
<1>5. Line(queue', storing', toGnb') = L
  OBVIOUS
<1>6. InOrder(L, transfers) /\ Awaited(L, transfers)
  BY DEF Inv, Ordered, Kept
<1>. HIDE DEF L
<1>7. InOrder(L, transfers')
  BY <1>1, <1>2, <1>6 DEF InOrder, SameSources
<1>8. Awaited(L, transfers')
  BY <1>1, <1>6 DEF Awaited
<1>. QED  BY <1>3, <1>4, <1>5, <1>7, <1>8 DEF Ordered, Kept

LEMMA MsgTyped ==
    /\ \A what \in {"create", "update", "transfer", "paging", "released", "downlink"},
          s \in Sids, n \in Nat :
          /\ Msg(what, s, n) \in Messages
          /\ Msg(what, s, n).what = what /\ Msg(what, s, n).sid = s /\ Msg(what, s, n).n = n
  BY DEF Msg, Messages

\* What the two kinds of changes of the queues are.
LEMMA SendIs ==
    ASSUME Inv, NEW u \in Tasks, NEW m \in Messages, Send(u, m)
    PROVE  Queued(queue, queue', "none", u, m)
<1>1. queue \in [Tasks -> Seq(Messages)] /\ "none" \notin Tasks
  BY DEF Inv, SeqsOK, Tasks
<1>. QED  BY <1>1 DEF Send, Queued

LEMMA TakeIs ==
    ASSUME Inv, NEW t \in Tasks, queue[t] # <<>>, Take(t)
    PROVE  Queued(queue, queue', t, "none", Head(queue[t]))
<1>1. queue \in [Tasks -> Seq(Messages)] /\ "none" \notin Tasks
  BY DEF Inv, SeqsOK, Tasks
<1>. QED  BY <1>1 DEF Take, Queued

LEMMA ForwardIs ==
    ASSUME Inv, NEW t \in Tasks, NEW u \in Tasks, t # u, queue[t] # <<>>, NEW m \in Messages,
           Forward(t, u, m)
    PROVE  Queued(queue, queue', t, u, m)
<1>1. queue \in [Tasks -> Seq(Messages)]
  BY DEF Inv, SeqsOK
<1>. QED  BY <1>1 DEF Forward, Queued

\* The first message of a queue.
LEMMA HeadIs ==
    ASSUME Inv, NEW t \in Tasks, queue[t] # <<>>
    PROVE  /\ Head(queue[t]) \in Messages /\ MsgOK(transfers, t, Head(queue[t]))
           /\ Head(queue[t]).n \in 0..Len(transfers) /\ Len(transfers) \in Nat
<1>1. /\ queue[t] \in Seq(Messages) /\ QueueOK(transfers, t, queue[t])
      /\ Len(transfers) \in Nat
  BY DEF Inv, SeqsOK, QueuesOK
<1>2. Head(queue[t]) = queue[t][1] /\ 1 \in 1..Len(queue[t])
  BY <1>1, TailOf
<1>3. Head(queue[t]) \in Messages /\ MsgOK(transfers, t, Head(queue[t]))
  BY <1>1, <1>2 DEF QueueOK
<1>. QED  BY <1>1, <1>3 DEF MsgOK, Messages

LEMMA NoneIs == "none" \in TaskOrNone /\ "none" \notin Tasks /\ LaneNo("none") = 5
                /\ LaneNo("sbi") = 5 /\ LaneNo("app") = 3 /\ LaneNo("n1") = 2 /\ LaneNo("n2") = 1
                /\ \A t \in Tasks : t \in TaskOrNone
                /\ \A m : NoNum("none", m)
  BY DEF TaskOrNone, Tasks, LaneNo, NoNum
-----------------------------------------------------------------------------
(* The actions.                                                            *)

LEMMA UeAsksStep ==
    ASSUME Inv, NEW s \in Sids, NEW what \in {"create", "update"}, UeAsks(s, what)
    PROVE  Inv'
<1>. DEFINE m == Msg(what, s, 0)
<1>1. m \in Messages /\ m.what = what /\ m.n = 0
  BY MsgTyped
<1>. HIDE DEF m
<1>2. "n1" \in Tasks
  BY DEF Tasks
<1>3. Queued(queue, queue', "none", "n1", m)
  BY <1>1, <1>2, SendIs DEF UeAsks, m
<1>4. NoNum("n1", m) /\ MsgOK(transfers, "n1", m)
  BY <1>1, Unchanged DEF NoNum, Num, MsgOK, Whats
<1>5. asks' \in 0..MaxAsks
  BY PduAssumption, Unchanged DEF UeAsks
<1>. QED  BY <1>1, <1>2, <1>3, <1>4, <1>5, NoneIs, Unchanged, QuietDrop DEF UeAsks

LEMMA UeMovesStep == Inv /\ (UeMoves \/ Reregistered) => Inv'
<1> SUFFICES ASSUME Inv, UeMoves \/ Reregistered  PROVE Inv'
  OBVIOUS
<1>1. UNCHANGED <<queue, storing, transfers, toGnb, contexts, calling, dead>>
  BY DEF UeMoves, Reregistered
<1>2. QueuesOK' /\ HoldsOK' /\ Ordered' /\ Kept'
  BY <1>1, LineStill
<1>3. \A s \in Sids : location'[s] \in {location[s], None, 0}
  BY Unchanged DEF UeMoves, Reregistered
<1>4. CallingOK' /\ LocationsOK' /\ TransfersOK'
  BY <1>1, <1>3, Unchanged, QuietStep
<1>5. location' \in [Sids -> {None} \cup 0..Len(contexts)]
  BY Unchanged DEF UeMoves, Reregistered
<1>6. asks' \in 0..MaxAsks
  BY PduAssumption, Unchanged DEF UeMoves, Reregistered
<1>7. requested' \in BOOLEAN /\ linked' \in BOOLEAN
  BY DEF Inv, SeqsOK, UeMoves, Reregistered
<1>8. SeqsOK'
  BY <1>1, <1>5, <1>6, <1>7 DEF Inv, SeqsOK
<1>. QED  BY <1>2, <1>4, <1>8 DEF Inv

\* A context that is made is the newest, and is not known yet.
LEMMA SmfCreatesStep == Inv /\ SmfCreates => Inv'
<1> SUFFICES ASSUME Inv, SmfCreates  PROVE Inv'
  OBVIOUS
<1>. DEFINE e == [sid |-> calling.sid, known |-> FALSE, open |-> TRUE]
            n == Len(contexts) + 1
<1>1. UNCHANGED <<queue, storing, transfers, toGnb, location, requested, linked, asks, dead>>
  BY DEF SmfCreates, ue
<1>2. QueuesOK' /\ HoldsOK' /\ Ordered' /\ Kept'
  BY <1>1, LineStill
<1>3. /\ calling # None /\ calling \in Messages /\ calling.what = "create"
      /\ calling' = [calling EXCEPT !.n = n]
      /\ contexts' = Append(contexts, e) /\ n <= MaxContexts
      /\ contexts \in Seq(Contexts) /\ Len(contexts) \in Nat /\ n \in Nat
      /\ MaxContexts \in Nat
  BY PduAssumption DEF SmfCreates, Inv, SeqsOK, CallingOK
<1>4. calling.sid \in Sids
  BY <1>3 DEF Messages
<1>5. e \in Contexts /\ e.sid = calling.sid /\ ~e.known
  BY <1>4 DEF Contexts
<1>. HIDE DEF e
<1>6. /\ contexts' \in Seq(Contexts) /\ Len(contexts') = n /\ contexts'[n] = e
      /\ \A d \in 1..Len(contexts) : contexts'[d] = contexts[d]
  BY <1>3, <1>5, AppendOf DEF Appended
<1>7. /\ calling' \in Messages /\ calling'.what = "create" /\ calling'.n = n
      /\ calling'.sid = calling.sid
  BY <1>3 DEF Messages
<1>8. CallingOK'
  BY <1>5, <1>6, <1>7 DEF CallingOK
<1>9. location \in [Sids -> {None} \cup 0..Len(contexts)] /\ LocationsOK /\ None \notin Int
  BY PduAssumption DEF Inv, SeqsOK
<1>10. LocationsOK'
  <2> SUFFICES ASSUME NEW s \in Sids, location[s] \in 1..n
               PROVE  /\ contexts'[location[s]].sid = s
                      /\ \A d \in 1..n :
                            contexts'[d].known /\ contexts'[d].sid = s => d <= location[s]
    BY <1>1, <1>6 DEF LocationsOK
  <2>1. location[s] \in 1..Len(contexts)
    BY <1>3, <1>9
  <2>2. /\ contexts[location[s]].sid = s
        /\ \A d \in 1..Len(contexts) : contexts[d].known /\ contexts[d].sid = s => d <= location[s]
    BY <1>9, <2>1 DEF LocationsOK
  <2>. QED  BY <1>3, <1>5, <1>6, <2>1, <2>2
<1>11. TransfersOK'
  <2> SUFFICES ASSUME NEW i \in 1..Len(transfers)
               PROVE  /\ transfers[i].ctx \in {None} \cup 0..n
                      /\ transfers[i].ctx \in 1..n =>
                            contexts'[transfers[i].ctx].sid = transfers[i].sid
    BY <1>1, <1>6 DEF TransfersOK
  <2>1. /\ transfers[i].ctx \in {None} \cup 0..Len(contexts)
        /\ transfers[i].ctx \in 1..Len(contexts) =>
              contexts[transfers[i].ctx].sid = transfers[i].sid
    BY DEF Inv, TransfersOK
  <2>. QED  BY <1>3, <1>6, <1>9, <2>1
<1>12. location \in [Sids -> {None} \cup 0..n]
  BY <1>3, <1>9
<1>13. SeqsOK'
  BY <1>1, <1>3, <1>6, <1>12 DEF Inv, SeqsOK
<1>. QED  BY <1>2, <1>8, <1>10, <1>11, <1>13 DEF Inv

LEMMA SmfReleasedStep ==
    ASSUME Inv, NEW c \in DOMAIN contexts, SmfReleased(c)
    PROVE  Inv'
<1>. DEFINE m == Msg("released", contexts[c].sid, 0)
            e == [contexts[c] EXCEPT !.open = FALSE]
<1>1. contexts \in Seq(Contexts) /\ c \in 1..Len(contexts) /\ contexts[c] \in Contexts
  BY DEF Inv, SeqsOK
<1>2. contexts[c].sid \in Sids
  BY <1>1 DEF Contexts
<1>3. m \in Messages /\ m.what = "released" /\ m.n = 0
  BY <1>2, MsgTyped
<1>4. e \in Contexts /\ e.sid = contexts[c].sid /\ e.known = contexts[c].known
  BY <1>1 DEF Contexts
<1>5. contexts' = [contexts EXCEPT ![c] = e] /\ Send("app", m)
  BY DEF SmfReleased
<1>. HIDE DEF m, e
<1>6. contexts' \in Seq(Contexts) /\ SameContexts(contexts, contexts')
  <2>1. /\ contexts' \in Seq(Contexts) /\ Len(contexts') = Len(contexts) /\ contexts'[c] = e
        /\ \A d \in 1..Len(contexts) : d # c => contexts'[d] = contexts[d]
    BY <1>1, <1>4, <1>5
  <2>. QED  BY <1>4, <2>1 DEF SameContexts
<1>7. "app" \in Tasks
  BY DEF Tasks
<1>8. Queued(queue, queue', "none", "app", m)
  BY <1>3, <1>5, <1>7, SendIs
<1>9. NoNum("app", m) /\ MsgOK(transfers, "app", m)
  BY <1>3, Unchanged DEF NoNum, Num, MsgOK, Whats, Counted
<1>10. UNCHANGED <<storing, transfers, toGnb, location, calling, requested, linked, asks, dead>>
  BY DEF SmfReleased, ue
<1>. QED  BY <1>3, <1>6, <1>7, <1>8, <1>9, <1>10, NoneIs, Unchanged, QuietDrop

LEMMA GnbAnswersStep ==
    ASSUME Inv, NEW n \in DOMAIN transfers, GnbAnswers(n)
    PROVE  Inv'
<1>. DEFINE m == Msg("update", transfers[n].sid, n)
<1>1. /\ transfers \in Seq(Transfers) /\ n \in 1..Len(transfers) /\ transfers[n] \in Transfers
      /\ Len(transfers) \in Nat /\ n \in Nat
  BY DEF Inv, SeqsOK
<1>2. transfers[n].sid \in Sids /\ transfers[n].fate = "sent"
  BY <1>1 DEF Transfers, GnbAnswers
<1>3. m \in Messages /\ m.what = "update" /\ m.n = n /\ m.sid = transfers[n].sid
  BY <1>1, <1>2, MsgTyped
<1>4. transfers' = [transfers EXCEPT ![n].fate = "answered"] /\ Send("sbi", m)
  BY DEF GnbAnswers, Settle
<1>. HIDE DEF m
<1>5. /\ transfers' \in Seq(Transfers) /\ SameTransfers(transfers, transfers')
      /\ transfers'[n].fate = "answered"
      /\ \A i \in 1..Len(transfers) : i # n => transfers'[i] = transfers[i]
  <2>1. "answered" \in Fates
    BY DEF Fates
  <2>2. SettledAs(transfers, transfers', n, "answered")
    BY <1>1, <1>4, <2>1, SettledIs
  <2>. QED  BY <2>2 DEF SettledAs
<1>6. "sbi" \in Tasks
  BY DEF Tasks
<1>7. Queued(queue, queue', "none", "sbi", m)
  BY <1>3, <1>4, <1>6, SendIs
<1>8. NoNum("sbi", m)
  BY <1>3 DEF NoNum, Num, Counted
<1>9. MsgOK(transfers', "sbi", m)
  BY <1>1, <1>3, <1>5 DEF MsgOK, Whats, SameTransfers
<1>10. \A i \in 1..Len(transfers) :
          transfers'[i].fate = "accepted" <=> transfers[i].fate = "accepted"
  BY <1>1, <1>2, <1>5
<1>11. UNCHANGED <<storing, toGnb, location, contexts, calling, requested, linked, asks, dead>>
  BY DEF GnbAnswers, ue
<1>. QED  BY ZenonT(40), <1>3, <1>5, <1>6, <1>7, <1>8, <1>9, <1>10, <1>11, NoneIs, Unchanged, QuietDrop

LEMMA GnbRefusesStep ==
    ASSUME Inv, NEW n \in DOMAIN transfers, GnbRefuses(n)
    PROVE  Inv'
<1>1. /\ transfers \in Seq(Transfers) /\ n \in 1..Len(transfers) /\ Len(transfers) \in Nat
      /\ "refused" \in Fates /\ transfers[n].fate = "sent"
  BY DEF Inv, SeqsOK, Fates, GnbRefuses
<1>2. SettledAs(transfers, transfers', n, "refused")
  BY <1>1, SettledIs DEF GnbRefuses, Settle
<1>3. transfers' \in Seq(Transfers) /\ SameTransfers(transfers, transfers')
  BY <1>2 DEF SettledAs
<1>4. \A i \in 1..Len(transfers) :
         transfers'[i].fate = "accepted" <=> transfers[i].fate = "accepted"
  BY <1>1, <1>2 DEF SettledAs
<1>5. /\ UNCHANGED <<queue, storing, toGnb, location, contexts, calling, requested, linked, asks>>
      /\ dead' \in BOOLEAN
  BY DEF GnbRefuses, ue
<1>6. QueuesOK' /\ HoldsOK' /\ Ordered' /\ Kept'
  BY <1>1, <1>3, <1>4, <1>5, LineSettled
<1>7. CallingOK' /\ LocationsOK' /\ TransfersOK'
  BY <1>3, <1>5, Unchanged, QuietStep
<1>8. SeqsOK'
  BY <1>3, <1>5 DEF Inv, SeqsOK
<1>. QED  BY <1>6, <1>7, <1>8 DEF Inv

LEMMA HttpSendsStep ==
    ASSUME Inv, NEW x \in Threads, HttpSends(x)
    PROVE  Inv'
<1>. DEFINE n == storing[x]
            L == Line(queue, storing, toGnb)
            M == Line(queue', [storing EXCEPT ![x] = 0], toGnb)
<1>1. /\ n \in 1..Len(transfers) /\ transfers[n] \in Transfers /\ n \in Nat /\ n # 0
      /\ Len(transfers) \in Nat
      /\ storing \in [Threads -> Nat] /\ storing' = [storing EXCEPT ![x] = 0]
  BY DEF Inv, SeqsOK, HoldsOK, HeldOK, HttpSends
<1>2. transfers[n].sid \in Sids
  BY <1>1 DEF Transfers
<1>3. PICK what \in {"transfer", "paging"} : Send("app", Msg(what, transfers[n].sid, n))
  BY DEF HttpSends
<1>. DEFINE m == Msg(what, transfers[n].sid, n)
<1>4. m \in Messages /\ m.what = what /\ m.n = n
  BY <1>1, <1>2, MsgTyped
<1>5. Send("app", m)
  BY <1>3
<1>. HIDE DEF m, n, L, M
<1>6. "app" \in Tasks
  BY DEF Tasks
<1>7. Queued(queue, queue', "none", "app", m)
  BY <1>4, <1>5, <1>6, SendIs
<1>8. Num("app", m) = n /\ MsgOK(transfers, "app", m)
  BY <1>1, <1>4 DEF Num, Counted, MsgOK, Whats
<1>9. UNCHANGED <<toGnb, transfers, location, contexts, calling, requested, linked, asks, dead>>
  BY DEF HttpSends, ue
<1>10. Grows(transfers, transfers')
  BY <1>9, SameGrows, Unchanged
<1>11. queue' \in [Tasks -> Seq(Messages)] /\ QueuesOK'
  BY <1>4, <1>7, <1>8, <1>9, <1>10, QueuesAfter
<1>12. HoldsOK'
  <2>1. HeldOK(transfers, storing) /\ SentOK(transfers, toGnb)
    BY DEF Inv, HoldsOK
  <2>2. HeldOK(transfers, storing')
    BY <1>1, <2>1 DEF HeldOK
  <2>. QED  BY <1>9, <2>1, <2>2 DEF HoldsOK
<1>13. CallingOK' /\ LocationsOK' /\ TransfersOK'
  BY <1>9, Unchanged, QuietStep
<1>14. queue \in [Tasks -> Seq(Messages)] /\ toGnb \in Seq(Nat)
  BY DEF Inv, SeqsOK
<1>15. Enters(L, M, x)
  <2>1. Num("app", m) = storing[x]
    BY <1>8 DEF n
  <2>2. Enters(Line(queue, storing, toGnb), Line(queue', [storing EXCEPT ![x] = 0], toGnb), x)
    BY <1>4, <1>7, <1>14, <2>1, QueuedEnters
  <2>. QED  BY <2>2 DEF L, M
<1>16. LinesOK(L) /\ LinesOK(M) /\ L[4] \in [Threads -> Nat]
  <2>1. LinesOK(L)
    BY <1>14, LineTyped DEF L
  <2>2. LinesOK(M)
    BY <1>11, <1>14, LineTyped DEF M
  <2>3. L[4] = storing
    BY LineIs DEF L
  <2>. QED  BY <1>1, <2>1, <2>2, <2>3
<1>17. InOrder(L, transfers) /\ Awaited(L, transfers)
  BY DEF Inv, Ordered, Kept, L
<1>18. InOrder(M, transfers) /\ Awaited(M, transfers)
  BY <1>1, <1>15, <1>16, <1>17, EntersInv
<1>19. Ordered' /\ Kept'
  BY <1>1, <1>9, <1>18 DEF Ordered, Kept, M
<1>20. storing' \in [Threads -> Nat]
  BY <1>1
<1>21. SeqsOK'
  BY <1>9, <1>11, <1>20 DEF Inv, SeqsOK
<1>. QED  BY <1>11, <1>12, <1>13, <1>19, <1>21 DEF Inv

\* What a thread accepts comes from a context of its session, and is behind all
\* that it has accepted before.
LEMMA HttpAcceptsStep ==
    ASSUME Inv, NEW x \in Threads, NEW c \in DOMAIN contexts, NEW k \in Kinds,
           HttpAccepts(x, c, k)
    PROVE  Inv'
<1>0. UNCHANGED <<queue, calling, toGnb, contexts, location, requested, linked, asks>>
  BY DEF HttpAccepts, ue
<1>1. CASE location[contexts[c].sid] = None
  <2>1. UNCHANGED <<queue, storing, transfers, toGnb>> /\ dead' = TRUE
    BY <1>1 DEF HttpAccepts
  <2>2. QueuesOK' /\ HoldsOK' /\ Ordered' /\ Kept'
    BY <2>1, LineStill
  <2>3. CallingOK' /\ LocationsOK' /\ TransfersOK'
    BY <1>0, <2>1, Unchanged, QuietStep
  <2>4. SeqsOK'
    BY <1>0, <2>1 DEF Inv, SeqsOK
  <2>. QED  BY <2>2, <2>3, <2>4 DEF Inv
<1>2. CASE location[contexts[c].sid] # None
  <2>. DEFINE e == NewTransfer(contexts[c].sid, k, c, x)
              n == Len(transfers) + 1
              L == Line(queue, storing, toGnb)
              M == Line(queue, [storing EXCEPT ![x] = n], toGnb)
  <2>1. /\ storing[x] = 0 /\ transfers' = Append(transfers, e) /\ UNCHANGED dead
        /\ storing' = [storing EXCEPT ![x] = Len(transfers')]
    BY <1>2 DEF HttpAccepts
  <2>2. /\ contexts \in Seq(Contexts) /\ c \in 1..Len(contexts) /\ contexts[c] \in Contexts
        /\ Len(contexts) \in Nat /\ Len(contexts) <= MaxContexts /\ MaxContexts \in Nat
        /\ transfers \in Seq(Transfers) /\ Len(transfers) \in Nat /\ n \in Nat
        /\ storing \in [Threads -> Nat] /\ toGnb \in Seq(Nat)
        /\ queue \in [Tasks -> Seq(Messages)]
    BY PduAssumption DEF Inv, SeqsOK
  <2>3. contexts[c].sid \in Sids /\ c \in 0..MaxContexts
    BY <2>2 DEF Contexts
  <2>4. /\ e \in Transfers /\ e.sid = contexts[c].sid /\ e.ctx = c /\ e.src = x
        /\ e.fate = "accepted"
    BY <2>3 DEF NewTransfer, Transfers, Fates
  <2>. HIDE DEF e, n, L, M
  <2>5. /\ transfers' \in Seq(Transfers) /\ Len(transfers') = n /\ transfers'[n] = e
        /\ \A i \in 1..Len(transfers) : transfers'[i] = transfers[i]
    BY <2>1, <2>2, <2>4, AppendOf DEF Appended, n
  <2>6. storing' = [storing EXCEPT ![x] = n]
    BY <2>1, <2>5
  <2>7. Grows(transfers, transfers')
    BY <2>2, <2>5 DEF Grows, n
  <2>8. QueuesOK'
    <3> SUFFICES ASSUME NEW t \in Tasks, NEW i \in 1..Len(queue[t])
                 PROVE  MsgOK(transfers', t, queue[t][i])
      BY <1>0 DEF QueuesOK, QueueOK
    <3>1. queue[t][i] \in Messages /\ MsgOK(transfers, t, queue[t][i])
      BY <2>2 DEF Inv, QueuesOK, QueueOK
    <3>. QED  BY <2>7, <3>1, MsgGrows
  <2>9. HoldsOK'
    <3>1. HeldOK(transfers, storing) /\ SentOK(transfers, toGnb)
      BY DEF Inv, HoldsOK
    <3>2. ASSUME NEW y \in Threads, storing'[y] # 0
          PROVE  storing'[y] <= Len(transfers') /\ transfers'[storing'[y]].src = y
      <4>1. CASE y = x
        BY <2>2, <2>4, <2>5, <2>6, <4>1
      <4>2. CASE y # x
        <5>1. storing'[y] = storing[y] /\ storing[y] \in Nat
          BY <2>2, <2>6, <4>2
        <5>2. storing[y] <= Len(transfers) /\ transfers[storing[y]].src = y
          BY <3>1, <3>2, <5>1 DEF HeldOK
        <5>. QED  BY <2>7, <3>2, <5>1, <5>2 DEF Grows
      <4>. QED  BY <4>1, <4>2
    <3>3. SentOK(transfers', toGnb)
      BY <2>7, <3>1 DEF SentOK, Grows
    <3>. QED  BY <1>0, <3>2, <3>3 DEF HoldsOK, HeldOK
  <2>10. CallingOK'
    BY <1>0, <2>7 DEF Inv, CallingOK, Grows, Messages
  <2>11. LocationsOK'
    BY <1>0 DEF Inv, LocationsOK
  <2>12. TransfersOK'
    <3> SUFFICES ASSUME NEW i \in 1..n
                 PROVE  /\ transfers'[i].ctx \in {None} \cup 0..Len(contexts)
                        /\ transfers'[i].ctx \in 1..Len(contexts) =>
                              contexts[transfers'[i].ctx].sid = transfers'[i].sid
      BY <1>0, <2>5 DEF TransfersOK
    <3>1. CASE i = n
      BY <2>2, <2>4, <2>5, <3>1
    <3>2. CASE i # n
      <4>1. i \in 1..Len(transfers)
        BY <2>2, <3>2 DEF n
      <4>. QED  BY <2>5, <4>1 DEF Inv, TransfersOK
    <3>. QED  BY <3>1, <3>2
  <2>13. Ordered' /\ Kept'
    <3>1. Adds(L, M, 4, x, n)
      BY <2>1, <2>2, HeldAdds DEF L, M
    <3>2. Bounded(L, transfers) /\ InOrder(L, transfers) /\ Awaited(L, transfers)
      BY LineFacts DEF Inv, Ordered, Kept, L
    <3>3. ASSUME NEW r \in Stages, NEW l \in Slots(L, r),
                 L[r][l] # 0, transfers[L[r][l]].src = e.src
          PROVE  Before(r, l, 4, x)
      <4>1. CASE r = 4
        <5>1. l \in Threads /\ L[4] = storing
          BY <4>1, LineIs DEF Slots, L
        <5>2. transfers[storing[l]].src = l /\ storing[l] # 0
          BY <3>3, <4>1, <5>1 DEF Inv, HoldsOK, HeldOK
        <5>. QED  BY <2>1, <2>4, <3>3, <4>1, <5>1, <5>2
      <4>2. CASE r # 4
        BY <4>2 DEF Before, Stages
      <4>. QED  BY <4>1, <4>2
    <3>. HIDE DEF e, L, M
    <3>4. InOrder(M, transfers') /\ Awaited(M, transfers')
      <4>1. 4 \in 1..4 /\ Adds(L, M, 4, x, Len(transfers) + 1)
        BY <3>1 DEF n
      <4>2. InOrder(M, Append(transfers, e)) /\ Awaited(M, Append(transfers, e))
        BY <2>2, <2>4, <3>2, <3>3, <4>1, AddsInv
      <4>. QED  BY <2>1, <4>2
    <3>. QED  BY <1>0, <2>6, <3>4 DEF Ordered, Kept, M
  <2>14. storing' \in [Threads -> Nat]
    BY <2>2, <2>6
  <2>15. SeqsOK'
    BY <1>0, <2>1, <2>5, <2>14 DEF Inv, SeqsOK
  <2>. QED  BY <2>8, <2>9, <2>10, <2>11, <2>12, <2>13, <2>15 DEF Inv
<1>. QED  BY <1>1, <1>2

LEMMA SbiCallsStep == Inv /\ SbiCalls => Inv'
<1> SUFFICES ASSUME Inv, SbiCalls  PROVE Inv'
  OBVIOUS
<1>. DEFINE m == Head(queue["sbi"])
<1>1. "sbi" \in Tasks /\ queue["sbi"] # <<>> /\ Take("sbi")
  BY DEF Tasks, SbiCalls
<1>2. /\ m \in Messages /\ MsgOK(transfers, "sbi", m) /\ Len(transfers) \in Nat
      /\ Queued(queue, queue', "sbi", "none", m)
  BY <1>1, HeadIs, TakeIs
<1>3. UNCHANGED <<storing, transfers, toGnb, contexts, requested, linked, asks, dead>>
  BY DEF SbiCalls, ue
<1>4. /\ location' = location \/
         location' = [location EXCEPT ![m.sid] = IF @ = None THEN 0 ELSE @]
      /\ calling' = m \/ calling' = None
      /\ m.what \in {"create", "update"}
  BY DEF SbiCalls
<1>. HIDE DEF m
<1>5. CallingOK'
  BY <1>2, <1>3, <1>4 DEF CallingOK, MsgOK
<1>6. location \in [Sids -> {None} \cup 0..Len(contexts)] /\ Len(contexts) \in Nat
  BY DEF Inv, SeqsOK
<1>7. location' \in [Sids -> {None} \cup 0..Len(contexts)]
  BY <1>4, <1>6
<1>8. \A s \in Sids : location'[s] \in {location[s], None, 0}
  BY <1>4, <1>6
<1>. QED  BY <1>1, <1>2, <1>3, <1>5, <1>7, <1>8, NoneIs, Unchanged, QuietDrop

\* The answer of the SMF, as far as it becomes a transfer.
Answered(e) == transfers' = transfers \/ transfers' = Append(transfers, e)

LEMMA AnswerLine ==
    ASSUME Inv, calling # None, NEW k \in Kinds \cup {None},
           NEW c \in {None} \cup 0..Len(contexts), Answer(k, c),
           storing' = storing, toGnb' = toGnb
    PROVE  /\ queue' \in [Tasks -> Seq(Messages)] /\ transfers' \in Seq(Transfers)
           /\ QueuesOK' /\ HoldsOK' /\ Ordered' /\ Kept'
           /\ Answered(NewTransfer(calling.sid, k, c, "sbi"))
<1>. DEFINE e == NewTransfer(calling.sid, k, c, "sbi")
            n == Len(transfers) + 1
            m == Msg("transfer", calling.sid, n)
            L == Line(queue, storing, toGnb)
            M == Line(queue', storing, toGnb)
<1>1. /\ transfers \in Seq(Transfers) /\ Len(transfers) \in Nat /\ n \in Nat
      /\ queue \in [Tasks -> Seq(Messages)] /\ toGnb \in Seq(Nat)
      /\ storing \in [Threads -> Nat]
      /\ Len(contexts) \in Nat /\ Len(contexts) <= MaxContexts /\ MaxContexts \in Nat
  BY PduAssumption DEF Inv, SeqsOK
<1>2. calling.sid \in Sids
  BY DEF Inv, CallingOK, Messages
<1>3. CASE k = None
  <2>1. UNCHANGED <<queue, transfers, storing, toGnb>>
    BY <1>3 DEF Answer
  <2>2. QueuesOK' /\ HoldsOK' /\ Ordered' /\ Kept'
    BY <2>1, LineStill
  <2>. QED  BY <1>1, <2>1, <2>2 DEF Answered
<1>4. CASE k # None
  <2>1. transfers' = Append(transfers, e) /\ Send("app", Msg("transfer", calling.sid, Len(transfers')))
    BY <1>4 DEF Answer
  <2>2. k \in Kinds /\ c \in {None} \cup 0..MaxContexts
    BY <1>1, <1>4
  <2>3. /\ e \in Transfers /\ e.src = "sbi" /\ e.fate = "accepted"
    BY <1>2, <2>2 DEF NewTransfer, Transfers, Fates
  <2>4. m \in Messages /\ m.what = "transfer" /\ m.n = n
    BY <1>1, <1>2, MsgTyped
  <2>. HIDE DEF e
  <2>5. /\ transfers' \in Seq(Transfers) /\ Len(transfers') = n
        /\ \A i \in 1..Len(transfers) : transfers'[i] = transfers[i]
    BY <1>1, <2>1, <2>3, AppendOf DEF Appended
  <2>6. Send("app", m) /\ "app" \in Tasks
    BY <2>1, <2>5 DEF Tasks
  <2>. HIDE DEF m, n, L, M
  <2>7. Queued(queue, queue', "none", "app", m)
    BY <2>4, <2>6, SendIs
  <2>8. Grows(transfers, transfers')
    BY <1>1, <2>5 DEF Grows, n
  <2>9. Num("app", m) = n /\ MsgOK(transfers', "app", m)
    BY <1>1, <2>4, <2>5 DEF Num, Counted, MsgOK, Whats, n
  <2>10. queue' \in [Tasks -> Seq(Messages)] /\ QueuesOK'
    BY <2>4, <2>7, <2>8, <2>9, QueuesAfter
  <2>11. HoldsOK'
    BY <2>8, HoldsGrow
  <2>12. Adds(L, M, 3, Len(queue["app"]) + 1, n) /\ Len(L[3]) = Len(queue["app"])
    BY <1>1, <2>4, <2>7, <2>9, SentAdds DEF L, M
  <2>13. Bounded(L, transfers) /\ InOrder(L, transfers) /\ Awaited(L, transfers)
    BY LineFacts DEF Inv, Ordered, Kept, L
  <2>14. ASSUME NEW r \in Stages, NEW l \in Slots(L, r),
                L[r][l] # 0, transfers[L[r][l]].src = e.src
         PROVE  Before(r, l, 3, Len(queue["app"]) + 1)
    <3>1. CASE r = 4
      <4>1. l \in Threads /\ L[4] = storing
        BY <3>1, LineIs DEF Slots, L
      <4>2. transfers[storing[l]].src = l
        BY <2>14, <3>1, <4>1 DEF Inv, HoldsOK, HeldOK
      <4>. QED  BY <2>3, <2>14, <3>1, <4>1, <4>2, PduAssumption
    <3>2. CASE r = 3
      <4>1. l \in 1..Len(queue["app"]) /\ Len(queue["app"]) \in Nat
        BY SMTT(40), <1>1, <2>12, <3>2 DEF Slots, Tasks
      <4>. QED  BY <3>2, <4>1 DEF Before
    <3>3. CASE r \in 0..2
      BY <3>3 DEF Before
    <3>. QED  BY <3>1, <3>2, <3>3 DEF Stages
  <2>. DEFINE y == Len(queue["app"]) + 1
  <2>. HIDE DEF y
  <2>15. /\ Adds(L, M, 3, y, Len(transfers) + 1) /\ 3 \in 1..4
         /\ \A r \in Stages : \A l \in Slots(L, r) :
               L[r][l] # 0 /\ transfers[L[r][l]].src = e.src => Before(r, l, 3, y)
    BY <2>12, <2>14 DEF y, n
  <2>16. InOrder(M, Append(transfers, e)) /\ Awaited(M, Append(transfers, e))
    BY <1>1, <2>3, <2>13, <2>15, AddsInv
  <2>17. Ordered' /\ Kept'
    BY <2>1, <2>16 DEF Ordered, Kept, M
  <2>. QED  BY <2>1, <2>5, <2>10, <2>11, <2>17 DEF Answered, e
<1>. QED  BY <1>3, <1>4

LEMMA AnswerTransfers ==
    ASSUME Inv, NEW k \in Kinds \cup {None}, NEW s, NEW c \in {None} \cup 0..Len(contexts),
           Answered(NewTransfer(s, k, c, "sbi")),
           c \in 1..Len(contexts) => contexts[c].sid = s,
           transfers' \in Seq(Transfers),
           Len(contexts') = Len(contexts),
           \A d \in 1..Len(contexts) : contexts'[d].sid = contexts[d].sid
    PROVE  TransfersOK'
<1>. DEFINE e == NewTransfer(s, k, c, "sbi")
<1>1. e.ctx = c /\ e.sid = s /\ e.fate = "accepted"
  BY DEF NewTransfer
<1>. HIDE DEF e
<1>2. /\ transfers \in Seq(Transfers) /\ Len(transfers) \in Nat /\ TransfersOK
      /\ transfers' = transfers \/ transfers' = Append(transfers, e)
  BY DEF Inv, SeqsOK, Answered, e
<1>3. \A i \in 1..Len(transfers') :
         (i \in 1..Len(transfers) /\ transfers'[i] = transfers[i]) \/ transfers'[i] = e
  BY <1>2
<1> SUFFICES ASSUME NEW i \in 1..Len(transfers')
             PROVE  /\ transfers'[i].ctx \in {None} \cup 0..Len(contexts')
                    /\ transfers'[i].ctx \in 1..Len(contexts') =>
                          contexts'[transfers'[i].ctx].sid = transfers'[i].sid
  BY DEF TransfersOK
<1>4. CASE i \in 1..Len(transfers) /\ transfers'[i] = transfers[i]
  <2>1. /\ transfers[i].ctx \in {None} \cup 0..Len(contexts)
        /\ transfers[i].ctx \in 1..Len(contexts) =>
              contexts[transfers[i].ctx].sid = transfers[i].sid
    BY <1>2, <1>4 DEF TransfersOK
  <2>. QED  BY <1>4, <2>1
<1>5. CASE transfers'[i] = e
  BY <1>1, <1>5
<1>. QED  BY <1>3, <1>4, <1>5

LEMMA SbiFailsStep == Inv /\ SbiFails => Inv'
<1> SUFFICES ASSUME Inv, SbiFails  PROVE Inv'
  OBVIOUS
<1>1. PICK k \in {"n1", None} : Answer(k, 0)
  BY DEF SbiFails
<1>2. /\ calling # None /\ calling' = None
      /\ UNCHANGED <<storing, toGnb, contexts, location, requested, linked, asks, dead>>
  BY DEF SbiFails, ue
<1>3. k \in Kinds \cup {None}
  BY PduAssumption
<1>4. 0 \in {None} \cup 0..Len(contexts) /\ 0 \notin 1..Len(contexts)
  BY DEF Inv, SeqsOK
<1>5. /\ queue' \in [Tasks -> Seq(Messages)] /\ transfers' \in Seq(Transfers)
      /\ QueuesOK' /\ HoldsOK' /\ Ordered' /\ Kept'
      /\ Answered(NewTransfer(calling.sid, k, 0, "sbi"))
  BY <1>1, <1>2, <1>3, <1>4, AnswerLine
<1>6. TransfersOK'
  BY <1>2, <1>3, <1>4, <1>5, AnswerTransfers
<1>7. CallingOK' /\ LocationsOK'
  BY <1>2 DEF Inv, CallingOK, LocationsOK
<1>8. SeqsOK'
  BY <1>2, <1>5 DEF Inv, SeqsOK
<1>. QED  BY <1>5, <1>6, <1>7, <1>8 DEF Inv

\* The Location of a context the SMF has made is that of the newest.
LEMMA SbiSucceedsStep == Inv /\ SbiSucceeds => Inv'
<1> SUFFICES ASSUME Inv, SbiSucceeds  PROVE Inv'
  OBVIOUS
<1>. DEFINE s == calling.sid
            n == calling.n
            c == IF calling.what = "create" THEN n ELSE location[s]
<1>1. PICK k \in Kinds \cup {None} : Answer(k, c)
  BY DEF SbiSucceeds
<1>2. /\ calling # None /\ calling' = None
      /\ UNCHANGED <<storing, toGnb, requested, linked, asks, dead>>
  BY DEF SbiSucceeds, ue
<1>3. /\ contexts \in Seq(Contexts) /\ Len(contexts) \in Nat /\ Len(contexts) <= MaxContexts
      /\ location \in [Sids -> {None} \cup 0..Len(contexts)]
      /\ LocationsOK /\ None \notin Int
      /\ s \in Sids /\ n \in Nat
  BY <1>2, PduAssumption DEF Inv, SeqsOK, CallingOK, Messages
<1>4. calling.what = "create" =>
         /\ n = Len(contexts) /\ n \in 1..Len(contexts) /\ contexts[n].sid = s
         /\ location' = [location EXCEPT ![s] = Located(@, n)]
         /\ contexts' = [contexts EXCEPT ![n].known = TRUE]
  <2> SUFFICES ASSUME calling.what = "create"
               PROVE  /\ n = Len(contexts) /\ n \in 1..Len(contexts) /\ contexts[n].sid = s
                      /\ location' = [location EXCEPT ![s] = Located(@, n)]
                      /\ contexts' = [contexts EXCEPT ![n].known = TRUE]
    OBVIOUS
  <2>1. n # 0 /\ n = Len(contexts) /\ contexts[n].sid = s
    BY <1>2 DEF SbiSucceeds, Inv, CallingOK
  <2>2. /\ location' = [location EXCEPT ![s] = Located(@, n)]
        /\ contexts' = [contexts EXCEPT ![n].known = TRUE]
    BY DEF SbiSucceeds
  <2>. QED  BY <1>3, <2>1, <2>2
<1>5. calling.what # "create" => UNCHANGED <<location, contexts>>
  BY DEF SbiSucceeds
<1>6. /\ c \in {None} \cup 0..Len(contexts)
      /\ c \in 1..Len(contexts) => contexts[c].sid = s
  BY <1>3, <1>4 DEF LocationsOK
<1>. HIDE DEF s, n, c
<1>7. /\ queue' \in [Tasks -> Seq(Messages)] /\ transfers' \in Seq(Transfers)
      /\ QueuesOK' /\ HoldsOK' /\ Ordered' /\ Kept'
      /\ Answered(NewTransfer(s, k, c, "sbi"))
  BY <1>1, <1>2, <1>6, AnswerLine DEF s
<1>8. calling.what = "create" =>
         /\ contexts' \in Seq(Contexts) /\ Len(contexts') = Len(contexts)
         /\ \A d \in 1..Len(contexts) : contexts'[d].sid = contexts[d].sid
         /\ \A d \in 1..Len(contexts) : d # n => contexts'[d].known = contexts[d].known
  <2> SUFFICES ASSUME calling.what = "create"
               PROVE  /\ contexts' \in Seq(Contexts) /\ Len(contexts') = Len(contexts)
                      /\ \A d \in 1..Len(contexts) : contexts'[d].sid = contexts[d].sid
                      /\ \A d \in 1..Len(contexts) : d # n => contexts'[d].known = contexts[d].known
    OBVIOUS
  <2>. DEFINE e == [contexts[n] EXCEPT !.known = TRUE]
  <2>0. contexts[n] \in Contexts
    BY <1>3, <1>4
  <2>1. e \in Contexts /\ e.sid = contexts[n].sid
    BY <2>0 DEF Contexts
  <2>2. contexts' = [contexts EXCEPT ![n] = e]
    BY <1>4
  <2>. HIDE DEF e
  <2>3. /\ contexts' \in Seq(Contexts) /\ Len(contexts') = Len(contexts) /\ contexts'[n] = e
        /\ \A d \in 1..Len(contexts) : d # n => contexts'[d] = contexts[d]
    BY <1>3, <1>4, <2>1, <2>2
  <2>. QED  BY <2>1, <2>3
<1>9. /\ contexts' \in Seq(Contexts) /\ Len(contexts') = Len(contexts)
      /\ \A d \in 1..Len(contexts) : contexts'[d].sid = contexts[d].sid
  BY <1>3, <1>5, <1>8
<1>10. TransfersOK'
  BY <1>6, <1>7, <1>9, AnswerTransfers
<1>11. location' \in [Sids -> {None} \cup 0..Len(contexts)]
  BY <1>3, <1>4, <1>5 DEF Located
<1>12. LocationsOK'
  <2>1. CASE calling.what # "create"
    <3>1. location' = location /\ contexts' = contexts /\ LocationsOK
      BY <1>3, <1>5, <2>1
    <3>. QED  BY <3>1 DEF LocationsOK
  <2>2. CASE calling.what = "create"
    <3> SUFFICES ASSUME NEW r \in Sids, location'[r] \in 1..Len(contexts)
                 PROVE  /\ contexts'[location'[r]].sid = r
                        /\ \A d \in 1..Len(contexts) :
                              contexts'[d].known /\ contexts'[d].sid = r => d <= location'[r]
      BY <1>9 DEF LocationsOK
    <3>1. CASE r = s
      <4>1. location'[r] = n
        BY <1>3, <1>4, <2>2, <3>1 DEF Located
      <4>. QED  BY <1>3, <1>4, <1>9, <2>2, <3>1, <4>1
    <3>2. CASE r # s
      <4>1. location'[r] = location[r]
        BY <1>3, <1>4, <2>2, <3>2
      <4>2. /\ contexts[location[r]].sid = r
            /\ \A d \in 1..Len(contexts) :
                  contexts[d].known /\ contexts[d].sid = r => d <= location[r]
        BY <1>3, <4>1 DEF LocationsOK
      <4>3. \A d \in 1..Len(contexts) :
               contexts'[d].sid = r => contexts'[d].known = contexts[d].known
        BY <1>4, <1>8, <1>9, <2>2, <3>2
      <4>. QED  BY <1>9, <4>1, <4>2, <4>3
    <3>. QED  BY <3>1, <3>2
  <2>. QED  BY <2>1, <2>2
<1>13. CallingOK'
  BY <1>2 DEF CallingOK
<1>14. SeqsOK'
  BY <1>2, <1>3, <1>7, <1>9, <1>11 DEF Inv, SeqsOK
<1>. QED  BY <1>7, <1>10, <1>12, <1>13, <1>14 DEF Inv

LEMMA N1UplinkStep == Inv /\ N1Uplink => Inv'
<1> SUFFICES ASSUME Inv, N1Uplink  PROVE Inv'
  OBVIOUS
<1>. DEFINE m == Head(queue["n1"])
<1>1. /\ "n1" \in Tasks /\ "sbi" \in Tasks /\ queue["n1"] # <<>>
      /\ Forward("n1", "sbi", m) /\ m.what \in {"create", "update"}
  BY DEF Tasks, N1Uplink, Heads
<1>2. m \in Messages /\ MsgOK(transfers, "n1", m)
  BY <1>1, HeadIs
<1>3. Queued(queue, queue', "n1", "sbi", m)
  BY <1>1, <1>2, ForwardIs
<1>4. Num("n1", m) = 0 /\ NoNum("sbi", m)
  BY <1>1 DEF NoNum, Num, Counted
<1>5. MsgOK(transfers, "sbi", m)
  BY <1>1, <1>2 DEF MsgOK, Whats
<1>6. \A n \in 1..Len(transfers) : Num("n1", Head(queue["n1"])) # n
  BY <1>4, Unchanged
<1>7. UNCHANGED <<storing, transfers, toGnb, location, contexts, calling, requested, linked,
                  asks, dead>>
  BY DEF N1Uplink, ue
<1>. HIDE DEF m
<1>. QED  BY <1>1, <1>2, <1>3, <1>4, <1>5, <1>6, <1>7, NoneIs, Unchanged, QuietDrop

\* The transfer of a message that is not handed on is settled.
LEMMA SettledStep ==
    ASSUME Inv, NEW t \in Tasks, queue[t] # <<>>, Num(t, Head(queue[t])) = Head(queue[t]).n,
           Head(queue[t]).n # 0, NEW f \in Fates \ {"accepted"},
           Settle(Head(queue[t]).n, f)
    PROVE  /\ transfers' \in Seq(Transfers) /\ SameTransfers(transfers, transfers')
           /\ \A n \in 1..Len(transfers) : transfers'[n].fate = "accepted" <=>
                 transfers[n].fate = "accepted" /\ Num(t, Head(queue[t])) # n
<1>. DEFINE i == Head(queue[t]).n
<1>1. i \in 1..Len(transfers) /\ transfers \in Seq(Transfers)
  BY HeadIs, Unchanged
<1>2. SettledAs(transfers, [transfers EXCEPT ![i].fate = f], i, f)
  BY ZenonT(40), <1>1, SettledIs
<1>3. SettledAs(transfers, transfers', i, f)
  BY <1>2 DEF Settle
<1>. HIDE DEF i
<1>4. \A n \in 1..Len(transfers) :
         transfers'[n].fate = "accepted" <=> transfers[n].fate = "accepted" /\ i # n
  BY <1>3 DEF SettledAs
<1>. QED  BY <1>3, <1>4 DEF SettledAs, i

LEMMA N1DownlinkStep == Inv /\ N1Downlink => Inv'
<1> SUFFICES ASSUME Inv, N1Downlink  PROVE Inv'
  OBVIOUS
<1>. DEFINE m == Head(queue["n1"])
<1>1. /\ "n1" \in Tasks /\ "n2" \in Tasks /\ queue["n1"] # <<>> /\ m.what = "downlink"
  BY DEF Tasks, N1Downlink, Heads
<1>2. /\ m \in Messages /\ MsgOK(transfers, "n1", m) /\ m.n # 0 /\ m.n \in Nat
      /\ Num("n1", m) = m.n /\ Num("n2", m) = m.n
  BY <1>1, HeadIs DEF MsgOK, Num, Counted, Messages
<1>3. UNCHANGED <<storing, toGnb, location, contexts, calling, requested, linked, asks, dead>>
  BY DEF N1Downlink, ue
<1>4. ASSUME NEW f \in {"unknown", "dropped"}, GivenUp(m.n, f)
      PROVE  Inv'
  <2>1. Queued(queue, queue', "n1", "none", m)
    BY <1>1, <1>4, TakeIs DEF GivenUp
  <2>2. f \in Fates \ {"accepted"}
    BY DEF Fates
  <2>3. /\ transfers' \in Seq(Transfers) /\ SameTransfers(transfers, transfers')
        /\ \A n \in 1..Len(transfers) : transfers'[n].fate = "accepted" <=>
              transfers[n].fate = "accepted" /\ Num("n1", Head(queue["n1"])) # n
    BY <1>1, <1>2, <1>4, <2>2, SettledStep DEF GivenUp
  <2>4. /\ location' \in [Sids -> {None} \cup 0..Len(contexts)]
        /\ \A s \in Sids : location'[s] \in {location[s], None, 0}
    BY <1>3, Unchanged
  <2>. HIDE DEF m
  <2>. QED  BY SMTT(40), <1>1, <1>2, <1>3, <2>1, <2>3, <2>4, NoneIs, Unchanged, QuietDrop
<1>5. CASE Forward("n1", "n2", m) /\ UNCHANGED transfers
  <2>1. Queued(queue, queue', "n1", "n2", m)
    BY <1>1, <1>2, <1>5, ForwardIs
  <2>2. MsgOK(transfers', "n2", m)
    BY <1>1, <1>2, <1>5 DEF MsgOK, Whats
  <2>3. Grows(transfers, transfers')
    BY <1>5, SameGrows, Unchanged
  <2>4. queue' \in [Tasks -> Seq(Messages)] /\ QueuesOK'
    BY <1>2, <2>1, <2>2, <2>3, QueuesAfter
  <2>5. Ordered' /\ Kept'
    BY <1>2, <1>3, <1>5, <2>1, <2>4, NoneIs, PassStep
  <2>6. HoldsOK'
    BY <1>3, <2>3, HoldsGrow
  <2>7. CallingOK' /\ LocationsOK' /\ TransfersOK'
    BY <1>3, <1>5, Unchanged, QuietStep
  <2>8. SeqsOK'
    BY <1>3, <1>5, <2>4 DEF Inv, SeqsOK
  <2>. QED  BY <2>4, <2>5, <2>6, <2>7, <2>8 DEF Inv
<1>6. GivenUp(m.n, "unknown") \/ GivenUp(m.n, "dropped")
      \/ (Forward("n1", "n2", m) /\ UNCHANGED transfers)
  BY DEF N1Downlink
<1>. QED  BY <1>4, <1>5, <1>6

LEMMA AppHandlesStep == Inv /\ AppHandles => Inv'
<1> SUFFICES ASSUME Inv, AppHandles  PROVE Inv'
  OBVIOUS
<1>. DEFINE m == Head(queue["app"])
<1>1. "app" \in Tasks /\ "n1" \in Tasks /\ "n2" \in Tasks /\ queue["app"] # <<>>
  BY DEF Tasks, AppHandles
<1>2. /\ m \in Messages /\ MsgOK(transfers, "app", m) /\ m.sid \in Sids
      /\ m.n \in 0..Len(transfers) /\ Len(transfers) \in Nat
      /\ m.what \in {"transfer", "paging"} => m.n # 0 /\ Num("app", m) = m.n
  BY <1>1, HeadIs DEF MsgOK, Num, Counted, Messages
<1>3. UNCHANGED <<storing, toGnb, contexts, calling, requested, linked, asks, dead>>
  BY DEF AppHandles, ue
<1>4. CASE /\ m.what = "transfer" /\ Forward("app", NextTask(m.n), Msg("downlink", m.sid, m.n))
           /\ UNCHANGED <<location, transfers>>
  <2>. DEFINE d == Msg("downlink", m.sid, m.n)
  <2>1. d \in Messages /\ d.what = "downlink" /\ d.n = m.n /\ Forward("app", "n1", d)
    BY <1>2, <1>4, MsgTyped DEF NextTask
  <2>. HIDE DEF d
  <2>2. Queued(queue, queue', "app", "n1", d)
    BY <1>1, <2>1, ForwardIs
  <2>3. MsgOK(transfers', "n1", d) /\ Num("n1", d) = Num("app", m)
    BY <1>2, <1>4, <2>1 DEF MsgOK, Whats, Num, Counted
  <2>4. Grows(transfers, transfers')
    BY <1>4, SameGrows, Unchanged
  <2>5. queue' \in [Tasks -> Seq(Messages)] /\ QueuesOK'
    BY <2>1, <2>2, <2>3, <2>4, QueuesAfter
  <2>6. Ordered' /\ Kept'
    BY <1>3, <1>4, <2>1, <2>2, <2>3, <2>5, NoneIs, PassStep
  <2>7. HoldsOK'
    BY <1>3, <2>4, HoldsGrow
  <2>8. CallingOK' /\ LocationsOK' /\ TransfersOK'
    BY <1>3, <1>4, Unchanged, QuietStep
  <2>9. SeqsOK'
    BY <1>3, <1>4, <2>5 DEF Inv, SeqsOK
  <2>. QED  BY <2>5, <2>6, <2>7, <2>8, <2>9 DEF Inv
<1>5. CASE /\ m.what = "paging" /\ Forward("app", "n2", Msg("paging", m.sid, m.n))
           /\ Settle(m.n, "paged") /\ UNCHANGED location
  <2>. DEFINE d == Msg("paging", m.sid, m.n)
  <2>1. d \in Messages /\ d.what = "paging" /\ d.n = m.n /\ Forward("app", "n2", d)
    BY <1>2, <1>5, MsgTyped
  <2>. HIDE DEF d
  <2>2. Queued(queue, queue', "app", "n2", d)
    BY <1>1, <2>1, ForwardIs
  <2>3. "paged" \in Fates \ {"accepted"}
    BY DEF Fates
  <2>4. /\ transfers' \in Seq(Transfers) /\ SameTransfers(transfers, transfers')
        /\ \A n \in 1..Len(transfers) : transfers'[n].fate = "accepted" <=>
              transfers[n].fate = "accepted" /\ Num("app", Head(queue["app"])) # n
    BY <1>1, <1>2, <1>5, <2>3, SettledStep
  <2>5. NoNum("n2", d) /\ MsgOK(transfers', "n2", d)
    BY <1>2, <1>5, <2>1, <2>4 DEF NoNum, Num, Counted, MsgOK, Whats, SameTransfers
  <2>6. /\ location' \in [Sids -> {None} \cup 0..Len(contexts)]
        /\ \A s \in Sids : location'[s] \in {location[s], None, 0}
    BY <1>5, Unchanged
  <2>. HIDE DEF m
  <2>. QED  BY SMTT(40), <1>1, <1>3, <2>1, <2>2, <2>4, <2>5, <2>6, NoneIs, Unchanged, QuietDrop
<1>6. CASE /\ m.what = "released" /\ Take("app")
           /\ location' = [location EXCEPT ![m.sid] = None] /\ UNCHANGED transfers
  <2>1. Queued(queue, queue', "app", "none", m)
    BY <1>1, <1>6, TakeIs
  <2>2. Num("app", m) = 0
    BY <1>6 DEF Num, Counted
  <2>3. \A n \in 1..Len(transfers) : Num("app", Head(queue["app"])) # n
    BY <1>2, <2>2
  <2>4. /\ location' \in [Sids -> {None} \cup 0..Len(contexts)]
        /\ \A s \in Sids : location'[s] \in {location[s], None, 0}
    BY <1>2, <1>6, Unchanged
  <2>. HIDE DEF m
  <2>. QED  BY <1>1, <1>2, <1>3, <1>6, <2>1, <2>3, <2>4, NoneIs, Unchanged, QuietDrop
<1>. QED  BY <1>4, <1>5, <1>6 DEF AppHandles

\* What TASK_AMF_N2 sends is the last of the queue's lane and the newest of the
\* gNB's.
LEMMA N2HandlesStep == Inv /\ N2Handles => Inv'
<1> SUFFICES ASSUME Inv, N2Handles  PROVE Inv'
  OBVIOUS
<1>. DEFINE m == Head(queue["n2"])
<1>1. "n2" \in Tasks /\ queue["n2"] # <<>> /\ Take("n2")
  BY DEF Tasks, N2Handles
<1>2. /\ m \in Messages /\ MsgOK(transfers, "n2", m) /\ m.what \in {"downlink", "paging"}
      /\ m.n \in 1..Len(transfers) /\ Len(transfers) \in Nat
      /\ Queued(queue, queue', "n2", "none", m)
  BY <1>1, HeadIs, TakeIs DEF MsgOK, Whats
<1>3. UNCHANGED <<storing, location, contexts, calling, requested, linked, asks, dead>>
  BY DEF N2Handles, ue
<1>4. CASE m.what = "paging" /\ UNCHANGED <<transfers, toGnb>>
  <2>1. Num("n2", m) = 0
    BY <1>4 DEF Num, Counted
  <2>2. \A n \in 1..Len(transfers) : Num("n2", Head(queue["n2"])) # n
    BY <1>2, <2>1
  <2>. HIDE DEF m
  <2>. QED  BY <1>1, <1>2, <1>3, <1>4, <2>2, NoneIs, Unchanged, QuietDrop
<1>5. ASSUME m.what = "downlink", NEW f \in {"unlinked", "bare", "sent"}, Settle(m.n, f)
      PROVE  /\ transfers' \in Seq(Transfers) /\ SameTransfers(transfers, transfers')
             /\ \A n \in 1..Len(transfers) : transfers'[n].fate = "accepted" <=>
                   transfers[n].fate = "accepted" /\ Num("n2", m) # n
             /\ Num("n2", m) = m.n
  <2>1. Num("n2", m) = m.n /\ m.n # 0
    BY <1>2, <1>5 DEF Num, Counted
  <2>2. f \in Fates \ {"accepted"}
    BY DEF Fates
  <2>. QED  BY <1>1, <1>5, <2>1, <2>2, SettledStep
<1>6. CASE m.what = "downlink" /\ Settle(m.n, "unlinked") /\ UNCHANGED toGnb
  <2>1. /\ transfers' \in Seq(Transfers) /\ SameTransfers(transfers, transfers')
        /\ \A n \in 1..Len(transfers) : transfers'[n].fate = "accepted" <=>
              transfers[n].fate = "accepted" /\ Num("n2", Head(queue["n2"])) # n
    BY <1>5, <1>6
  <2>. HIDE DEF m
  <2>. QED  BY SMTT(40), <1>1, <1>2, <1>3, <1>6, <2>1, NoneIs, Unchanged, QuietDrop
<1>7. ASSUME m.what = "downlink", NEW f \in {"bare", "sent"}, Settle(m.n, f),
             toGnb' = Append(toGnb, m.n)
      PROVE  Inv'
  <2>. DEFINE L == Line(queue, storing, toGnb)
              M == Line(queue', storing, toGnb')
              i == m.n
  <2>1. /\ transfers' \in Seq(Transfers) /\ SameTransfers(transfers, transfers')
        /\ \A n \in 1..Len(transfers) : transfers'[n].fate = "accepted" <=>
              transfers[n].fate = "accepted" /\ i # n
        /\ Num("n2", m) = i
    BY <1>5, <1>7
  <2>2. /\ queue \in [Tasks -> Seq(Messages)] /\ toGnb \in Seq(Nat)
        /\ storing \in [Threads -> Nat] /\ i \in Nat /\ i \in 1..Len(transfers)
        /\ toGnb' = Append(toGnb, i)
    BY <1>2, <1>7 DEF Inv, SeqsOK
  <2>3. toGnb' \in Seq(Nat) /\ Appended(toGnb, toGnb', i)
    BY <2>2, AppendOf
  <2>4. Grows(transfers, transfers') /\ SameSources(transfers, transfers')
    BY <1>2, <2>1, SameGrows
  <2>5. queue' \in [Tasks -> Seq(Messages)] /\ QueuesOK'
    BY <1>2, <2>4, QueuesAfter, NoneIs
  <2>6. HoldsOK'
    <3>1. HeldOK(transfers, storing) /\ SentOK(transfers, toGnb)
      BY DEF Inv, HoldsOK
    <3>2. HeldOK(transfers', storing)
      BY <2>2, <2>4, <3>1 DEF HeldOK, Grows
    <3>3. SentOK(transfers', toGnb')
      <4> SUFFICES ASSUME NEW k \in 1..Len(toGnb')  PROVE toGnb'[k] \in 1..Len(transfers')
        BY DEF SentOK
      <4>1. Len(toGnb) \in Nat /\ Len(transfers') = Len(transfers)
        BY <2>1, <2>2 DEF SameTransfers
      <4>2. CASE k = Len(toGnb) + 1
        BY <2>2, <2>3, <4>1, <4>2 DEF Appended
      <4>3. CASE k # Len(toGnb) + 1
        <5>1. k \in 1..Len(toGnb) /\ toGnb'[k] = toGnb[k]
          BY <2>3, <4>1, <4>3 DEF Appended
        <5>. QED  BY <3>1, <4>1, <5>1 DEF SentOK
      <4>. QED  BY <4>2, <4>3
    <3>. QED  BY <1>3, <3>2, <3>3 DEF HoldsOK
  <2>7. CallingOK' /\ LocationsOK' /\ TransfersOK'
    BY <1>3, <2>1, Unchanged, QuietStep
  <2>8. Passes(L, M, 1) /\ L[1][1] = i
    <3>1. Num("n2", Head(queue["n2"])) = i
      BY <2>1
    <3>2. /\ Passes(Line(queue, storing, toGnb), Line(queue', storing, Append(toGnb, i)), 1)
          /\ Line(queue, storing, toGnb)[1][1] = i
      <4>. HIDE DEF m, i
      <4>. QED  BY SMTT(40), <1>2, <2>2, <3>1, QueuedLast
    <3>. QED  BY <2>2, <3>2
  <2>. HIDE DEF m, i
  <2>9. LinesOK(L) /\ LinesOK(M)
    BY <2>2, <2>3, <2>5, LineTyped
  <2>10. 1 \in Slots(L, 1)
    BY <1>1, LineFacts, NoneIs
  <2>11. InOrder(L, transfers) /\ Awaited(L, transfers)
    BY DEF Inv, Ordered, Kept
  <2>12. InOrder(M, transfers') <=> Ordered'
    BY <1>3 DEF Ordered
  <2>13. Awaited(M, transfers') <=> Kept'
    BY <1>3 DEF Kept
  <2>. HIDE DEF L, M
  <2>. DEFINE a == 1
  <2>14. /\ a \in 1..3 /\ Passes(L, M, a) /\ 1 \in Slots(L, a)
         /\ \A n \in 1..Len(transfers) : transfers'[n].fate = "accepted" <=>
               transfers[n].fate = "accepted" /\ (a > 1 \/ L[a][1] # n)
    BY <2>1, <2>8, <2>10
  <2>. HIDE DEF a
  <2>15. InOrder(M, transfers') /\ Awaited(M, transfers')
    BY <1>2, <2>4, <2>9, <2>11, <2>14, PassesInv
  <2>16. SeqsOK'
    BY <1>3, <2>1, <2>3, <2>5 DEF Inv, SeqsOK
  <2>. QED  BY <2>5, <2>6, <2>7, <2>12, <2>13, <2>15, <2>16 DEF Inv
<1>8. \/ m.what = "paging" /\ UNCHANGED <<transfers, toGnb>>
      \/ m.what = "downlink" /\ Settle(m.n, "unlinked") /\ UNCHANGED toGnb
      \/ /\ m.what = "downlink" /\ toGnb' = Append(toGnb, m.n)
         /\ Settle(m.n, IF Bare(m.n) THEN "bare" ELSE "sent")
  BY <1>2 DEF N2Handles
<1>9. CASE /\ m.what = "downlink" /\ toGnb' = Append(toGnb, m.n)
           /\ Settle(m.n, IF Bare(m.n) THEN "bare" ELSE "sent")
  <2>. DEFINE f == IF Bare(m.n) THEN "bare" ELSE "sent"
  <2>1. f \in {"bare", "sent"} /\ Settle(m.n, f)
    BY <1>9
  <2>. HIDE DEF f
  <2>. QED  BY <1>7, <1>9, <2>1
<1>. QED  BY <1>4, <1>6, <1>8, <1>9
LEMMA N2UsesNullStep == Inv /\ N2UsesNull => Inv'
<1> SUFFICES ASSUME Inv, N2UsesNull  PROVE Inv'
  OBVIOUS
<1>1. /\ UNCHANGED <<queue, storing, transfers, toGnb, contexts, calling, location, requested,
                     linked, asks>>
      /\ dead' = TRUE
  BY DEF N2UsesNull, ue
<1>2. QueuesOK' /\ HoldsOK' /\ Ordered' /\ Kept'
  BY <1>1, LineStill
<1>3. CallingOK' /\ LocationsOK' /\ TransfersOK'
  BY <1>1 DEF Inv, CallingOK, LocationsOK, TransfersOK
<1>4. SeqsOK'
  BY <1>1 DEF Inv, SeqsOK
<1>. QED  BY <1>2, <1>3, <1>4 DEF Inv
-----------------------------------------------------------------------------
(* What is proved.                                                         *)

LEMMA NextInv == Inv /\ [Next]_vars => Inv'
<1> SUFFICES ASSUME Inv, [Next]_vars  PROVE Inv'
  OBVIOUS
<1>1. CASE UNCHANGED vars
  BY <1>1 DEF vars, Inv, SeqsOK, QueuesOK, HoldsOK, CallingOK, LocationsOK, TransfersOK,
              Ordered, Kept
<1>2. CASE Environment
  <2>1. ASSUME NEW c \in DOMAIN contexts, NEW h \in Threads, NEW k \in Kinds, HttpAccepts(h, c, k)
        PROVE  Inv'
    BY <2>1, HttpAcceptsStep
  <2>2. ASSUME NEW c \in DOMAIN contexts, SmfReleased(c)
        PROVE  Inv'
    BY <2>2, SmfReleasedStep
  <2>3. ASSUME NEW n \in DOMAIN transfers, GnbAnswers(n) \/ GnbRefuses(n)
        PROVE  Inv'
    BY <2>3, GnbAnswersStep, GnbRefusesStep
  <2>4. ASSUME NEW s \in Sids, NEW what \in {"create", "update"}, UeAsks(s, what)
        PROVE  Inv'
    BY <2>4, UeAsksStep
  <2>. QED  BY <1>2, <2>1, <2>2, <2>3, <2>4, UeMovesStep, SmfCreatesStep DEF Environment
<1>3. CASE \/ AppHandles \/ N1Downlink \/ N1Uplink \/ N2Handles
           \/ SbiCalls \/ SbiSucceeds \/ SbiFails
  BY <1>3, AppHandlesStep, N1DownlinkStep, N1UplinkStep, N2HandlesStep,
     SbiCallsStep, SbiSucceedsStep, SbiFailsStep
<1>4. CASE \E h \in Threads : HttpSends(h)
  BY <1>4, HttpSendsStep
<1>5. CASE N2UsesNull
  BY <1>5, N2UsesNullStep
<1>. QED  BY <1>1, <1>2, <1>3, <1>4, <1>5 DEF Next

LEMMA Invariance == Spec => []Inv
  BY InitInv, NextInv, PTL DEF Spec

\* The variables have their types, and every transfer that a thread, a queue or
\* the request of TASK_AMF_SBI names is one that was accepted.
THEOREM TypeCorrect == Spec => []TypeOK
<1>1. Inv => TypeOK
  <2> SUFFICES ASSUME Inv  PROVE TypeOK
    OBVIOUS
  <2>1. /\ queue \in [Tasks -> Seq(Messages)] /\ transfers \in Seq(Transfers)
        /\ Len(transfers) \in Nat /\ storing \in [Threads -> Nat]
        /\ location \in [Sids -> {None} \cup 0..Len(contexts)]
        /\ requested \in BOOLEAN /\ linked \in BOOLEAN /\ dead \in BOOLEAN
        /\ asks \in 0..MaxAsks
    BY DEF Inv, SeqsOK
  <2>2. ASSUME NEW t \in Tasks, NEW k \in DOMAIN queue[t]
        PROVE  queue[t][k] \in [what : {"create", "update", "transfer", "paging",
                                        "released", "downlink"},
                                sid : Sids, n : 0..Len(transfers)]
    <3>1. k \in 1..Len(queue[t]) /\ queue[t][k] \in Messages
      BY <2>1
    <3>2. queue[t][k].n <= Len(transfers)
      BY <3>1 DEF Inv, QueuesOK, QueueOK, MsgOK
    <3>. QED  BY <2>1, <3>1, <3>2 DEF Messages
  <2>3. calling # None => calling \in [what : {"create", "update"}, sid : Sids, n : Nat]
    BY DEF Inv, CallingOK, Messages
  <2>4. storing \in [Threads -> 0..Len(transfers)]
    <3>1. \A h \in Threads : storing[h] \in 0..Len(transfers)
      BY <2>1 DEF Inv, HoldsOK, HeldOK
    <3>. QED  BY <2>1, <3>1
  <2>5. \A n \in DOMAIN transfers : transfers[n] \in Transfers
    BY <2>1
  <2>. QED  BY <2>1, <2>2, <2>3, <2>4, <2>5 DEF TypeOK, Transfers, Fates
<1>. QED  BY <1>1, Invariance, PTL

\* The name of a stage in Places.
NameOf(s) == CASE s = 4 -> "http" [] s = 3 -> "app" [] s = 2 -> "n1" [] OTHER -> "n2"

LEMMA PlacesAre ==
    ASSUME Inv, NEW n \in 1..Len(transfers)
    PROVE  \A p : p \in Places(n) <=>
              \E s \in 1..4 : \E k \in Slots(Line(queue, storing, toGnb), s) :
                 Line(queue, storing, toGnb)[s][k] = n /\ p = <<NameOf(s), k>>
<1>. DEFINE L == Line(queue, storing, toGnb)
            Held(p) == \E h \in Threads : storing[h] = n /\ p = <<"http", h>>
            Queues(t, p) == \E k \in 1..Len(queue[t]) : Num(t, queue[t][k]) = n /\ p = <<t, k>>
            InLane(s, p) == \E k \in Slots(L, s) : L[s][k] = n /\ p = <<NameOf(s), k>>
<1>1. queue \in [Tasks -> Seq(Messages)] /\ n # 0
  BY DEF Inv, SeqsOK
<1>2. ASSUME NEW t \in Tasks
      PROVE  /\ DOMAIN queue[t] = 1..Len(queue[t]) /\ Len(Lane(t, queue[t])) = Len(queue[t])
             /\ \A k \in 1..Len(queue[t]) : Lane(t, queue[t])[k] = Num(t, queue[t][k])
  <2>1. queue[t] \in Seq(Messages)
    BY <1>1
  <2>. QED  BY <2>1, LaneOf
<1>3. \A p : p \in Places(n) <=> Held(p) \/ \E t \in Tasks : Queues(t, p)
  BY <1>1, <1>2 DEF Places, Num, Counted
<1>4. \A k \in 1..Len(queue["sbi"]) : Num("sbi", queue["sbi"][k]) = 0
  BY DEF Inv, QueuesOK, QueueOK, MsgOK, Whats, Num, Counted, Tasks
<1>5. \A p : ~Queues("sbi", p)
  BY <1>1, <1>4
<1>6. /\ L[1] = Lane("n2", queue["n2"]) /\ L[2] = Lane("n1", queue["n1"])
      /\ L[3] = Lane("app", queue["app"]) /\ L[4] = storing
  BY LineIs
<1>7. /\ NameOf(1) = "n2" /\ NameOf(2) = "n1" /\ NameOf(3) = "app" /\ NameOf(4) = "http"
      /\ "n2" \in Tasks /\ "n1" \in Tasks /\ "app" \in Tasks
  BY DEF NameOf, Tasks
<1>. HIDE DEF L
<1>8. \A p : /\ InLane(4, p) <=> Held(p)
             /\ InLane(3, p) <=> Queues("app", p)
             /\ InLane(2, p) <=> Queues("n1", p)
             /\ InLane(1, p) <=> Queues("n2", p)
  BY <1>2, <1>6, <1>7 DEF Slots
<1>9. \A s \in 1..4 : s = 1 \/ s = 2 \/ s = 3 \/ s = 4
  OBVIOUS
<1>. HIDE DEF Held, Queues, InLane
<1>10. \A p : p \in Places(n) <=> \E s \in 1..4 : InLane(s, p)
  BY <1>3, <1>5, <1>8, <1>9 DEF Tasks
<1>. QED  BY <1>10 DEF InLane, L

\* From its acceptance until it is settled a transfer is in one place, whatever
\* the HTTP threads and the tasks do meanwhile; one that was given up or paged
\* for is in none, and none is sent to the gNB twice.
THEOREM TransferIsConservedAlways == Spec => []TransferIsConserved
<1>1. Inv => TransferIsConserved
  <2> SUFFICES ASSUME Inv, NEW n \in DOMAIN transfers
               PROVE  /\ Cardinality(Places(n)) = IF transfers[n].fate = "accepted" THEN 1 ELSE 0
                      /\ Cardinality({i \in DOMAIN toGnb : toGnb[i] = n}) <= 1
    BY DEF TransferIsConserved
  <2>. DEFINE L == Line(queue, storing, toGnb)
  <2>1. n \in 1..Len(transfers) /\ toGnb \in Seq(Nat) /\ L[0] = toGnb
    BY LineIs DEF Inv, SeqsOK
  <2>2. InOrder(L, transfers) /\ Awaited(L, transfers)
    BY DEF Inv, Ordered, Kept
  <2>3. \A p : p \in Places(n) <=>
           \E s \in 1..4 : \E k \in Slots(L, s) : L[s][k] = n /\ p = <<NameOf(s), k>>
    BY <2>1, PlacesAre
  <2>. HIDE DEF L
  <2>4. \A s \in 1..4 : s \in Stages
    BY DEF Stages
  <2>5. ASSUME transfers[n].fate = "accepted"
        PROVE  Cardinality(Places(n)) = 1
    <3>1. PICK s \in 1..4 : \E k \in Slots(L, s) : L[s][k] = n
      BY <2>1, <2>2, <2>5 DEF Awaited, OnItsWay
    <3>2. PICK k \in Slots(L, s) : L[s][k] = n
      BY <3>1
    <3>3. \A r \in 1..4 : \A l \in Slots(L, r) : L[r][l] = n => r = s /\ l = k
      BY <2>1, <2>2, <2>4, <3>2 DEF InOrder
    <3>4. Places(n) = {<<NameOf(s), k>>}
      BY <2>3, <3>2, <3>3
    <3>. QED  BY <3>4, FS_Singleton, Zenon
  <2>6. ASSUME transfers[n].fate # "accepted"
        PROVE  Cardinality(Places(n)) = 0
    <3>1. ~OnItsWay(L, n)
      BY <2>1, <2>2, <2>6 DEF Awaited
    <3>2. Places(n) = {}
      BY <2>3, <3>1 DEF OnItsWay
    <3>. QED  BY <3>2, FS_EmptySet, Zenon
  <2>7. Cardinality({i \in DOMAIN toGnb : toGnb[i] = n}) <= 1
    <3>. DEFINE Sent == {i \in DOMAIN toGnb : toGnb[i] = n}
    <3>1. CASE Sent = {}
      <4>1. Cardinality(Sent) = 0
        BY <3>1, FS_EmptySet, Zenon
      <4>. QED  BY <4>1
    <3>2. CASE Sent # {}
      <4>1. PICK i \in DOMAIN toGnb : toGnb[i] = n
        BY <3>2
      <4>2. 0 \in Stages /\ Slots(L, 0) = 1..Len(toGnb) /\ DOMAIN toGnb = 1..Len(toGnb)
        BY <2>1 DEF Slots, Stages
      <4>3. \A j \in 1..Len(toGnb) : toGnb[j] = n => j = i
        BY SMTT(40), <2>1, <2>2, <4>1, <4>2 DEF InOrder
      <4>4. Sent = {i}
        BY <4>1, <4>2, <4>3
      <4>5. Cardinality(Sent) = 1
        BY <4>4, FS_Singleton, Zenon
      <4>. QED  BY <4>5
    <3>. QED  BY <3>1, <3>2
  <2>. QED  BY <2>5, <2>6, <2>7
<1>. QED  BY <1>1, Invariance, PTL

\* What one HTTP thread (or TASK_AMF_SBI) has accepted is sent to the gNB in
\* that order, whichever way the transfers take through the tasks.
THEOREM OrderKeptAlways == Spec => []OrderKept
<1>1. Inv => OrderKept
  <2> SUFFICES ASSUME Inv, NEW i \in DOMAIN toGnb, NEW j \in DOMAIN toGnb, i < j,
                      transfers[toGnb[i]].src = transfers[toGnb[j]].src
               PROVE  toGnb[i] < toGnb[j]
    BY DEF OrderKept
  <2>. DEFINE L == Line(queue, storing, toGnb)
  <2>1. /\ toGnb \in Seq(Nat) /\ L[0] = toGnb /\ InOrder(L, transfers)
        /\ i \in 1..Len(toGnb) /\ j \in 1..Len(toGnb)
    BY LineIs DEF Inv, SeqsOK, Ordered
  <2>2. toGnb[i] \in 1..Len(transfers) /\ toGnb[j] \in 1..Len(transfers)
    BY <2>1 DEF Inv, HoldsOK, SentOK
  <2>. HIDE DEF L
  <2>3. /\ 0 \in Stages /\ i \in Slots(L, 0) /\ j \in Slots(L, 0)
        /\ L[0][i] = toGnb[i] /\ L[0][j] = toGnb[j]
    BY <2>1 DEF Stages, Slots
  <2>4. toGnb[i] # toGnb[j]
    BY <2>1, <2>2, <2>3 DEF InOrder
  <2>5. ~(toGnb[j] < toGnb[i])
    <3>1. toGnb[j] < toGnb[i] => Before(0, j, 0, i)
      BY <2>1, <2>2, <2>3 DEF InOrder
    <3>. QED  BY <2>1, <3>1 DEF Before
  <2>. QED  BY <2>2, <2>4, <2>5
<1>. QED  BY <1>1, Invariance, PTL

\* The gNB's answer to what it was asked for a session is never sent to another
\* SM context than the one that asked, if that is the session's newest and known
\* to the AMF.
THEOREM AnswerStaysAlways == Spec => []AnswerStaysInItsContext
<1>1. Inv => AnswerStaysInItsContext
  <2> SUFFICES ASSUME Inv, calling # None, calling.what = "update", calling.n # 0,
                      NEW c, c = transfers[calling.n].ctx,
                      c \in DOMAIN contexts, Newest(c), contexts[c].known
               PROVE  location[calling.sid] \in {c, 0, None}
    BY DEF AnswerStaysInItsContext
  <2>. DEFINE s == calling.sid
  <2>1. /\ s \in Sids /\ calling.n \in 1..Len(transfers)
        /\ transfers[calling.n].sid = s
        /\ contexts \in Seq(Contexts) /\ Len(contexts) \in Nat
        /\ location \in [Sids -> {None} \cup 0..Len(contexts)]
    BY DEF Inv, SeqsOK, CallingOK, Messages
  <2>2. c \in 1..Len(contexts) /\ contexts[c].sid = s
    BY SMTT(40), <2>1 DEF Inv, TransfersOK
  <2>. HIDE DEF s
  <2>3. CASE location[s] \in 1..Len(contexts)
    <3>1. contexts[location[s]].sid = s /\ c <= location[s]
      BY ZenonT(40), <2>1, <2>2, <2>3 DEF Inv, LocationsOK
    <3>2. location[s] <= c
      BY <2>1, <2>2, <2>3, <3>1 DEF Newest
    <3>3. location[s] = c
      BY <2>2, <2>3, <3>1, <3>2
    <3>. QED  BY <3>3 DEF s
  <2>4. CASE location[s] \notin 1..Len(contexts)
    BY <2>1, <2>4 DEF s
  <2>. QED  BY <2>3, <2>4
<1>. QED  BY <1>1, Invariance, PTL
=============================================================================
