--------------------------- MODULE ThreadsProofs ---------------------------
(***************************************************************************)
(* For any number of workers, any tasks and any plain threads (module      *)
(* Workers): stealing, sharing and injecting neither lose nor duplicate a  *)
(* task, and the count of searching workers covers everyone who will take  *)
(* one off it.  And for any readers (module Stdin): the thread that reads  *)
(* the standard input loses no line.                                       *)
(***************************************************************************)
EXTENDS Workers, Stdin, FiniteSetTheorems, TLAPS

-----------------------------------------------------------------------------
(* Sequences.                                                              *)

\* What is where in one sequence behind another.
LEMMA ConcatPlaces ==
    ASSUME NEW T, NEW a \in Seq(T), NEW b \in Seq(T)
    PROVE  /\ a \o b \in Seq(T) /\ Len(a \o b) = Len(a) + Len(b)
           /\ \A i \in 1..Len(a) : i \in 1..Len(a \o b) /\ (a \o b)[i] = a[i]
           /\ \A i \in 1..Len(b) : Len(a) + i \in 1..Len(a \o b) /\ (a \o b)[Len(a) + i] = b[i]
  OBVIOUS

\* Sequences with the same elements at the same places are the same,
LEMMA SameSequence ==
    ASSUME NEW T, NEW a \in Seq(T), NEW b \in Seq(T), Len(a) = Len(b), \A i \in 1..Len(a) : a[i] = b[i]
    PROVE  a = b
  OBVIOUS

\* so that the first n elements and the others are the sequence again.
LEMMA PrefixAndSuffix ==
    ASSUME NEW T, NEW a \in Seq(T), NEW n \in 0..Len(a)
    PROVE  SubSeq(a, 1, n) \o SubSeq(a, n + 1, Len(a)) = a
<1> DEFINE p == SubSeq(a, 1, n)
           q == SubSeq(a, n + 1, Len(a))
<1>1. /\ p \in Seq(T) /\ Len(p) = n /\ \A i \in 1..n : p[i] = a[i]
      /\ q \in Seq(T) /\ Len(q) = Len(a) - n /\ \A i \in 1..(Len(a) - n) : q[i] = a[n + i]
  OBVIOUS
<1>2. p \in Seq(T) /\ q \in Seq(T)
  BY ZenonT(60), <1>1
<1> HIDE DEF p, q
<1>3. /\ p \o q \in Seq(T) /\ Len(p \o q) = Len(a)
      /\ \A i \in 1..n : (p \o q)[i] = a[i]
      /\ \A i \in 1..(Len(a) - n) : (p \o q)[n + i] = a[n + i]
  <2>1. /\ p \o q \in Seq(T) /\ Len(p \o q) = Len(p) + Len(q)
        /\ \A i \in 1..Len(p) : (p \o q)[i] = p[i]
        /\ \A i \in 1..Len(q) : (p \o q)[Len(p) + i] = q[i]
    BY <1>2, ConcatPlaces
  <2>2. Len(a) \in Nat /\ n \in Nat /\ Len(p) = n /\ Len(q) = Len(a) - n
    BY <1>1
  <2> QED BY SMTT(40), <1>1, <2>1, <2>2
<1>4. ASSUME NEW i \in 1..Len(a) PROVE (p \o q)[i] = a[i]
  <2>1. i \in 1..n \/ (i - n \in 1..(Len(a) - n) /\ n + (i - n) = i)
    OBVIOUS
  <2> QED BY ZenonT(60), <1>3, <2>1
<1> QED BY ZenonT(60), <1>2, <1>3, <1>4, SameSequence DEF p, q

\* What is where behind the head,
LEMMA TailPlaces ==
    ASSUME NEW T, NEW a \in Seq(T), a # <<>>
    PROVE  /\ Tail(a) \in Seq(T) /\ Len(a) \in Nat \ {0} /\ Len(Tail(a)) = Len(a) - 1
           /\ Head(a) = a[1] /\ Head(a) \in T
           /\ \A i \in 1..Len(Tail(a)) : i + 1 \in 1..Len(a) /\ Tail(a)[i] = a[i + 1]
           /\ \A i \in 2..Len(a) : i - 1 \in 1..Len(Tail(a)) /\ Tail(a)[i - 1] = a[i]
  OBVIOUS

\* and with one element more.
LEMMA AppendPlaces ==
    ASSUME NEW T, NEW a \in Seq(T), NEW x \in T
    PROVE  /\ Append(a, x) \in Seq(T) /\ Len(Append(a, x)) = Len(a) + 1
           /\ Append(a, x)[Len(a) + 1] = x
           /\ \A i \in 1..Len(a) : i \in 1..Len(Append(a, x)) /\ Append(a, x)[i] = a[i]
  OBVIOUS

-----------------------------------------------------------------------------
(* Tasks that stand in lines.                                              *)

\* The lines f of I hold every task that is not in R, each in one place.
Spread(I, f, R) ==
    /\ f \in [I -> Seq(Tasks)] /\ R \subseteq Tasks
    /\ \A t \in Tasks : (\E l \in I : \E i \in 1..Len(f[l]) : f[l][i] = t) <=> t \notin R
    /\ \A l, m \in I : \A i \in 1..Len(f[l]), j \in 1..Len(f[m]) : f[l][i] = f[m][j] => l = m /\ i = j

\* g is f after the m tasks of p, the front of line a, went behind the n of
\* line b: q is left of a, and r is b now.
Moved(I, f, g, a, b, p, q, r, m, n) ==
    /\ f \in [I -> Seq(Tasks)] /\ g \in [I -> Seq(Tasks)] /\ p \in Seq(Tasks) /\ q \in Seq(Tasks) /\ r \in Seq(Tasks)
    /\ m = Len(p) /\ n = Len(f[b])
    /\ Len(f[a]) = m + Len(q)
    /\ \A i \in 1..m : f[a][i] = p[i]
    /\ \A i \in 1..Len(q) : f[a][m + i] = q[i]
    /\ Len(r) = n + m
    /\ \A i \in 1..n : r[i] = f[b][i]
    /\ \A i \in 1..m : r[n + i] = p[i]
    /\ g[a] = q /\ g[b] = r /\ \A l \in I : l # a /\ l # b => g[l] = f[l]

\* A task that moves is neither lost nor doubled: every place of a line after
\* the move has a place before it, and two places have two.
LEMMA MovedPlaces ==
    ASSUME NEW I, NEW f, NEW g, NEW R, Spread(I, f, R), NEW a \in I, NEW b \in I, a # b,
           NEW p, NEW q, NEW r, NEW m, NEW n, Moved(I, f, g, a, b, p, q, r, m, n)
    PROVE  Spread(I, g, R)
<1> DEFINE L(l, i) == IF l = b /\ i > n THEN a ELSE l
           K(l, i) == IF l = a THEN m + i ELSE IF l = b /\ i > n THEN i - n ELSE i
<1>1. /\ m \in Nat /\ n \in Nat /\ Len(q) \in Nat /\ Len(f[a]) = m + Len(q) /\ Len(f[b]) = n
      /\ Len(g[a]) = Len(q) /\ Len(g[b]) = n + m
      /\ \A l \in I : Len(f[l]) \in Nat /\ Len(g[l]) \in Nat
  BY DEF Moved
<1>2. \A i \in 1..m : f[a][i] = p[i] /\ g[b][n + i] = p[i]
  BY ZenonT(60) DEF Moved
<1>3. \A i \in 1..Len(q) : f[a][m + i] = g[a][i]
  BY ZenonT(60) DEF Moved
<1>4. \A i \in 1..n : g[b][i] = f[b][i]
  BY ZenonT(60) DEF Moved
<1>5. \A l \in I : l # a /\ l # b => g[l] = f[l]
  BY ZenonT(60) DEF Moved
<1>6. ASSUME NEW l \in I, NEW i \in 1..Len(g[l])
      PROVE  \E k \in I : \E j \in 1..Len(f[k]) : k = L(l, i) /\ j = K(l, i) /\ f[k][j] = g[l][i]
  <2>1. CASE l = a
    <3>1. L(l, i) = a /\ K(l, i) = m + i /\ m + i \in 1..Len(f[a])
      BY <1>1, <2>1
    <3> QED BY ZenonT(60), <1>1, <1>3, <2>1, <3>1
  <2>2. CASE l = b /\ i > n
    <3>1. L(l, i) = a /\ K(l, i) = i - n /\ i - n \in 1..m /\ i = n + (i - n) /\ i - n \in 1..Len(f[a])
      BY <1>1, <2>2
    <3>2. g[b][n + (i - n)] = f[a][i - n]
      BY ZenonT(60), <1>2, <3>1
    <3> QED BY ZenonT(60), <2>2, <3>1, <3>2
  <2>3. CASE l = b /\ ~(i > n)
    <3>1. L(l, i) = b /\ K(l, i) = i /\ i \in 1..n
      BY <1>1, <2>3
    <3> QED BY ZenonT(60), <1>1, <1>4, <2>3, <3>1
  <2>4. CASE l # a /\ l # b
    BY ZenonT(60), <1>5, <2>4
  <2> QED BY ZenonT(60), <2>1, <2>2, <2>3, <2>4
<1>7. ASSUME NEW l \in I, NEW i \in 1..Len(f[l])
      PROVE  \E k \in I : \E j \in 1..Len(g[k]) : g[k][j] = f[l][i]
  <2>1. CASE l = a /\ i <= m
    <3>1. i \in 1..m /\ n + i \in 1..Len(g[b])
      BY <1>1, <2>1
    <3> QED BY ZenonT(60), <1>2, <2>1, <3>1
  <2>2. CASE l = a /\ i > m
    <3>1. i - m \in 1..Len(q) /\ i = m + (i - m)
      BY <1>1, <2>2
    <3>2. i - m \in 1..Len(g[a]) /\ f[a][m + (i - m)] = g[a][i - m]
      BY ZenonT(60), <1>1, <1>3, <3>1
    <3> QED BY ZenonT(60), <2>2, <3>1, <3>2
  <2>3. CASE l = b
    <3>1. i \in 1..n /\ i \in 1..Len(g[b])
      BY <1>1, <2>3
    <3> QED BY ZenonT(60), <1>4, <2>3, <3>1
  <2>4. CASE l # a /\ l # b
    BY ZenonT(60), <1>5, <2>4
  <2>5. i <= m \/ i > m
    BY <1>1
  <2> QED BY ZenonT(60), <2>1, <2>2, <2>3, <2>4, <2>5
<1>8. ASSUME NEW l \in I, NEW k \in I, NEW i \in 1..Len(g[l]), NEW j \in 1..Len(g[k]), g[l][i] = g[k][j]
      PROVE  l = k /\ i = j
  <2>1. PICK c \in I : \E d \in 1..Len(f[c]) : c = L(l, i) /\ d = K(l, i) /\ f[c][d] = g[l][i]
    BY ZenonT(60), <1>6
  <2>2. PICK e \in I : \E d \in 1..Len(f[e]) : e = L(k, j) /\ d = K(k, j) /\ f[e][d] = g[k][j]
    BY ZenonT(60), <1>6
  <2>3. L(l, i) = L(k, j) /\ K(l, i) = K(k, j)
    BY SMTT(40), <1>8, <2>1, <2>2 DEF Spread
  <2>4. i \in Nat /\ j \in Nat /\ i > 0 /\ j > 0
    BY <1>1
  <2>5. (l = b /\ i > n => i - n <= m) /\ (k = b /\ j > n => j - n <= m)
    BY SMTT(40), <1>1
  <2> QED BY <1>1, <2>3, <2>4, <2>5
<1>9. \A t \in Tasks : (\E l \in I : \E i \in 1..Len(g[l]) : g[l][i] = t) <=> t \notin R
  <2> SUFFICES ASSUME NEW t \in Tasks
               PROVE  (\E l \in I : \E i \in 1..Len(g[l]) : g[l][i] = t) <=> \E l \in I : \E i \in 1..Len(f[l]) : f[l][i] = t
    BY ZenonT(60) DEF Spread
  <2>1. ASSUME NEW l \in I, NEW i \in 1..Len(g[l]), g[l][i] = t
        PROVE  \E k \in I : \E j \in 1..Len(f[k]) : f[k][j] = t
    BY SMTT(40), <1>6, <2>1
  <2>2. ASSUME NEW l \in I, NEW i \in 1..Len(f[l]), f[l][i] = t
        PROVE  \E k \in I : \E j \in 1..Len(g[k]) : g[k][j] = t
    BY ZenonT(60), <1>7, <2>2
  <2> QED BY ZenonT(60), <2>1, <2>2
<1>10. g \in [I -> Seq(Tasks)] /\ R \subseteq Tasks
  BY ZenonT(60) DEF Moved, Spread
<1> QED BY ZenonT(60), <1>8, <1>9, <1>10 DEF Spread

\* The same, for a line written as p before q.
LEMMA Moves ==
    ASSUME NEW I, NEW f, NEW R, Spread(I, f, R), NEW a \in I, NEW b \in I, a # b,
           NEW p \in Seq(Tasks), NEW q \in Seq(Tasks), f[a] = p \o q,
           NEW g, g = [f EXCEPT ![a] = q, ![b] = f[b] \o p]
    PROVE  Spread(I, g, R)
<1> DEFINE r == f[b] \o p
<1>1. f \in [I -> Seq(Tasks)] /\ f[b] \in Seq(Tasks)
  BY ZenonT(60) DEF Spread
<1>2. /\ Len(f[a]) = Len(p) + Len(q)
      /\ \A i \in 1..Len(p) : f[a][i] = p[i]
      /\ \A i \in 1..Len(q) : f[a][Len(p) + i] = q[i]
  BY SMTT(40), ConcatPlaces
<1>3. /\ r \in Seq(Tasks) /\ Len(r) = Len(f[b]) + Len(p)
      /\ \A i \in 1..Len(f[b]) : r[i] = f[b][i]
      /\ \A i \in 1..Len(p) : r[Len(f[b]) + i] = p[i]
  BY <1>1, ConcatPlaces
<1>4. g = [f EXCEPT ![a] = q, ![b] = r]
  OBVIOUS
<1> HIDE DEF r
<1>5. /\ g \in [I -> Seq(Tasks)] /\ g[a] = q /\ g[b] = r /\ \A l \in I : l # a /\ l # b => g[l] = f[l]
  BY ZenonT(60), <1>1, <1>3, <1>4
<1>6. Moved(I, f, g, a, b, p, q, r, Len(p), Len(f[b]))
  BY ZenonT(60), <1>1, <1>2, <1>3, <1>5 DEF Moved
<1> QED BY ZenonT(60), <1>6, MovedPlaces

\* A task that stood nowhere is added at the end of a line.
LEMMA Enters ==
    ASSUME NEW I, NEW f, NEW R, Spread(I, f, R), NEW b \in I, NEW t \in R, NEW g, g = [f EXCEPT ![b] = Append(f[b], t)]
    PROVE  Spread(I, g, R \ {t})
<1>1. /\ f \in [I -> Seq(Tasks)] /\ t \in Tasks /\ g \in [I -> Seq(Tasks)] /\ R \subseteq Tasks
      /\ g[b] = Append(f[b], t) /\ \A l \in I : l # b => g[l] = f[l]
  BY DEF Spread
<1> DEFINE n == Len(f[b])
<1>2. n \in Nat /\ Len(g[b]) = n + 1 /\ g[b][n + 1] = t /\ \A i \in 1..n : g[b][i] = f[b][i]
  BY <1>1
<1>3. ASSUME NEW l \in I, NEW i \in 1..Len(g[l]), ~(l = b /\ i = n + 1)
      PROVE  i \in 1..Len(f[l]) /\ g[l][i] = f[l][i]
  BY <1>1, <1>2, <1>3
<1>4. ASSUME NEW l \in I, NEW i \in 1..Len(f[l])
      PROVE  i \in 1..Len(g[l]) /\ g[l][i] = f[l][i] /\ f[l][i] # t
  BY <1>1, <1>2 DEF Spread
<1>5. b \in I /\ n + 1 \in 1..Len(g[b])
  BY <1>2
<1> HIDE DEF n
<1>6. \A l, k \in I : \A i \in 1..Len(g[l]), j \in 1..Len(g[k]) : g[l][i] = g[k][j] => l = k /\ i = j
  <2> SUFFICES ASSUME NEW l \in I, NEW k \in I, NEW i \in 1..Len(g[l]), NEW j \in 1..Len(g[k]), g[l][i] = g[k][j]
               PROVE  l = k /\ i = j
    OBVIOUS
  <2>1. CASE ~(l = b /\ i = n + 1) /\ ~(k = b /\ j = n + 1)
    BY SMTT(40), <1>3, <2>1 DEF Spread
  <2>2. CASE l = b /\ i = n + 1
    BY SMTT(40), <1>2, <1>3, <1>4, <2>2
  <2>3. CASE k = b /\ j = n + 1
    BY SMTT(40), <1>2, <1>3, <1>4, <2>3
  <2> QED BY ZenonT(60), <2>1, <2>2, <2>3
<1>7. \A u \in Tasks : (\E l \in I : \E i \in 1..Len(g[l]) : g[l][i] = u) <=> u \notin R \ {t}
  <2> SUFFICES ASSUME NEW u \in Tasks
               PROVE  (\E l \in I : \E i \in 1..Len(g[l]) : g[l][i] = u)
                        <=> (u = t \/ \E l \in I : \E i \in 1..Len(f[l]) : f[l][i] = u)
    BY ZenonT(60) DEF Spread
  <2> QED BY <1>2, <1>3, <1>4, <1>5
<1> QED BY ZenonT(60), <1>1, <1>6, <1>7 DEF Spread

\* The only task of a line leaves it.
LEMMA Leaves ==
    ASSUME NEW I, NEW f, NEW R, Spread(I, f, R), NEW a \in I, NEW t \in Tasks, f[a] = <<t>>, NEW g, g = [f EXCEPT ![a] = <<>>]
    PROVE  Spread(I, g, R \cup {t}) /\ t \notin R
<1>1. /\ f \in [I -> Seq(Tasks)] /\ g \in [I -> Seq(Tasks)] /\ R \subseteq Tasks
      /\ Len(g[a]) = 0 /\ Len(f[a]) = 1 /\ f[a][1] = t /\ \A l \in I : l # a => g[l] = f[l]
  BY DEF Spread
<1>2. ASSUME NEW l \in I, NEW i \in 1..Len(g[l])
      PROVE  l # a /\ i \in 1..Len(f[l]) /\ g[l][i] = f[l][i] /\ f[l][i] # t
  <2>1. l # a /\ g[l] = f[l]
    BY <1>1
  <2> QED BY SMTT(40), <1>1, <2>1 DEF Spread
<1>3. ASSUME NEW l \in I, NEW i \in 1..Len(f[l])
      PROVE  f[l][i] = t \/ (i \in 1..Len(g[l]) /\ g[l][i] = f[l][i])
  BY <1>1
<1>4. \A l, k \in I : \A i \in 1..Len(g[l]), j \in 1..Len(g[k]) : g[l][i] = g[k][j] => l = k /\ i = j
  BY <1>2 DEF Spread
<1>5. t \notin R
  BY <1>1 DEF Spread
<1>6. \A u \in Tasks : (\E l \in I : \E i \in 1..Len(g[l]) : g[l][i] = u) <=> u \notin R \cup {t}
  <2> SUFFICES ASSUME NEW u \in Tasks
               PROVE  (\E l \in I : \E i \in 1..Len(g[l]) : g[l][i] = u)
                        <=> (u # t /\ \E l \in I : \E i \in 1..Len(f[l]) : f[l][i] = u)
    BY ZenonT(60) DEF Spread
  <2> QED BY <1>2, <1>3
<1> QED BY ZenonT(60), <1>1, <1>4, <1>5, <1>6 DEF Spread

-----------------------------------------------------------------------------
(* Where threads are.                                                      *)

\* Where a thread can be,
Steps == {"off", "begin", "idle", "notify", "load", "clear", "count", "mark", "wake", "start", "fill", "unstarted",
          "loop", "exit", "run", "wakemain", "inject", "tick", "tickevents", "poll", "blocked", "events", "timers",
          "answer", "steal", "extend", "looked", "park", "recheck"}

\* and where notify_idle can return to.
Returns == {"idle", "run", "tickevents", "events", "timers"}

\* A worker runs a task, or notifies in the middle of running it.
Busy(w) == pc[w] = "run" \/ (Notifying(w) /\ back[w] = "run")

\* What every thread's place says of the rest: which worker it aims at, who
\* holds STARTING, which workers have not started.
StepInv ==
    /\ pc \in [Procs -> Steps] /\ back \in [Procs -> Returns]
    /\ otherwise \in [Workers -> {"loop", "park"}]
    /\ aim \in [Procs -> Nat]
    /\ slots \subseteq Workers /\ sleeping \subseteq Workers
    /\ \A x \in Procs : pc[x] \in {"clear", "count", "mark", "wake", "start", "fill", "unstarted"} => aim[x] \in Workers
    /\ \A x \in Procs : pc[x] \in {"fill", "unstarted"} => starting = {x}
    /\ \A w \in Workers : w \notin slots => pc[w] = "off" \/ \E x \in Procs : pc[x] = "fill" /\ aim[x] = w

\* A worker has a task exactly while it runs one, and a thief holds tasks only
\* between stealing them and queueing them.
HoldInv ==
    /\ queue \in [Workers -> Seq(Tasks)] /\ hand \in [Workers -> Seq(Tasks)] /\ inject \in Seq(Tasks)
    /\ cur \in [Workers -> Tasks \cup {NoTask}] /\ asleep \subseteq Tasks /\ finished \subseteq Tasks
    /\ \A w \in Workers : cur[w] # NoTask <=> Busy(w)
    /\ \A w \in Workers : hand[w] # <<>> => pc[w] = "extend"

\* The places where a notifying thread has chosen a worker.
Aiming == {"clear", "count", "mark", "wake", "start", "fill", "unstarted"}

\* StepInv holds at the start.
LEMMA StepsStart == Init => StepInv
<1> SUFFICES ASSUME Init PROVE StepInv
  OBVIOUS
<1> USE WorkersAssumption
<1>1. 0 \in Workers /\ Workers \subseteq Procs
  BY DEF Workers, Procs
<1> QED BY ZenonT(60), <1>1 DEF Init, StepInv, Steps, Returns

\* One thread goes somewhere else, and neither starts nor finishes starting
\* a worker.
LEMMA OneSteps ==
    ASSUME StepInv, NEW x \in Procs, NEW s \in Steps \ {"fill", "unstarted"}, pc[x] \notin {"off", "fill"},
           Goto(x, s), UNCHANGED <<starting, slots>>, sleeping' \subseteq Workers,
           back' \in [Procs -> Returns], otherwise' \in [Workers -> {"loop", "park"}], aim' \in [Procs -> Nat],
           \A y \in Procs : y # x => aim'[y] = aim[y], s \in Aiming => aim'[x] \in Workers
    PROVE  StepInv'
<1>1. pc' = [pc EXCEPT ![x] = s] /\ pc \in [Procs -> Steps]
  BY ZenonT(60) DEF Goto, StepInv
<1>2. pc' \in [Procs -> Steps] /\ pc'[x] = s /\ \A y \in Procs : y # x => pc'[y] = pc[y]
  BY ZenonT(60), <1>1
<1>3. \A y \in Procs : pc'[y] \in Aiming => aim'[y] \in Workers
  BY ZenonT(60), <1>2 DEF StepInv, Aiming
<1>4. \A y \in Procs : pc'[y] \in {"fill", "unstarted"} => starting' = {y}
  BY ZenonT(60), <1>2 DEF StepInv
<1>5. ASSUME NEW w \in Workers, w \notin slots'
      PROVE  pc'[w] = "off" \/ \E y \in Procs : pc'[y] = "fill" /\ aim'[y] = w
  <2>1. pc[w] = "off" \/ \E y \in Procs : pc[y] = "fill" /\ aim[y] = w
    BY ZenonT(60), <1>5 DEF StepInv
  <2> QED BY ZenonT(60), <1>2, <2>1 DEF Procs
<1>6. slots' \subseteq Workers
  BY ZenonT(60) DEF StepInv
<1> QED BY ZenonT(60), <1>2, <1>3, <1>4, <1>5, <1>6 DEF StepInv, Aiming

\* No thread goes anywhere.
LEMMA StepsKept ==
    ASSUME StepInv, UNCHANGED <<pc, back, otherwise, aim, slots, sleeping, starting>>
    PROVE  StepInv'
  BY ZenonT(60) DEF StepInv

\* A thread leaves notify_idle.
LEMMA ReturnSteps ==
    ASSUME StepInv, NEW x \in Procs, pc[x] \notin {"off", "fill"}, Return(x), UNCHANGED <<starting, slots, otherwise>>,
           sleeping' \subseteq Workers
    PROVE  StepInv'
<1>1. back[x] \in Returns /\ back' \in [Procs -> Returns] /\ aim' \in [Procs -> Nat]
      /\ (\A y \in Procs : y # x => aim'[y] = aim[y]) /\ Goto(x, back[x])
  BY ZenonT(60) DEF StepInv, Return, Returns
<1>2. back[x] \in Steps \ {"fill", "unstarted"} /\ back[x] \notin Aiming
  BY ZenonT(60), <1>1 DEF Returns, Steps, Aiming
<1>3. otherwise' \in [Workers -> {"loop", "park"}]
  BY ZenonT(60) DEF StepInv
<1> QED BY ZenonT(60), <1>1, <1>2, <1>3, OneSteps

\* A thread goes on, aiming at the worker it aimed at.
LEMMA ContinueSteps ==
    ASSUME StepInv, NEW x \in Procs, NEW s \in Steps \ {"fill", "unstarted"}, pc[x] \notin {"off", "fill"}, Continue(x, s),
           s \in Aiming => pc[x] \in Aiming, UNCHANGED <<starting, slots, otherwise>>, sleeping' \subseteq Workers
    PROVE  StepInv'
<1>1. back' \in [Procs -> Returns] /\ otherwise' \in [Workers -> {"loop", "park"}] /\ aim' \in [Procs -> Nat]
      /\ (\A y \in Procs : y # x => aim'[y] = aim[y]) /\ (s \in Aiming => aim'[x] \in Workers) /\ Goto(x, s)
  BY ZenonT(60) DEF StepInv, Continue, Aiming
<1> QED BY ZenonT(60), <1>1, OneSteps

\* Every step keeps StepInv: one step per action, or per few that are alike.
LEMMA StepsStay == StepInv /\ [Next]_vars => StepInv'
<1> SUFFICES ASSUME StepInv, [Next]_vars PROVE StepInv'
  OBVIOUS
<1> USE WorkersAssumption
<1>1. Workers \subseteq Procs /\ Threads \subseteq Procs /\ Workers \subseteq Nat
  BY DEF Procs, Workers
<1>2. CASE UNCHANGED vars
  BY ZenonT(60), <1>2, StepsKept DEF vars, parking
<1>3. sleeping \subseteq Workers
  BY ZenonT(60) DEF StepInv
<1>4. ASSUME NEW x \in Procs, NotifyLoadSearching(x) PROVE StepInv'
  BY ZenonT(60), <1>3, <1>4, ReturnSteps, ContinueSteps DEF NotifyLoadSearching, parking, Steps, Aiming
<1>5. ASSUME NEW x \in Procs, NotifyLoadSleeping(x) PROVE StepInv'
  <2>1. pc[x] = "load" /\ UNCHANGED <<starting, slots, otherwise, sleeping>>
    BY ZenonT(60), <1>5 DEF NotifyLoadSleeping, parking
  <2>2. CASE Return(x)
    BY ZenonT(60), <1>3, <2>1, <2>2, ReturnSteps
  <2>3. ASSUME NEW S, S \subseteq Workers, NEW s \in {"clear", "start"}, AimAtLowest(x, S, s)
        PROVE  StepInv'
    <3>1. PICK v \in S : aim' = [aim EXCEPT ![x] = v]
      BY ZenonT(60), <2>3 DEF AimAtLowest
    <3>2. /\ aim' \in [Procs -> Nat] /\ aim'[x] \in Workers /\ (\A y \in Procs : y # x => aim'[y] = aim[y])
          /\ back' \in [Procs -> Returns] /\ otherwise' \in [Workers -> {"loop", "park"}]
      BY SMTT(40), <1>1, <2>1, <2>3, <3>1 DEF StepInv, AimAtLowest
    <3>3. s \in Steps \ {"fill", "unstarted"} /\ Goto(x, s)
      BY ZenonT(60), <2>3 DEF Steps, AimAtLowest
    <3> QED BY ZenonT(60), <1>3, <2>1, <2>3, <3>2, <3>3, OneSteps
  <2>4. Workers \ slots \subseteq Workers
    OBVIOUS
  <2> QED BY ZenonT(60), <1>3, <1>5, <2>2, <2>3, <2>4 DEF NotifyLoadSleeping
<1>6. ASSUME NEW x \in Procs, NotifyClearBit(x) PROVE StepInv'
  <2>1. sleeping' \subseteq Workers
    BY ZenonT(60), <1>3, <1>6 DEF NotifyClearBit
  <2> QED BY ZenonT(60), <1>6, <2>1, ReturnSteps, ContinueSteps DEF NotifyClearBit, Steps, Aiming
<1>7. ASSUME NEW x \in Procs, NotifyCount(x) PROVE StepInv'
  BY ZenonT(60), <1>3, <1>7, ContinueSteps DEF NotifyCount, Steps, Aiming
<1>8. ASSUME NEW x \in Procs, NotifyMark(x) PROVE StepInv'
  BY ZenonT(60), <1>3, <1>8, ContinueSteps DEF NotifyMark, Steps, Aiming
<1>9. ASSUME NEW x \in Procs, NotifyWake(x) PROVE StepInv'
  BY ZenonT(60), <1>3, <1>9, ReturnSteps DEF NotifyWake
<1>10. ASSUME NEW x \in Procs, StartedAlready(x) PROVE StepInv'
  BY ZenonT(60), <1>3, <1>10, ReturnSteps DEF StartedAlready, parking
<1>11. ASSUME NEW x \in Procs, StartWorker(x) PROVE StepInv'
  <2>1. /\ pc[x] = "start" /\ starting = {} /\ aim[x] \notin slots /\ starting' = {x}
        /\ UNCHANGED <<sleeping, slots, back, aim, otherwise>>
    BY ZenonT(60), <1>11 DEF StartWorker
  <2>2. aim[x] \in Workers /\ \A y \in Procs : pc[y] \notin {"fill", "unstarted"}
    BY ZenonT(60), <2>1 DEF StepInv
  <2>3. \A w \in Workers : w \notin slots => pc[w] = "off"
    BY ZenonT(60), <2>2 DEF StepInv
  <2>4. pc[aim[x]] = "off" /\ aim[x] # x
    BY ZenonT(60), <2>1, <2>2, <2>3
  <2>5. CASE pc' = [pc EXCEPT ![x] = "fill", ![aim[x]] = "begin"]
    <3>1. /\ pc' \in [Procs -> Steps] /\ pc'[x] = "fill" /\ pc'[aim[x]] = "begin"
          /\ \A y \in Procs : y # x /\ y # aim[x] => pc'[y] = pc[y]
      BY ZenonT(60), <1>1, <2>2, <2>4, <2>5 DEF StepInv, Steps
    <3> QED BY ZenonT(60), <2>1, <2>2, <2>3, <3>1 DEF StepInv, Procs
  <2>6. CASE Goto(x, "unstarted")
    <3>1. /\ pc' \in [Procs -> Steps] /\ pc'[x] = "unstarted" /\ \A y \in Procs : y # x => pc'[y] = pc[y]
      BY ZenonT(60), <2>6 DEF StepInv, Steps, Goto
    <3> QED BY ZenonT(60), <1>1, <2>1, <2>2, <2>3, <3>1 DEF StepInv
  <2> QED BY ZenonT(60), <1>11, <2>5, <2>6 DEF StartWorker
<1>12. ASSUME NEW x \in Procs, FillSlot(x) \/ StartFailed(x) PROVE StepInv'
  <2>1. /\ pc[x] \in {"fill", "unstarted"} /\ starting' = {} /\ Return(x) /\ UNCHANGED <<sleeping, otherwise>>
        /\ slots' \in {slots, slots \cup {aim[x]}} /\ (pc[x] = "fill" => slots' = slots \cup {aim[x]})
    BY ZenonT(60), <1>12 DEF FillSlot, StartFailed, parking
  <2>2. back[x] \in Returns /\ back[x] \in Steps /\ back[x] \notin {"fill", "unstarted"} /\ aim[x] \in Workers
    BY <2>1 DEF StepInv, Returns, Steps
  <2>3. /\ pc' \in [Procs -> Steps] /\ pc'[x] = back[x] /\ (\A y \in Procs : y # x => pc'[y] = pc[y])
        /\ aim' \in [Procs -> Nat] /\ (\A y \in Procs : y # x => aim'[y] = aim[y]) /\ back' \in [Procs -> Returns]
    BY ZenonT(60), <2>1, <2>2 DEF StepInv, Return, Goto, Returns
  <2>4. \A y \in Procs : pc'[y] \notin {"fill", "unstarted"}
    BY SMTT(40), <2>1, <2>2, <2>3 DEF StepInv
  <2>5. \A y \in Procs : pc'[y] \in Aiming => aim'[y] \in Workers
    BY ZenonT(60), <2>2, <2>3 DEF StepInv, Aiming, Returns
  <2>6. ASSUME NEW w \in Workers, w \notin slots' PROVE pc'[w] = "off"
    <3>1. w \notin slots /\ (pc[x] = "fill" => w # aim[x])
      BY ZenonT(60), <2>1, <2>6
    <3>2. pc[w] = "off"
      BY <2>1, <3>1 DEF StepInv
    <3> QED BY ZenonT(60), <1>1, <2>1, <2>3, <3>2
  <2> QED BY <2>1, <2>2, <2>3, <2>4, <2>5, <2>6 DEF StepInv, Aiming
<1>13. ASSUME NEW w \in Workers, NEW t \in Tasks, RunWakes(w, t) \/ Deliver(w, t) PROVE StepInv'
  <2>1. /\ pc[w] \in {"run", "tickevents", "events", "timers"} /\ PushOwn(w, t)
        /\ UNCHANGED <<aim, otherwise, sleeping, slots, starting>>
    BY ZenonT(60), <1>13 DEF RunWakes, Deliver, parking
  <2>2. CASE UNCHANGED <<pc, back>>
    BY ZenonT(60), <2>1, <2>2, StepsKept
  <2>3. CASE Goto(w, "notify") /\ back' = [back EXCEPT ![w] = pc[w]]
    <3>1. back' \in [Procs -> Returns] /\ otherwise' \in [Workers -> {"loop", "park"}] /\ aim' \in [Procs -> Nat]
      BY ZenonT(60), <1>1, <2>1, <2>3 DEF StepInv, Returns
    <3> QED BY ZenonT(60), <1>1, <1>3, <2>1, <2>3, <3>1, OneSteps DEF Steps, Aiming
  <2> QED BY ZenonT(60), <2>1, <2>2, <2>3 DEF PushOwn
<1>14. ASSUME NEW p \in Threads, NEW t \in Tasks, PushInject(p, t) PROVE StepInv'
  BY ZenonT(60), <1>1, <1>3, <1>14, ContinueSteps DEF PushInject, Continue, Steps, Aiming, parking
<1>15. ASSUME NEW w \in Workers, Exit(w) \/ Pop(w) \/ RunEnds(w) \/ WakeMainWorker(w) \/ TakeInjected(w) PROVE StepInv'
  <2>1. /\ pc[w] \in {"loop", "run", "wakemain", "tickevents", "inject"}
        /\ UNCHANGED <<sleeping, starting, slots, back, aim, otherwise>>
        /\ \E s \in {"exit", "run", "inject", "tick", "loop", "wakemain", "answer"} : Goto(w, s)
    BY ZenonT(60), <1>15 DEF Exit, Pop, RunEnds, RunYields, RunWaits, RunReturns, WakeMainWorker, TakeInjected, parking, NextPlace
  <2>2. PICK s \in {"exit", "run", "inject", "tick", "loop", "wakemain", "answer"} : Goto(w, s)
    BY ZenonT(60), <2>1
  <2> QED BY ZenonT(60), <1>1, <1>3, <2>1, <2>2, ContinueSteps DEF Continue, Steps, Aiming
<1>16. ASSUME NEW w \in Workers, Announce(w) \/ Recheck(w) \/ Unpark(w) \/ Poll(w) PROVE StepInv'
  <2>1. /\ pc[w] \in {"park", "recheck", "events", "tick", "poll", "blocked"} /\ sleeping' \subseteq Workers
        /\ UNCHANGED <<starting, slots, back, aim, otherwise>>
        /\ \E s \in {"recheck", "poll", "blocked", "timers", "tickevents", "events"} : Goto(w, s)
    BY ZenonT(60), <1>3, <1>16 DEF Announce, Recheck, Unpark, Poll, parking
  <2>2. PICK s \in {"recheck", "poll", "blocked", "timers", "tickevents", "events"} : Goto(w, s)
    BY ZenonT(60), <2>1
  <2> QED BY ZenonT(60), <1>1, <2>1, <2>2, ContinueSteps DEF Continue, Steps, Aiming
<1>17. ASSUME NEW w \in Workers, Answer(w) \/ Steal(w) \/ Extend(w) \/ Looked(w) PROVE StepInv'
  <2>1. /\ pc[w] \in {"begin", "answer", "timers", "steal", "extend", "looked"}
        /\ UNCHANGED <<sleeping, starting, slots, back>>
    BY ZenonT(60), <1>17 DEF Answer, Steal, Extend, Looked, parking
  <2>2. otherwise' \in [Workers -> {"loop", "park"}] /\ otherwise[w] \in {"loop", "park"}
    <3>1. CASE Answer(w)
      BY <3>1 DEF StepInv, Answer, Otherwise
    <3>2. CASE Steal(w)
      BY ZenonT(60), <3>2 DEF StepInv, Steal
    <3>3. CASE Extend(w)
      BY ZenonT(60), <3>3 DEF StepInv, Extend
    <3>4. CASE Looked(w)
      BY ZenonT(60), <3>4 DEF StepInv, Looked
    <3> QED BY ZenonT(60), <1>17, <3>1, <3>2, <3>3, <3>4
  <2>3. aim' \in [Procs -> Nat] /\ \A y \in Procs : y # w => aim'[y] = aim[y]
    <3>1. UNCHANGED aim \/ aim' = [aim EXCEPT ![w] = @ + 1] \/ aim' = [aim EXCEPT ![w] = 0]
      BY ZenonT(60), <1>17 DEF Answer, Steal, Extend, Looked
    <3> QED BY <1>1, <3>1 DEF StepInv
  <2>4. UNCHANGED pc \/ \E s \in {"steal", "extend", "looked", "park", "loop"} : Goto(w, s)
    BY ZenonT(60), <1>17, <2>2 DEF Answer, Otherwise, Steal, Extend, Looked
  <2>5. CASE UNCHANGED pc
    BY SMTT(40), <1>1, <2>1, <2>2, <2>3, <2>5 DEF StepInv
  <2>6. ASSUME NEW s \in {"steal", "extend", "looked", "park", "loop"}, Goto(w, s) PROVE StepInv'
    <3>1. back' \in [Procs -> Returns] /\ s \in Steps \ {"fill", "unstarted"} /\ s \notin Aiming
      BY ZenonT(60), <2>1 DEF StepInv, Steps, Aiming
    <3> QED BY ZenonT(60), <1>1, <1>3, <2>1, <2>2, <2>3, <2>6, <3>1, OneSteps
  <2> QED BY ZenonT(60), <2>4, <2>5, <2>6
<1> QED
  BY ZenonT(60), <1>2, <1>4, <1>5, <1>6, <1>7, <1>8, <1>9, <1>10, <1>11, <1>12, <1>13, <1>14, <1>15, <1>16, <1>17
  DEF Next, WorkerStep, NotifyStep

-----------------------------------------------------------------------------
(* Each task once.                                                         *)

\* The lines of the model.
standing == [l \in Places |-> Line(l)]

\* What EachTaskOnce says, of `standing`.
OnceInv == Spread(Places, standing, asleep \cup finished) /\ asleep \cap finished = {}

\* What the lines are.
LEMMA LinesOf ==
    ASSUME HoldInv
    PROVE  /\ standing \in [Places -> Seq(Tasks)]
           /\ \A w \in Workers : /\ <<"queue", w>> \in Places /\ standing[<<"queue", w>>] = queue[w]
                                 /\ <<"hand", w>> \in Places /\ standing[<<"hand", w>>] = hand[w]
                                 /\ <<"running", w>> \in Places
                                 /\ (cur[w] = NoTask => standing[<<"running", w>>] = <<>>)
                                 /\ (cur[w] # NoTask => standing[<<"running", w>>] = <<cur[w]>>)
                                 /\ <<"inject", w>> \in Places
                                 /\ standing[<<"inject", w>>] = (IF w = 0 THEN inject ELSE <<>>)
           /\ <<"inject", 0>> \in Places /\ standing[<<"inject", 0>>] = inject
<1> USE DEF Places
<1>1. \A w \in Workers : <<"queue", w>> \in Places /\ <<"hand", w>> \in Places /\ <<"running", w>> \in Places /\ <<"inject", w>> \in Places
  OBVIOUS
<1>2. 0 \in Workers
  BY WorkersAssumption DEF Workers
<1>3. ASSUME NEW l \in Places PROVE Line(l) \in Seq(Tasks)
  <2>1. l[1] \in {"queue", "hand", "running", "inject"} /\ l[2] \in Workers
    OBVIOUS
  <2>2. cur[l[2]] # NoTask => <<cur[l[2]]>> \in Seq(Tasks)
    BY <2>1 DEF HoldInv
  <2> QED BY SMTT(40), <2>1, <2>2 DEF Line, HoldInv
<1>4. \A w \in Workers : /\ standing[<<"queue", w>>] = queue[w] /\ standing[<<"hand", w>>] = hand[w]
                         /\ (cur[w] = NoTask => standing[<<"running", w>>] = <<>>)
                         /\ (cur[w] # NoTask => standing[<<"running", w>>] = <<cur[w]>>)
  BY ZenonT(60), <1>1 DEF standing, Line
<1>5. standing[<<"inject", 0>>] = inject /\ \A w \in Workers : standing[<<"inject", w>>] = (IF w = 0 THEN inject ELSE <<>>)
  BY ZenonT(60), <1>1, <1>2 DEF standing, Line
<1> QED BY ZenonT(60), <1>1, <1>2, <1>3, <1>4, <1>5 DEF standing

\* How the lines after a step are recognised.
LEMMA LinesAre ==
    ASSUME NEW g \in [Places -> Seq(Tasks)],
           \A w \in Workers : g[<<"queue", w>>] = queue'[w] /\ g[<<"hand", w>>] = hand'[w]
                              /\ g[<<"running", w>>] = (IF cur'[w] = NoTask THEN <<>> ELSE <<cur'[w]>>)
                              /\ g[<<"inject", w>>] = (IF w = 0 THEN inject' ELSE <<>>)
    PROVE  standing' = g
<1>1. ASSUME NEW l \in Places PROVE Line(l)' = g[l]
  <2>1. PICK k \in {"queue", "hand", "running", "inject"}, w \in Workers : l = <<k, w>>
    BY DEF Places
  <2> QED BY ZenonT(60), <2>1 DEF Line
<1>2. standing' = [l \in Places |-> Line(l)']
  BY ZenonT(60) DEF standing, Places, Workers
<1> QED BY ZenonT(60), <1>1, <1>2

\* A step after which every task is where it was,
LEMMA QuietStep ==
    ASSUME HoldInv, OnceInv, UNCHANGED queues,
           \A w \in Workers : (Busy(w)' <=> Busy(w)) /\ (pc[w] = "extend" => pc'[w] = "extend")
    PROVE  HoldInv' /\ OnceInv'
<1>1. UNCHANGED <<queue, inject, asleep, finished, cur, hand>>
  BY ZenonT(60) DEF queues
<1>2. HoldInv'
  BY ZenonT(60), <1>1 DEF HoldInv
<1>3. standing' = standing
  BY ZenonT(60), <1>1 DEF standing, Line, Places, Workers
<1> QED BY ZenonT(60), <1>1, <1>2, <1>3 DEF OnceInv

\* that of a thread that goes somewhere else without a task,
LEMMA QuietGoto ==
    ASSUME StepInv, HoldInv, OnceInv, UNCHANGED queues, NEW x \in Procs, NEW s \in Steps, Goto(x, s), pc[x] \notin {"run", "extend"},
           UNCHANGED back, (s \in {"notify", "load", "clear", "count", "mark", "wake", "start", "fill", "unstarted"}) <=> Notifying(x),
           s # "run"
    PROVE  HoldInv' /\ OnceInv'
<1>1. pc' \in [Procs -> Steps] /\ pc'[x] = s /\ \A y \in Procs : y # x => pc'[y] = pc[y]
  BY ZenonT(60) DEF StepInv, Goto
<1>2. Workers \subseteq Procs
  BY ZenonT(60) DEF Procs
<1>3. \A w \in Workers : (Busy(w)' <=> Busy(w)) /\ (pc[w] = "extend" => pc'[w] = "extend")
  BY ZenonT(60), <1>1, <1>2 DEF Busy, Notifying
<1> QED BY ZenonT(60), <1>3, QuietStep

\* and that of a thread that leaves notify_idle.
LEMMA QuietReturn ==
    ASSUME StepInv, HoldInv, OnceInv, UNCHANGED queues, NEW x \in Procs, Return(x), Notifying(x)
    PROVE  HoldInv' /\ OnceInv'
<1>1. /\ pc'[x] = back[x] /\ \A y \in Procs : y # x => pc'[y] = pc[y] /\ back'[y] = back[y]
      /\ back[x] \in Returns /\ back'[x] = "idle"
  BY ZenonT(60) DEF StepInv, Return, Goto
<1>2. Workers \subseteq Procs
  BY ZenonT(60) DEF Procs
<1>3. \A w \in Workers : (Busy(w)' <=> Busy(w)) /\ (pc[w] = "extend" => pc'[w] = "extend")
  BY ZenonT(60), <1>1, <1>2 DEF Busy, Notifying, Returns
<1> QED BY ZenonT(60), <1>3, QuietStep

\* A worker takes the task at the head of its queue.
LEMMA PopKeeps ==
    ASSUME StepInv, HoldInv, OnceInv, NEW w \in Workers, Pop(w)
    PROVE  HoldInv' /\ OnceInv'
<1> USE WorkersAssumption
<1>1. CASE queue[w] = <<>>
  BY ZenonT(60), <1>1, QuietGoto DEF Pop, queues, Steps, Notifying, Procs
<1>2. CASE queue[w] # <<>>
  <2> DEFINE h == Head(queue[w])
             q == Tail(queue[w])
             a == <<"queue", w>>
             b == <<"running", w>>
             g == [standing EXCEPT ![a] = q, ![b] = standing[b] \o <<h>>]
  <2>1. /\ pc[w] = "loop" /\ cur' = [cur EXCEPT ![w] = h] /\ queue' = [queue EXCEPT ![w] = q] /\ Goto(w, "run")
        /\ UNCHANGED <<inject, asleep, finished, hand, back>>
    BY ZenonT(60), <1>2 DEF Pop
  <2>2. queue[w] \in Seq(Tasks) /\ h \in Tasks /\ q \in Seq(Tasks) /\ queue[w] = <<h>> \o q /\ <<h>> \in Seq(Tasks) /\ h # NoTask
    BY <1>2 DEF HoldInv
  <2>3. cur[w] = NoTask
    BY ZenonT(60), <2>1 DEF HoldInv, Busy, Notifying
  <2>4. a \in Places /\ b \in Places /\ a # b /\ standing[a] = queue[w] /\ standing[b] = <<>>
    BY ZenonT(60), <2>3, LinesOf
  <2> HIDE DEF h, q
  <2>5. Spread(Places, g, asleep \cup finished)
    <3>1. standing[a] = <<h>> \o q
      BY ZenonT(60), <2>2, <2>4
    <3> QED BY ZenonT(60), <2>2, <2>4, <3>1, Moves DEF OnceInv
  <2>6. g \in [Places -> Seq(Tasks)]
    BY ZenonT(60), <2>5 DEF Spread
  <2>7. g = [standing EXCEPT ![a] = q, ![b] = <<h>>]
    <3>1. <<>> \o <<h>> = <<h>>
      OBVIOUS
    <3> QED BY ZenonT(60), <2>4, <3>1
  <2> HIDE DEF g
  <2>8. ASSUME NEW v \in Workers
        PROVE  /\ g[<<"queue", v>>] = queue'[v] /\ g[<<"hand", v>>] = hand'[v]
               /\ g[<<"running", v>>] = (IF cur'[v] = NoTask THEN <<>> ELSE <<cur'[v]>>)
               /\ g[<<"inject", v>>] = (IF v = 0 THEN inject' ELSE <<>>)
    <3>1. /\ g[<<"hand", v>>] = standing[<<"hand", v>>] /\ g[<<"inject", v>>] = standing[<<"inject", v>>]
          /\ g[<<"queue", v>>] = (IF v = w THEN q ELSE standing[<<"queue", v>>])
          /\ g[<<"running", v>>] = (IF v = w THEN <<h>> ELSE standing[<<"running", v>>])
      BY ZenonT(60), <2>7, LinesOf
    <3> QED BY ZenonT(60), <2>1, <2>2, <3>1, LinesOf DEF HoldInv
  <2>9. standing' = g
    BY ZenonT(60), <2>6, <2>8, LinesAre
  <2>10. pc'[w] = "run" /\ \A v \in Workers : v # w => pc'[v] = pc[v]
    BY ZenonT(60), <2>1 DEF StepInv, Goto, Procs
  <2>11. HoldInv'
    BY ZenonT(60), <2>1, <2>2, <2>3, <2>10 DEF HoldInv, Busy, Notifying
  <2> QED BY ZenonT(60), <2>1, <2>5, <2>9, <2>11 DEF OnceInv
<1> QED BY ZenonT(60), <1>1, <1>2

\* A worker takes the task at the head of INJECT.
LEMMA TakeInjectedKeeps ==
    ASSUME StepInv, HoldInv, OnceInv, NEW w \in Workers, TakeInjected(w)
    PROVE  HoldInv' /\ OnceInv'
<1> USE WorkersAssumption
<1>1. CASE inject = <<>>
  BY ZenonT(60), <1>1, QuietGoto DEF TakeInjected, queues, Steps, Notifying, Procs
<1>2. CASE inject # <<>>
  <2> DEFINE h == Head(inject)
             q == Tail(inject)
             a == <<"inject", 0>>
             b == <<"queue", w>>
             g == [standing EXCEPT ![a] = q, ![b] = standing[b] \o <<h>>]
  <2>1. /\ pc[w] \in {"tickevents", "inject"} /\ inject' = q /\ queue' = [queue EXCEPT ![w] = Append(queue[w], h)]
        /\ Goto(w, "loop") /\ UNCHANGED <<asleep, finished, cur, hand, back>>
    BY ZenonT(60), <1>2 DEF TakeInjected
  <2>2. inject \in Seq(Tasks) /\ h \in Tasks /\ q \in Seq(Tasks) /\ inject = <<h>> \o q /\ <<h>> \in Seq(Tasks)
    BY <1>2 DEF HoldInv
  <2>3. a \in Places /\ b \in Places /\ a # b /\ standing[a] = inject /\ standing[b] = queue[w] /\ queue[w] \in Seq(Tasks)
    BY ZenonT(60), LinesOf DEF HoldInv
  <2> HIDE DEF h, q
  <2>4. Spread(Places, g, asleep \cup finished)
    <3>1. standing[a] = <<h>> \o q
      BY ZenonT(60), <2>2, <2>3
    <3> QED BY ZenonT(60), <2>2, <2>3, <3>1, Moves DEF OnceInv
  <2>5. g \in [Places -> Seq(Tasks)]
    BY ZenonT(60), <2>4 DEF Spread
  <2>6. g = [standing EXCEPT ![a] = q, ![b] = Append(queue[w], h)]
    <3>1. queue[w] \o <<h>> = Append(queue[w], h)
      BY <2>2, <2>3
    <3> QED BY ZenonT(60), <2>3, <3>1
  <2> HIDE DEF g
  <2>7. ASSUME NEW v \in Workers
        PROVE  /\ g[<<"queue", v>>] = queue'[v] /\ g[<<"hand", v>>] = hand'[v]
               /\ g[<<"running", v>>] = (IF cur'[v] = NoTask THEN <<>> ELSE <<cur'[v]>>)
               /\ g[<<"inject", v>>] = (IF v = 0 THEN inject' ELSE <<>>)
    <3>1. /\ g[<<"hand", v>>] = standing[<<"hand", v>>] /\ g[<<"running", v>>] = standing[<<"running", v>>]
          /\ g[<<"queue", v>>] = (IF v = w THEN Append(queue[w], h) ELSE standing[<<"queue", v>>])
          /\ g[<<"inject", v>>] = (IF v = 0 THEN q ELSE standing[<<"inject", v>>])
      BY ZenonT(60), <2>6, LinesOf
    <3> QED BY ZenonT(60), <2>1, <3>1, LinesOf DEF HoldInv
  <2>8. standing' = g
    BY ZenonT(60), <2>5, <2>7, LinesAre
  <2>9. pc'[w] = "loop" /\ \A v \in Workers : v # w => pc'[v] = pc[v]
    BY ZenonT(60), <2>1 DEF StepInv, Goto, Procs
  <2>10. queue' \in [Workers -> Seq(Tasks)]
    BY SMTT(40), <2>1, <2>2, <2>3 DEF HoldInv
  <2>11. HoldInv'
    BY ZenonT(60), <2>1, <2>2, <2>9, <2>10 DEF HoldInv, Busy, Notifying
  <2> QED BY ZenonT(60), <2>1, <2>4, <2>8, <2>11 DEF OnceInv
<1> QED BY ZenonT(60), <1>1, <1>2

\* A thief takes the front of a queue,
LEMMA StealKeeps ==
    ASSUME StepInv, HoldInv, OnceInv, NEW w \in Workers, Steal(w)
    PROVE  HoldInv' /\ OnceInv'
<1> USE WorkersAssumption
<1> DEFINE v == Victim(w)
<1>1. CASE ~(v \in slots /\ v # w /\ queue[v] # <<>>)
  BY ZenonT(60), <1>1, QuietStep DEF Steal, queues, Busy, Notifying
<1>2. CASE v \in slots /\ v # w /\ queue[v] # <<>>
  <2> DEFINE n == Takes(Len(queue[v]))
             p == SubSeq(queue[v], 1, n)
             q == SubSeq(queue[v], n + 1, Len(queue[v]))
             a == <<"queue", v>>
             b == <<"hand", w>>
             g == [standing EXCEPT ![a] = q, ![b] = standing[b] \o p]
  <2>1. v \in Workers
    BY ZenonT(60), <1>2 DEF StepInv
  <2>2. /\ pc[w] = "steal" /\ hand' = [hand EXCEPT ![w] = p] /\ queue' = [queue EXCEPT ![v] = q] /\ Goto(w, "extend")
        /\ UNCHANGED <<inject, asleep, finished, cur, back>>
    BY ZenonT(60), <1>2, <2>1 DEF Steal, HoldInv
  <2>3. queue[v] \in Seq(Tasks) /\ n \in 0..Len(queue[v])
    BY SMTT(40), <1>2, <2>1 DEF HoldInv, Takes
  <2> HIDE DEF v, n
  <2>4. p \in Seq(Tasks) /\ q \in Seq(Tasks) /\ queue[v] = p \o q
    <3>1. p \in Seq(Tasks) /\ q \in Seq(Tasks)
      BY <2>3
    <3> QED BY ZenonT(60), <2>3, <3>1, PrefixAndSuffix
  <2> HIDE DEF p, q
  <2>5. hand[w] = <<>>
    BY ZenonT(60), <2>2 DEF HoldInv
  <2>6. a \in Places /\ b \in Places /\ a # b /\ standing[a] = queue[v] /\ standing[b] = <<>>
    BY ZenonT(60), <2>1, <2>5, LinesOf
  <2>7. Spread(Places, g, asleep \cup finished)
    <3>1. standing[a] = p \o q
      BY ZenonT(60), <2>4, <2>6
    <3> QED BY ZenonT(60), <2>4, <2>6, <3>1, Moves DEF OnceInv
  <2>8. g \in [Places -> Seq(Tasks)]
    BY ZenonT(60), <2>7 DEF Spread
  <2>9. g = [standing EXCEPT ![a] = q, ![b] = p]
    <3>1. <<>> \o p = p
      BY <2>4
    <3> QED BY ZenonT(60), <2>6, <3>1
  <2> HIDE DEF g
  <2>10. ASSUME NEW u \in Workers
         PROVE  /\ g[<<"queue", u>>] = queue'[u] /\ g[<<"hand", u>>] = hand'[u]
                /\ g[<<"running", u>>] = (IF cur'[u] = NoTask THEN <<>> ELSE <<cur'[u]>>)
                /\ g[<<"inject", u>>] = (IF u = 0 THEN inject' ELSE <<>>)
    <3>1. /\ g[<<"running", u>>] = standing[<<"running", u>>] /\ g[<<"inject", u>>] = standing[<<"inject", u>>]
          /\ g[<<"queue", u>>] = (IF u = v THEN q ELSE standing[<<"queue", u>>])
          /\ g[<<"hand", u>>] = (IF u = w THEN p ELSE standing[<<"hand", u>>])
      BY ZenonT(60), <2>9, LinesOf
    <3> QED BY ZenonT(60), <2>1, <2>2, <3>1, LinesOf DEF HoldInv
  <2>11. standing' = g
    BY ZenonT(60), <2>8, <2>10, LinesAre
  <2>12. pc'[w] = "extend" /\ \A u \in Workers : u # w => pc'[u] = pc[u]
    BY ZenonT(60), <2>2 DEF StepInv, Goto, Procs
  <2>13. HoldInv'
    BY ZenonT(60), <2>1, <2>2, <2>4, <2>12 DEF HoldInv, Busy, Notifying
  <2> QED BY ZenonT(60), <2>2, <2>7, <2>11, <2>13 DEF OnceInv
<1> QED BY ZenonT(60), <1>1, <1>2

\* and puts it behind its own.
LEMMA ExtendKeeps ==
    ASSUME StepInv, HoldInv, OnceInv, NEW w \in Workers, Extend(w)
    PROVE  HoldInv' /\ OnceInv'
<1> USE WorkersAssumption
<1> DEFINE p == hand[w]
           a == <<"hand", w>>
           b == <<"queue", w>>
           g == [standing EXCEPT ![a] = <<>>, ![b] = standing[b] \o p]
<1>1. /\ pc[w] = "extend" /\ hand' = [hand EXCEPT ![w] = <<>>] /\ queue' = [queue EXCEPT ![w] = queue[w] \o p]
      /\ Goto(w, "looked") /\ UNCHANGED <<inject, asleep, finished, cur, back>>
  BY ZenonT(60) DEF Extend
<1>2. p \in Seq(Tasks) /\ queue[w] \in Seq(Tasks) /\ queue[w] \o p \in Seq(Tasks) /\ p = p \o <<>> /\ <<>> \in Seq(Tasks)
  BY DEF HoldInv
<1>3. a \in Places /\ b \in Places /\ a # b /\ standing[a] = p /\ standing[b] = queue[w]
  BY ZenonT(60), LinesOf
<1> HIDE DEF p
<1>4. Spread(Places, g, asleep \cup finished)
  <2>1. standing[a] = p \o <<>>
    BY ZenonT(60), <1>2, <1>3
  <2> QED BY ZenonT(60), <1>2, <1>3, <2>1, Moves DEF OnceInv
<1>5. g \in [Places -> Seq(Tasks)]
  BY ZenonT(60), <1>4 DEF Spread
<1>6. g = [standing EXCEPT ![a] = <<>>, ![b] = queue[w] \o p]
  BY ZenonT(60), <1>3
<1> HIDE DEF g
<1>7. ASSUME NEW u \in Workers
      PROVE  /\ g[<<"queue", u>>] = queue'[u] /\ g[<<"hand", u>>] = hand'[u]
             /\ g[<<"running", u>>] = (IF cur'[u] = NoTask THEN <<>> ELSE <<cur'[u]>>)
             /\ g[<<"inject", u>>] = (IF u = 0 THEN inject' ELSE <<>>)
  <2>1. /\ g[<<"running", u>>] = standing[<<"running", u>>] /\ g[<<"inject", u>>] = standing[<<"inject", u>>]
        /\ g[<<"queue", u>>] = (IF u = w THEN queue[w] \o p ELSE standing[<<"queue", u>>])
        /\ g[<<"hand", u>>] = (IF u = w THEN <<>> ELSE standing[<<"hand", u>>])
    BY ZenonT(60), <1>6, LinesOf
  <2> QED BY ZenonT(60), <1>1, <2>1, LinesOf DEF HoldInv
<1>8. standing' = g
  BY ZenonT(60), <1>5, <1>7, LinesAre
<1>9. pc'[w] = "looked" /\ \A u \in Workers : u # w => pc'[u] = pc[u]
  BY ZenonT(60), <1>1 DEF StepInv, Goto, Procs
<1>10. HoldInv'
  BY ZenonT(60), <1>1, <1>2, <1>9 DEF HoldInv, Busy, Notifying
<1> QED BY ZenonT(60), <1>1, <1>4, <1>8, <1>10 DEF OnceInv

\* A worker queues a task it wakes.
LEMMA PushOwnKeeps ==
    ASSUME StepInv, HoldInv, OnceInv, NEW w \in Workers, NEW t \in asleep, PushOwn(w, t), asleep' = asleep \ {t},
           pc[w] \in {"run", "tickevents", "events", "timers"}, UNCHANGED <<inject, finished, cur, hand>>
    PROVE  HoldInv' /\ OnceInv'
<1> USE WorkersAssumption
<1> DEFINE b == <<"queue", w>>
           g == [standing EXCEPT ![b] = Append(standing[b], t)]
<1>1. queue' = [queue EXCEPT ![w] = Append(queue[w], t)] /\ t \in Tasks /\ t \in asleep \cup finished
  BY ZenonT(60) DEF PushOwn, HoldInv
<1>2. b \in Places /\ standing[b] = queue[w] /\ queue[w] \in Seq(Tasks)
  BY ZenonT(60), LinesOf DEF HoldInv
<1>3. Spread(Places, g, (asleep \cup finished) \ {t}) /\ t \notin finished
  BY ZenonT(60), <1>1, <1>2, Enters DEF OnceInv
<1>4. g \in [Places -> Seq(Tasks)]
  BY ZenonT(60), <1>3 DEF Spread
<1>5. g = [standing EXCEPT ![b] = Append(queue[w], t)]
  BY ZenonT(60), <1>2
<1> HIDE DEF g
<1>6. ASSUME NEW u \in Workers
      PROVE  /\ g[<<"queue", u>>] = queue'[u] /\ g[<<"hand", u>>] = hand'[u]
             /\ g[<<"running", u>>] = (IF cur'[u] = NoTask THEN <<>> ELSE <<cur'[u]>>)
             /\ g[<<"inject", u>>] = (IF u = 0 THEN inject' ELSE <<>>)
  <2>1. /\ g[<<"running", u>>] = standing[<<"running", u>>] /\ g[<<"inject", u>>] = standing[<<"inject", u>>]
        /\ g[<<"queue", u>>] = (IF u = w THEN Append(queue[w], t) ELSE standing[<<"queue", u>>])
        /\ g[<<"hand", u>>] = standing[<<"hand", u>>]
    BY ZenonT(60), <1>5, LinesOf
  <2> QED BY ZenonT(60), <1>1, <2>1, LinesOf DEF HoldInv
<1>7. standing' = g
  BY ZenonT(60), <1>4, <1>6, LinesAre
<1>8. (asleep \cup finished) \ {t} = asleep' \cup finished'
  BY ZenonT(60), <1>3
<1>9. queue' \in [Workers -> Seq(Tasks)]
  BY <1>1, <1>2 DEF HoldInv
<1>10. \A u \in Workers : (Busy(u)' <=> Busy(u)) /\ (pc[u] = "extend" => pc'[u] = "extend")
  <2>1. CASE UNCHANGED <<pc, back>>
    BY ZenonT(60), <2>1 DEF Busy, Notifying
  <2>2. CASE Goto(w, "notify") /\ back' = [back EXCEPT ![w] = pc[w]]
    <3>1. /\ pc'[w] = "notify" /\ back'[w] = pc[w]
          /\ \A u \in Workers : u # w => pc'[u] = pc[u] /\ back'[u] = back[u]
      BY ZenonT(60), <2>2 DEF Goto, StepInv, Procs
    <3> QED BY ZenonT(60), <3>1 DEF Busy, Notifying
  <2> QED BY ZenonT(60), <2>1, <2>2 DEF PushOwn
<1>11. HoldInv'
  BY ZenonT(60), <1>9, <1>10 DEF HoldInv
<1> QED BY ZenonT(60), <1>3, <1>7, <1>8, <1>11 DEF OnceInv

\* A thread queues a task it wakes.
LEMMA PushInjectKeeps ==
    ASSUME StepInv, HoldInv, OnceInv, NEW p \in Threads, NEW t \in Tasks, PushInject(p, t)
    PROVE  HoldInv' /\ OnceInv'
<1> USE WorkersAssumption
<1> DEFINE b == <<"inject", 0>>
           g == [standing EXCEPT ![b] = Append(standing[b], t)]
<1>1. /\ inject' = Append(inject, t) /\ t \in asleep /\ t \in asleep \cup finished /\ asleep' = asleep \ {t}
      /\ UNCHANGED <<queue, finished, cur, hand, back>> /\ Goto(p, "notify")
  BY ZenonT(60) DEF PushInject, HoldInv
<1>2. b \in Places /\ standing[b] = inject /\ inject \in Seq(Tasks)
  BY ZenonT(60), LinesOf DEF HoldInv
<1>3. Spread(Places, g, (asleep \cup finished) \ {t}) /\ t \notin finished
  BY ZenonT(60), <1>1, <1>2, Enters DEF OnceInv
<1>4. g \in [Places -> Seq(Tasks)]
  BY ZenonT(60), <1>3 DEF Spread
<1>5. g = [standing EXCEPT ![b] = Append(inject, t)]
  BY ZenonT(60), <1>2
<1> HIDE DEF g
<1>6. ASSUME NEW u \in Workers
      PROVE  /\ g[<<"queue", u>>] = queue'[u] /\ g[<<"hand", u>>] = hand'[u]
             /\ g[<<"running", u>>] = (IF cur'[u] = NoTask THEN <<>> ELSE <<cur'[u]>>)
             /\ g[<<"inject", u>>] = (IF u = 0 THEN inject' ELSE <<>>)
  <2>1. /\ g[<<"running", u>>] = standing[<<"running", u>>] /\ g[<<"queue", u>>] = standing[<<"queue", u>>]
        /\ g[<<"inject", u>>] = (IF u = 0 THEN Append(inject, t) ELSE standing[<<"inject", u>>])
        /\ g[<<"hand", u>>] = standing[<<"hand", u>>]
    BY ZenonT(60), <1>5, LinesOf
  <2> QED BY ZenonT(60), <1>1, <2>1, LinesOf DEF HoldInv
<1>7. standing' = g
  BY ZenonT(60), <1>4, <1>6, LinesAre
<1>8. (asleep \cup finished) \ {t} = asleep' \cup finished'
  BY ZenonT(60), <1>1, <1>3
<1>9. inject' \in Seq(Tasks)
  BY <1>1, <1>2
<1>10. \A u \in Workers : (Busy(u)' <=> Busy(u)) /\ (pc[u] = "extend" => pc'[u] = "extend")
  <2>1. \A u \in Workers : pc'[u] = pc[u] /\ back'[u] = back[u]
    BY <1>1 DEF Goto, StepInv, Procs
  <2> QED BY ZenonT(60), <2>1 DEF Busy, Notifying
<1>11. HoldInv'
  BY ZenonT(60), <1>1, <1>9, <1>10 DEF HoldInv
<1> QED BY ZenonT(60), <1>1, <1>3, <1>7, <1>8, <1>11 DEF OnceInv

\* A task yields.
LEMMA RunYieldsKeeps ==
    ASSUME StepInv, HoldInv, OnceInv, NEW w \in Workers, RunYields(w)
    PROVE  HoldInv' /\ OnceInv'
<1> USE WorkersAssumption
<1> DEFINE t == cur[w]
           a == <<"running", w>>
           b == <<"queue", w>>
           g == [standing EXCEPT ![a] = <<>>, ![b] = standing[b] \o <<t>>]
<1>1. /\ pc[w] = "run" /\ cur' = [cur EXCEPT ![w] = NoTask] /\ queue' = [queue EXCEPT ![w] = Append(queue[w], t)]
      /\ Goto(w, NextPlace(w)) /\ UNCHANGED <<inject, asleep, finished, hand, back>>
  BY ZenonT(60) DEF RunYields, Ran
<1>2. t # NoTask /\ t \in Tasks
  BY ZenonT(60), <1>1 DEF HoldInv, Busy
<1>3. a \in Places /\ b \in Places /\ a # b /\ standing[a] = <<t>> /\ standing[b] = queue[w] /\ queue[w] \in Seq(Tasks)
  BY ZenonT(60), <1>2, LinesOf DEF HoldInv
<1> HIDE DEF t
<1>4. Spread(Places, g, asleep \cup finished)
  <2>1. <<t>> \in Seq(Tasks) /\ <<>> \in Seq(Tasks) /\ <<t>> = <<t>> \o <<>>
    BY <1>2
  <2>2. standing[a] = <<t>> \o <<>>
    BY ZenonT(60), <1>3, <2>1
  <2> QED BY ZenonT(60), <1>3, <2>1, <2>2, Moves DEF OnceInv
<1>5. g \in [Places -> Seq(Tasks)]
  BY ZenonT(60), <1>4 DEF Spread
<1>6. g = [standing EXCEPT ![a] = <<>>, ![b] = Append(queue[w], t)]
  <2>1. queue[w] \o <<t>> = Append(queue[w], t)
    BY <1>2, <1>3
  <2> QED BY ZenonT(60), <1>3, <2>1
<1> HIDE DEF g
<1>7. ASSUME NEW u \in Workers
      PROVE  /\ g[<<"queue", u>>] = queue'[u] /\ g[<<"hand", u>>] = hand'[u]
             /\ g[<<"running", u>>] = (IF cur'[u] = NoTask THEN <<>> ELSE <<cur'[u]>>)
             /\ g[<<"inject", u>>] = (IF u = 0 THEN inject' ELSE <<>>)
  <2>1. /\ g[<<"hand", u>>] = standing[<<"hand", u>>] /\ g[<<"inject", u>>] = standing[<<"inject", u>>]
        /\ g[<<"queue", u>>] = (IF u = w THEN Append(queue[w], t) ELSE standing[<<"queue", u>>])
        /\ g[<<"running", u>>] = (IF u = w THEN <<>> ELSE standing[<<"running", u>>])
    BY ZenonT(60), <1>6, LinesOf
  <2> QED BY ZenonT(60), <1>1, <2>1, LinesOf DEF HoldInv
<1>8. standing' = g
  BY ZenonT(60), <1>5, <1>7, LinesAre
<1>9. pc'[w] \in {"tick", "loop"} /\ \A u \in Workers : u # w => pc'[u] = pc[u]
  BY ZenonT(60), <1>1 DEF StepInv, Goto, Procs, NextPlace
<1>10. queue' \in [Workers -> Seq(Tasks)]
  BY SMTT(40), <1>1, <1>2, <1>3 DEF HoldInv
<1>11. HoldInv'
  BY ZenonT(60), <1>1, <1>9, <1>10 DEF HoldInv, Busy, Notifying
<1> QED BY ZenonT(60), <1>1, <1>4, <1>8, <1>11 DEF OnceInv

\* A task waits or returns.
LEMMA TaskLeaves ==
    ASSUME StepInv, HoldInv, OnceInv, NEW w \in Workers, RunWaits(w) \/ RunReturns(w)
    PROVE  HoldInv' /\ OnceInv'
<1> USE WorkersAssumption
<1> DEFINE t == cur[w]
           a == <<"running", w>>
           g == [standing EXCEPT ![a] = <<>>]
<1>1. /\ pc[w] = "run" /\ cur' = [cur EXCEPT ![w] = NoTask] /\ (\E s \in {"tick", "loop", "wakemain"} : Goto(w, s))
      /\ \/ asleep' = asleep \cup {t} /\ UNCHANGED finished
         \/ finished' = finished \cup {t} /\ UNCHANGED asleep
      /\ UNCHANGED <<inject, queue, hand, back>>
  BY ZenonT(60) DEF RunWaits, RunReturns, Ran, NextPlace
<1>2. t # NoTask /\ t \in Tasks
  BY ZenonT(60), <1>1 DEF HoldInv, Busy
<1>3. a \in Places /\ standing[a] = <<t>>
  BY ZenonT(60), <1>2, LinesOf DEF HoldInv
<1> HIDE DEF t
<1>4. Spread(Places, g, (asleep \cup finished) \cup {t}) /\ t \notin asleep \cup finished
  BY SMTT(40), <1>2, <1>3, Leaves DEF OnceInv
<1>5. g \in [Places -> Seq(Tasks)]
  BY ZenonT(60), <1>4 DEF Spread
<1>6. ASSUME NEW u \in Workers
      PROVE  /\ g[<<"queue", u>>] = queue'[u] /\ g[<<"hand", u>>] = hand'[u]
             /\ g[<<"running", u>>] = (IF cur'[u] = NoTask THEN <<>> ELSE <<cur'[u]>>)
             /\ g[<<"inject", u>>] = (IF u = 0 THEN inject' ELSE <<>>)
  <2>1. /\ g[<<"hand", u>>] = standing[<<"hand", u>>] /\ g[<<"inject", u>>] = standing[<<"inject", u>>]
        /\ g[<<"queue", u>>] = standing[<<"queue", u>>]
        /\ g[<<"running", u>>] = (IF u = w THEN <<>> ELSE standing[<<"running", u>>])
    BY ZenonT(60), <1>3, LinesOf
  <2> QED BY ZenonT(60), <1>1, <2>1, LinesOf DEF HoldInv
<1> HIDE DEF g
<1>7. standing' = g
  BY ZenonT(60), <1>5, <1>6, LinesAre
<1>8. (asleep \cup finished) \cup {t} = asleep' \cup finished' /\ asleep' \cap finished' = {}
  BY ZenonT(60), <1>1, <1>4 DEF OnceInv
<1>9. pc'[w] \in {"tick", "loop", "wakemain"} /\ \A u \in Workers : u # w => pc'[u] = pc[u]
  BY <1>1 DEF StepInv, Goto, Procs
<1>10. HoldInv'
  BY ZenonT(60), <1>1, <1>2, <1>9 DEF HoldInv, Busy, Notifying
<1> QED BY ZenonT(60), <1>4, <1>7, <1>8, <1>10 DEF OnceInv

\* HoldInv and OnceInv hold at the start.
LEMMA OnceStart == Init => HoldInv /\ OnceInv
<1> SUFFICES ASSUME Init PROVE HoldInv /\ OnceInv
  OBVIOUS
<1> USE WorkersAssumption
<1>1. 0 \in Workers /\ <<MainTask>> \in Seq(Tasks) /\ Workers \subseteq Procs
  BY DEF Workers, Procs
<1>2. HoldInv
  <2>1. \A w \in Workers : ~Busy(w)
    BY ZenonT(60), <1>1 DEF Init, Busy, Notifying
  <2> QED BY <1>1, <2>1 DEF Init, HoldInv
<1>3. standing \in [Places -> Seq(Tasks)] /\ <<"queue", 0>> \in Places /\ standing[<<"queue", 0>>] = <<MainTask>>
  BY ZenonT(60), <1>1, <1>2, LinesOf DEF Init
<1>4. ASSUME NEW l \in Places, l # <<"queue", 0>> PROVE standing[l] = <<>>
  <2>1. PICK k \in {"queue", "hand", "running", "inject"}, w \in Workers : l = <<k, w>>
    BY DEF Places
  <2>2. standing[l] = Line(l)
    BY ZenonT(60) DEF standing
  <2> QED BY ZenonT(60), <1>4, <2>1, <2>2 DEF Line, Init
<1>5. /\ Len(standing[<<"queue", 0>>]) = 1 /\ standing[<<"queue", 0>>][1] = MainTask
      /\ \A l \in Places : l # <<"queue", 0>> => Len(standing[l]) = 0
  BY SMTT(40), <1>3, <1>4
<1>6. ASSUME NEW l \in Places, NEW i \in 1..Len(standing[l]) PROVE l = <<"queue", 0>> /\ i = 1
  <2>1. CASE l = <<"queue", 0>>
    <3>1. i \in 1..1
      BY <1>5, <2>1, ZenonT(60)
    <3> QED BY <2>1, <3>1
  <2>2. CASE l # <<"queue", 0>>
    <3>1. i \in 1..0
      BY ZenonT(60), <1>5, <2>2
    <3> QED BY <3>1
  <2> QED BY ZenonT(60), <2>1, <2>2
<1>7. asleep \cup finished = Tasks \ {MainTask} /\ asleep \cap finished = {}
  BY ZenonT(60) DEF Init
<1>8. \A t \in Tasks : (\E l \in Places : \E i \in 1..Len(standing[l]) : standing[l][i] = t) <=> t = MainTask
  BY SMTT(40), <1>3, <1>5, <1>6
<1>9. Spread(Places, standing, asleep \cup finished)
  BY SMTT(40), <1>3, <1>6, <1>7, <1>8 DEF Spread
<1> QED BY ZenonT(60), <1>2, <1>7, <1>9 DEF OnceInv

\* Every step keeps them.
LEMMA OnceStep == StepInv /\ HoldInv /\ OnceInv /\ [Next]_vars => HoldInv' /\ OnceInv'
<1> SUFFICES ASSUME StepInv, HoldInv, OnceInv, [Next]_vars PROVE HoldInv' /\ OnceInv'
  OBVIOUS
<1>1. Workers \subseteq Procs
  BY ZenonT(60) DEF Procs
<1>2. CASE UNCHANGED vars
  <2>1. UNCHANGED queues /\ UNCHANGED <<pc, back>>
    BY ZenonT(60), <1>2 DEF vars
  <2> QED BY ZenonT(60), <2>1, QuietStep DEF Busy, Notifying
<1>3. ASSUME NEW x \in Procs, NotifyStep(x) PROVE HoldInv' /\ OnceInv'
  <2>1. CASE StartWorker(x) /\ pc' = [pc EXCEPT ![x] = "fill", ![aim[x]] = "begin"]
    <3>1. /\ pc[x] = "start" /\ starting = {} /\ aim[x] \notin slots /\ UNCHANGED queues /\ UNCHANGED back
      BY ZenonT(60), <2>1 DEF StartWorker
    <3>2. aim[x] \in Workers /\ pc[aim[x]] = "off"
      BY ZenonT(60), <3>1 DEF StepInv
    <3>3. pc'[x] = "fill" /\ pc'[aim[x]] = "begin" /\ \A y \in Procs : y # x /\ y # aim[x] => pc'[y] = pc[y]
      BY ZenonT(60), <1>1, <2>1, <3>1, <3>2 DEF StepInv
    <3>4. \A w \in Workers : (Busy(w)' <=> Busy(w)) /\ (pc[w] = "extend" => pc'[w] = "extend")
      BY ZenonT(60), <1>1, <3>1, <3>2, <3>3 DEF Busy, Notifying
    <3> QED BY ZenonT(60), <3>1, <3>4, QuietStep
  <2>2. CASE ~(StartWorker(x) /\ pc' = [pc EXCEPT ![x] = "fill", ![aim[x]] = "begin"])
    <3>1. /\ UNCHANGED queues /\ Notifying(x)
          /\ \/ Return(x)
             \/ UNCHANGED back /\ \E s \in {"load", "clear", "start", "count", "mark", "wake", "unstarted"} : Goto(x, s)
      BY ZenonT(60), <1>3, <2>2 DEF NotifyStep, NotifyLoadSearching, NotifyLoadSleeping, AimAtLowest, NotifyClearBit, NotifyCount, NotifyMark,
         NotifyWake, StartedAlready, StartWorker, FillSlot, StartFailed, Continue, Notifying
    <3>2. ASSUME NEW s \in {"load", "clear", "start", "count", "mark", "wake", "unstarted"}, Goto(x, s), UNCHANGED back
          PROVE  HoldInv' /\ OnceInv'
      BY SMTT(40), <3>1, <3>2, QuietGoto DEF Notifying, Steps
    <3> QED BY ZenonT(60), <3>1, <3>2, QuietReturn
  <2> QED BY ZenonT(60), <2>1, <2>2
<1>4. ASSUME NEW w \in Workers, Exit(w) \/ WakeMainWorker(w) \/ Answer(w) \/ Looked(w) \/ Announce(w) \/ Recheck(w) \/ Unpark(w) \/ Poll(w)
      PROVE  HoldInv' /\ OnceInv'
  <2>1. otherwise[w] \in {"loop", "park"}
    BY ZenonT(60) DEF StepInv
  <2>2. /\ UNCHANGED queues /\ UNCHANGED back /\ pc[w] \notin {"run", "extend"} /\ ~Notifying(w)
        /\ \E s \in {"exit", "tick", "loop", "park", "steal", "recheck", "poll", "blocked", "timers", "tickevents", "events"} : Goto(w, s)
    BY ZenonT(60), <1>4, <2>1 DEF Exit, WakeMainWorker, Answer, Otherwise, Looked, Announce, Recheck, Unpark, Poll, Notifying
  <2>3. PICK s \in {"exit", "tick", "loop", "park", "steal", "recheck", "poll", "blocked", "timers", "tickevents", "events"} : Goto(w, s)
    BY ZenonT(60), <2>2
  <2> QED BY ZenonT(60), <1>1, <2>2, <2>3, QuietGoto DEF Steps
<1>5. ASSUME NEW w \in Workers, NEW t \in Tasks, RunWakes(w, t) \/ Deliver(w, t) PROVE HoldInv' /\ OnceInv'
  BY ZenonT(60), <1>5, PushOwnKeeps DEF RunWakes, Deliver
<1> QED
  BY ZenonT(60), <1>2, <1>3, <1>4, <1>5, PopKeeps, TakeInjectedKeeps, StealKeeps, ExtendKeeps, PushInjectKeeps, RunYieldsKeeps, TaskLeaves
  DEF Next, WorkerStep, RunEnds

\* Stealing, sharing and injecting neither lose nor duplicate a task: each is in
\* one queue, one thief's hand, running on one worker, waiting, or done.
THEOREM TasksStayOnce == Spec => []EachTaskOnce
<1>1. ASSUME HoldInv, OnceInv PROVE EachTaskOnce
  <2>1. \A l \in Places : standing[l] = Line(l)
    BY ZenonT(60) DEF standing
  <2>2. \A t \in Tasks : InLine(t) <=> t \notin asleep \cup finished
    BY SMTT(40), <1>1, <2>1 DEF OnceInv, Spread, InLine
  <2>3. \A l \in Places : \A i \in 1 .. Len(Line(l)) :
            \A m \in Places : \A j \in 1 .. Len(Line(m)) : Line(l)[i] = Line(m)[j] => l = m /\ i = j
    BY <1>1, <2>1 DEF OnceInv, Spread
  <2> QED BY ZenonT(60), <1>1, <2>2, <2>3 DEF OnceInv, EachTaskOnce
<1> QED BY StepsStart, StepsStay, OnceStart, OnceStep, <1>1, PTL DEF Spec

-----------------------------------------------------------------------------
(* SEARCHING.                                                              *)

\* The threads that will take one off SEARCHING: workers that were notified,
Marked  == {w \in Workers : notified[w]}

\* workers that look for work,
Lookers == {w \in Workers : Looking(w)}

\* and threads that counted a worker in and have not told it yet, or could not
\* start it.
Counted == {x \in Procs : pc[x] \in {"mark", "unstarted"}}

\* SEARCHING covers all of them.
SearchInv ==
    /\ searching \in Nat /\ notified \in [Workers -> BOOLEAN]
    /\ searching >= Cardinality(Marked) + Cardinality(Lookers) + Cardinality(Counted)

\* There are finitely many.
LEMMA FiniteThreads ==
    /\ IsFiniteSet(Workers) /\ IsFiniteSet(Procs)
    /\ IsFiniteSet(Marked) /\ IsFiniteSet(Lookers) /\ IsFiniteSet(Counted)
    /\ Cardinality(Marked) \in Nat /\ Cardinality(Lookers) \in Nat /\ Cardinality(Counted) \in Nat
<1>1. IsFiniteSet(Workers)
  BY WorkersAssumption, FS_Interval DEF Workers
<1>2. IsFiniteSet(Procs)
  BY ZenonT(60), <1>1, WorkersAssumption, FS_Union DEF Procs
<1>3. IsFiniteSet(Marked) /\ IsFiniteSet(Lookers) /\ IsFiniteSet(Counted)
  BY ZenonT(60), <1>1, <1>2, FS_Subset DEF Marked, Lookers, Counted
<1> QED BY ZenonT(60), <1>1, <1>2, <1>3, FS_CardinalityType

\* How many elements a set has that gained or lost one.
LEMMA SetChanges ==
    ASSUME NEW S, IsFiniteSet(S), NEW T, NEW x
    PROVE  /\ T \subseteq S => Cardinality(T) \in Nat /\ Cardinality(T) <= Cardinality(S)
           /\ T \subseteq S \cup {x} => Cardinality(T) \in Nat /\ Cardinality(T) <= Cardinality(S) + 1
           /\ T \subseteq S \ {x} /\ x \in S => Cardinality(T) \in Nat /\ Cardinality(T) <= Cardinality(S) - 1
<1>1. Cardinality(S) \in Nat
  BY ZenonT(60), FS_CardinalityType
<1>2. T \subseteq S => Cardinality(T) \in Nat /\ Cardinality(T) <= Cardinality(S)
  BY ZenonT(60), FS_Subset, FS_CardinalityType
<1>3. ASSUME T \subseteq S \cup {x} PROVE Cardinality(T) \in Nat /\ Cardinality(T) <= Cardinality(S) + 1
  <2>1. IsFiniteSet(S \cup {x}) /\ Cardinality(S \cup {x}) <= Cardinality(S) + 1 /\ Cardinality(S \cup {x}) \in Nat
    BY SMTT(40), <1>1, FS_AddElement, FS_CardinalityType
  <2>2. Cardinality(T) \in Nat /\ Cardinality(T) <= Cardinality(S \cup {x})
    BY ZenonT(60), <1>3, <2>1, FS_Subset, FS_CardinalityType
  <2> QED BY SMTT(40), <1>1, <2>1, <2>2
<1>4. ASSUME T \subseteq S \ {x}, x \in S PROVE Cardinality(T) \in Nat /\ Cardinality(T) <= Cardinality(S) - 1
  <2>1. IsFiniteSet(S \ {x}) /\ Cardinality(S \ {x}) = Cardinality(S) - 1 /\ Cardinality(S \ {x}) \in Nat
    BY ZenonT(60), <1>1, <1>4, FS_RemoveElement, FS_CardinalityType
  <2>2. Cardinality(T) \in Nat /\ Cardinality(T) <= Cardinality(S \ {x})
    BY ZenonT(60), <1>4, <2>1, FS_Subset, FS_CardinalityType
  <2> QED BY ZenonT(60), <1>1, <2>1, <2>2
<1> QED BY ZenonT(60), <1>2, <1>3, <1>4

\* SearchInv holds at the start.
LEMMA SearchStart == Init => SearchInv
<1> SUFFICES ASSUME Init PROVE SearchInv
  OBVIOUS
<1>1. Marked = {} /\ Lookers = {} /\ Counted = {}
  BY ZenonT(60) DEF Init, Marked, Lookers, Counted, Looking, Procs
<1>2. searching = 0 /\ notified \in [Workers -> BOOLEAN]
  BY ZenonT(60) DEF Init
<1> QED BY SMTT(40), <1>1, <1>2, FS_EmptySet DEF SearchInv

\* Every step keeps SearchInv: one step per action, or per few that are alike.
LEMMA SearchStep == StepInv /\ SearchInv /\ [Next]_vars => SearchInv'
<1> SUFFICES ASSUME StepInv, SearchInv, [Next]_vars PROVE SearchInv'
  OBVIOUS
<1> DEFINE m == Cardinality(Marked)
           l == Cardinality(Lookers)
           c == Cardinality(Counted)
<1>1. /\ IsFiniteSet(Marked) /\ IsFiniteSet(Lookers) /\ IsFiniteSet(Counted) /\ m \in Nat /\ l \in Nat /\ c \in Nat
      /\ searching \in Nat /\ searching >= m + l + c /\ Workers \subseteq Procs
  BY ZenonT(60), FiniteThreads DEF SearchInv, Procs
<1> HIDE DEF m, l, c
<1>2. /\ Marked' \subseteq Marked => Cardinality(Marked)' \in Nat /\ Cardinality(Marked)' <= m
      /\ Lookers' \subseteq Lookers => Cardinality(Lookers)' \in Nat /\ Cardinality(Lookers)' <= l
      /\ Counted' \subseteq Counted => Cardinality(Counted)' \in Nat /\ Cardinality(Counted)' <= c
  BY ZenonT(60), <1>1, SetChanges DEF m, l, c
<1>3. ASSUME searching' = searching, Marked' \subseteq Marked, Lookers' \subseteq Lookers, Counted' \subseteq Counted,
             notified' \in [Workers -> BOOLEAN]
      PROVE  SearchInv'
  BY SMTT(40), <1>1, <1>2, <1>3 DEF SearchInv
<1>4. ASSUME UNCHANGED <<searching, notified>>, NEW x \in Procs, NEW s, Goto(x, s),
             s \notin {"mark", "unstarted"}, s \in {"steal", "extend", "looked"} => x \in Lookers
      PROVE  SearchInv'
  <2>1. pc'[x] = s /\ \A y \in Procs : y # x => pc'[y] = pc[y]
    BY ZenonT(60), <1>4 DEF Goto, StepInv
  <2>2. Marked' \subseteq Marked /\ notified' \in [Workers -> BOOLEAN]
    BY ZenonT(60), <1>4 DEF Marked, SearchInv
  <2>3. Lookers' \subseteq Lookers
    BY ZenonT(60), <1>1, <1>4, <2>1 DEF Lookers, Looking
  <2>4. Counted' \subseteq Counted
    BY ZenonT(60), <1>4, <2>1 DEF Counted
  <2> QED BY ZenonT(60), <1>3, <1>4, <2>2, <2>3, <2>4
<1>5. ASSUME NEW x \in Procs, Return(x), UNCHANGED <<searching, notified>> PROVE SearchInv'
  <2>1. back[x] \in Returns /\ Goto(x, back[x])
    BY ZenonT(60), <1>5 DEF StepInv, Return
  <2> QED BY ZenonT(60), <1>4, <1>5, <2>1 DEF Returns
<1>6. CASE UNCHANGED vars
  <2>1. UNCHANGED <<searching, notified, pc>>
    BY ZenonT(60), <1>6 DEF vars, parking
  <2> QED BY ZenonT(60), <2>1 DEF SearchInv, Marked, Lookers, Counted, Looking
<1>7. ASSUME NEW x \in Procs, NotifyLoadSearching(x) \/ NotifyLoadSleeping(x) \/ NotifyClearBit(x) \/ NotifyWake(x) \/ StartedAlready(x) \/ FillSlot(x)
      PROVE  SearchInv'
  <2>1. /\ UNCHANGED <<searching, notified>>
        /\ Return(x) \/ \E s \in {"load", "clear", "start", "count"} : Goto(x, s)
    BY ZenonT(60), <1>7 DEF NotifyLoadSearching, NotifyLoadSleeping, AimAtLowest, NotifyClearBit, NotifyWake, StartedAlready,
       FillSlot, Continue, parking
  <2> QED BY ZenonT(60), <1>4, <1>5, <2>1
<1>8. ASSUME NEW x \in Procs, NotifyCount(x) PROVE SearchInv'
  <2>1. /\ searching' = searching + 1 /\ UNCHANGED notified /\ pc'[x] = "mark" /\ \A y \in Procs : y # x => pc'[y] = pc[y]
    BY ZenonT(60), <1>8 DEF NotifyCount, Continue, Goto, StepInv
  <2>2. Marked' \subseteq Marked /\ notified' \in [Workers -> BOOLEAN] /\ Lookers' \subseteq Lookers /\ Counted' \subseteq Counted \cup {x}
    BY ZenonT(60), <1>1, <2>1 DEF SearchInv, Marked, Lookers, Looking, Counted
  <2>3. Cardinality(Counted)' \in Nat /\ Cardinality(Counted)' <= c + 1
    BY ZenonT(60), <1>1, <2>2, SetChanges DEF c
  <2> QED BY SMTT(40), <1>1, <1>2, <2>1, <2>2, <2>3 DEF SearchInv
<1>9. ASSUME NEW x \in Procs, NotifyMark(x) PROVE SearchInv'
  <2>1. /\ pc[x] = "mark" /\ notified' = [notified EXCEPT ![aim[x]] = TRUE] /\ UNCHANGED searching /\ pc'[x] = "wake"
        /\ \A y \in Procs : y # x => pc'[y] = pc[y]
    BY ZenonT(60), <1>9 DEF NotifyMark, Continue, Goto, StepInv
  <2>2. /\ Marked' \subseteq Marked \cup {aim[x]} /\ notified' \in [Workers -> BOOLEAN] /\ Lookers' \subseteq Lookers
        /\ Counted' \subseteq Counted \ {x} /\ x \in Counted
    BY ZenonT(60), <1>1, <2>1 DEF SearchInv, Marked, Lookers, Looking, Counted
  <2>3. Cardinality(Counted)' \in Nat /\ Cardinality(Counted)' <= c - 1
    BY ZenonT(60), <1>1, <2>2, SetChanges DEF c
  <2>4. Cardinality(Marked)' \in Nat /\ Cardinality(Marked)' <= m + 1
    BY ZenonT(60), <1>1, <2>2, SetChanges DEF m
  <2> QED BY SMTT(40), <1>1, <1>2, <2>1, <2>2, <2>3, <2>4 DEF SearchInv
<1>10. ASSUME NEW x \in Procs, StartWorker(x) PROVE SearchInv'
  <2>1. /\ pc[x] = "start" /\ starting = {} /\ aim[x] \notin slots /\ searching' = searching + 1
    BY ZenonT(60), <1>10 DEF StartWorker
  <2>2. aim[x] \in Workers /\ pc[aim[x]] = "off"
    BY ZenonT(60), <2>1 DEF StepInv
  <2>3. CASE notified' = [notified EXCEPT ![aim[x]] = TRUE] /\ pc' = [pc EXCEPT ![x] = "fill", ![aim[x]] = "begin"]
    <3>1. pc'[x] = "fill" /\ pc'[aim[x]] = "begin" /\ \A y \in Procs : y # x /\ y # aim[x] => pc'[y] = pc[y]
      BY ZenonT(60), <1>1, <2>1, <2>2, <2>3 DEF StepInv
    <3>2. /\ Marked' \subseteq Marked \cup {aim[x]} /\ notified' \in [Workers -> BOOLEAN]
      BY ZenonT(60), <2>3 DEF SearchInv, Marked
    <3>3. Lookers' \subseteq Lookers /\ Counted' \subseteq Counted
      BY ZenonT(60), <1>1, <3>1 DEF Lookers, Looking, Counted
    <3>4. Cardinality(Marked)' \in Nat /\ Cardinality(Marked)' <= m + 1
      BY ZenonT(60), <1>1, <3>2, SetChanges DEF m
    <3> QED BY SMTT(40), <1>1, <1>2, <2>1, <3>2, <3>3, <3>4 DEF SearchInv
  <2>4. CASE Goto(x, "unstarted") /\ UNCHANGED notified
    <3>1. pc'[x] = "unstarted" /\ \A y \in Procs : y # x => pc'[y] = pc[y]
      BY ZenonT(60), <2>4 DEF Goto, StepInv
    <3>2. Marked' \subseteq Marked /\ notified' \in [Workers -> BOOLEAN] /\ Lookers' \subseteq Lookers /\ Counted' \subseteq Counted \cup {x}
      BY ZenonT(60), <1>1, <2>4, <3>1 DEF SearchInv, Marked, Lookers, Looking, Counted
    <3>3. Cardinality(Counted)' \in Nat /\ Cardinality(Counted)' <= c + 1
      BY ZenonT(60), <1>1, <3>2, SetChanges DEF c
    <3> QED BY SMTT(40), <1>1, <1>2, <2>1, <3>2, <3>3 DEF SearchInv
  <2> QED BY ZenonT(60), <1>10, <2>3, <2>4 DEF StartWorker
<1>11. ASSUME NEW x \in Procs, StartFailed(x) PROVE SearchInv'
  <2>1. /\ pc[x] = "unstarted" /\ searching' = searching - 1 /\ UNCHANGED notified /\ pc'[x] \in Returns
        /\ \A y \in Procs : y # x => pc'[y] = pc[y]
    BY ZenonT(60), <1>11 DEF StartFailed, Return, Goto, StepInv
  <2>2. /\ Marked' \subseteq Marked /\ notified' \in [Workers -> BOOLEAN] /\ Lookers' \subseteq Lookers
        /\ Counted' \subseteq Counted \ {x} /\ x \in Counted
    BY ZenonT(60), <1>1, <2>1 DEF SearchInv, Marked, Lookers, Looking, Counted, Returns
  <2>3. Cardinality(Counted)' \in Nat /\ Cardinality(Counted)' <= c - 1
    BY ZenonT(60), <1>1, <2>2, SetChanges DEF c
  <2> QED BY SMTT(40), <1>1, <1>2, <2>1, <2>2, <2>3 DEF SearchInv
<1>12. ASSUME NEW w \in Workers, Answer(w) PROVE SearchInv'
  <2>1. notified' = [notified EXCEPT ![w] = FALSE] /\ UNCHANGED searching
    BY ZenonT(60), <1>12 DEF Answer
  <2>2. notified' \in [Workers -> BOOLEAN] /\ Marked' \subseteq Marked \ {w}
    BY ZenonT(60), <2>1 DEF SearchInv, Marked
  <2>3. CASE notified[w]
    <3>1. pc'[w] = "steal" /\ \A y \in Procs : y # w => pc'[y] = pc[y]
      BY ZenonT(60), <1>1, <1>12, <2>3 DEF Answer, Goto, StepInv
    <3>2. Lookers' \subseteq Lookers \cup {w} /\ Counted' \subseteq Counted /\ w \in Marked
      BY ZenonT(60), <1>1, <2>3, <3>1 DEF Lookers, Looking, Counted, Marked
    <3>3. Cardinality(Marked)' \in Nat /\ Cardinality(Marked)' <= m - 1
      BY ZenonT(60), <1>1, <2>2, <3>2, SetChanges DEF m
    <3>4. Cardinality(Lookers)' \in Nat /\ Cardinality(Lookers)' <= l + 1
      BY ZenonT(60), <1>1, <3>2, SetChanges DEF l
    <3> QED BY SMTT(40), <1>1, <1>2, <2>1, <2>2, <3>2, <3>3, <3>4 DEF SearchInv
  <2>4. CASE ~notified[w]
    <3>1. Goto(w, Otherwise(w)) /\ Otherwise(w) \in {"park", "loop"} /\ pc[w] \notin {"mark", "unstarted"}
      BY ZenonT(60), <1>12, <2>4 DEF Answer, Otherwise
    <3>2. pc'[w] \in {"park", "loop"} /\ \A y \in Procs : y # w => pc'[y] = pc[y]
      BY ZenonT(60), <1>1, <3>1 DEF Goto, StepInv
    <3>3. Lookers' \subseteq Lookers /\ Counted' \subseteq Counted /\ Marked' \subseteq Marked
      BY ZenonT(60), <1>1, <2>2, <3>2 DEF Lookers, Looking, Counted
    <3> QED BY ZenonT(60), <1>3, <2>1, <2>2, <3>3
  <2> QED BY ZenonT(60), <2>3, <2>4
<1>13. ASSUME NEW w \in Workers, Looked(w) PROVE SearchInv'
  <2>1. /\ pc[w] \in {"looked", "steal"} /\ searching' = searching - 1 /\ UNCHANGED notified /\ pc'[w] \in {"loop", "park"}
        /\ \A y \in Procs : y # w => pc'[y] = pc[y]
    BY ZenonT(60), <1>1, <1>13 DEF Looked, Goto, StepInv
  <2>2. /\ Marked' \subseteq Marked /\ notified' \in [Workers -> BOOLEAN] /\ Lookers' \subseteq Lookers \ {w} /\ w \in Lookers
        /\ Counted' \subseteq Counted
    BY ZenonT(60), <1>1, <2>1 DEF SearchInv, Marked, Lookers, Looking, Counted
  <2>3. Cardinality(Lookers)' \in Nat /\ Cardinality(Lookers)' <= l - 1
    BY ZenonT(60), <1>1, <2>2, SetChanges DEF l
  <2> QED BY SMTT(40), <1>1, <1>2, <2>1, <2>2, <2>3 DEF SearchInv
<1>14. ASSUME NEW w \in Workers, Exit(w) \/ Pop(w) \/ RunEnds(w) \/ WakeMainWorker(w) \/ TakeInjected(w) PROVE SearchInv'
  <2>1. /\ UNCHANGED <<searching, notified>>
        /\ \E s \in {"exit", "run", "inject", "tick", "loop", "wakemain", "answer"} : Goto(w, s)
    BY ZenonT(60), <1>14 DEF Exit, Pop, RunEnds, RunYields, RunWaits, RunReturns, WakeMainWorker, TakeInjected, parking, NextPlace
  <2> QED BY ZenonT(60), <1>1, <1>4, <2>1
<1>15. ASSUME NEW w \in Workers, Announce(w) \/ Recheck(w) \/ Unpark(w) \/ Poll(w) PROVE SearchInv'
  <2>1. /\ UNCHANGED <<searching, notified>>
        /\ \E s \in {"recheck", "poll", "blocked", "timers", "tickevents", "events"} : Goto(w, s)
    BY ZenonT(60), <1>15 DEF Announce, Recheck, Unpark, Poll, parking
  <2> QED BY ZenonT(60), <1>1, <1>4, <2>1
<1>16. ASSUME NEW w \in Workers, Steal(w) \/ Extend(w) PROVE SearchInv'
  <2>1. UNCHANGED <<searching, notified>> /\ w \in Lookers /\ (UNCHANGED pc \/ \E s \in {"extend", "looked"} : Goto(w, s))
    BY ZenonT(60), <1>16 DEF Steal, Extend, parking, Lookers, Looking
  <2>2. CASE UNCHANGED pc
    BY ZenonT(60), <2>1, <2>2 DEF SearchInv, Marked, Lookers, Counted, Looking
  <2> QED BY ZenonT(60), <1>1, <1>4, <2>1, <2>2
<1>17. ASSUME NEW w \in Workers, NEW t \in Tasks, RunWakes(w, t) \/ Deliver(w, t) PROVE SearchInv'
  <2>1. UNCHANGED <<searching, notified>> /\ (UNCHANGED pc \/ Goto(w, "notify"))
    BY ZenonT(60), <1>17 DEF RunWakes, Deliver, PushOwn, parking
  <2>2. CASE UNCHANGED pc
    BY ZenonT(60), <2>1, <2>2 DEF SearchInv, Marked, Lookers, Counted, Looking
  <2> QED BY ZenonT(60), <1>1, <1>4, <2>1, <2>2
<1>18. ASSUME NEW p \in Threads, NEW t \in Tasks, PushInject(p, t) PROVE SearchInv'
  <2>1. UNCHANGED <<searching, notified>> /\ Goto(p, "notify") /\ p \in Procs
    BY ZenonT(60), <1>18 DEF PushInject, parking, Procs
  <2> QED BY ZenonT(60), <1>4, <2>1
<1> QED
  BY ZenonT(60), <1>6, <1>7, <1>8, <1>9, <1>10, <1>11, <1>12, <1>13, <1>14, <1>15, <1>16, <1>17, <1>18
  DEF Next, WorkerStep, NotifyStep

\* No fetch_sub takes SEARCHING below zero, and it never falls below the number
\* of workers that will take one off it.
THEOREM SearchingNeverWraps == Spec => [](searching \in Nat /\ SearchingCovers)
<1>1. SearchInv => searching \in Nat /\ SearchingCovers
  BY ZenonT(60) DEF SearchInv, SearchingCovers, Marked, Lookers, Counted
<1> QED BY StepsStart, StepsStay, SearchStart, SearchStep, <1>1, PTL DEF Spec

-----------------------------------------------------------------------------
(* Standard input.                                                         *)

\* The lines the thread read are those handed out and those queued, and the
\* thread runs once it was started, until the input ended.
StdinInv ==
    /\ StdinTypeOK /\ LinesReachReaders
    /\ Len(linesGot) <= linesRead
    /\ ~started => threadAt = "none" /\ ~inputEnded /\ linesRead = 0
    /\ started => threadAt # "none"
    /\ inputEnded <=> threadAt = "done"

\* StdinInv holds at the start.
LEMMA StdinStart == StdinInit => StdinInv
<1> SUFFICES ASSUME StdinInit PROVE StdinInv
  OBVIOUS
<1>1. StdinTypeOK
  <2>1. 0 \in 0..MaxLines /\ 0 \in 0..MaxSpawnFails
    BY StdinAssumption
  <2>2. lines \in Seq(Lines \cup {End, NoThreadErr}) /\ linesGot \in Seq(Lines)
    BY DEF StdinInit
  <2>3. readerAt \in [StdinTasks -> {"idle", "tries", "watches", "sleeps"}]
    BY ZenonT(60) DEF StdinInit
  <2> QED BY ZenonT(60), <2>1, <2>2, <2>3 DEF StdinInit, StdinTypeOK
<1>2. LinesReachReaders
  BY DEF StdinInit, LinesReachReaders, LineQueued, Lines
<1> QED BY <1>1, <1>2 DEF StdinInit, StdinInv

\* An entry behind the others: which lines are queued then.
LEMMA QueuedBehind ==
    ASSUME StdinTypeOK, NEW x \in Lines \cup {End, NoThreadErr}, lines' = Append(lines, x)
    PROVE  /\ lines' \in Seq(Lines \cup {End, NoThreadErr})
           /\ \A n : LineQueued(n)' <=> LineQueued(n) \/ n = x
           /\ \A i \in 1..Len(lines') : (i = Len(lines') /\ lines'[i] = x)
                                     \/ (i < Len(lines') /\ i \in 1..Len(lines) /\ lines'[i] = lines[i])
<1>1. /\ lines \in Seq(Lines \cup {End, NoThreadErr}) /\ Len(lines) \in Nat
      /\ lines' \in Seq(Lines \cup {End, NoThreadErr}) /\ Len(lines') = Len(lines) + 1
      /\ lines'[Len(lines) + 1] = x
      /\ \A i \in 1..Len(lines) : i \in 1..Len(lines') /\ lines'[i] = lines[i]
  BY SMTT(40), AppendPlaces DEF StdinTypeOK
<1>2. \A i \in 1..Len(lines') : (i = Len(lines') /\ lines'[i] = x)
                             \/ (i < Len(lines') /\ i \in 1..Len(lines) /\ lines'[i] = lines[i])
  <2> TAKE i \in 1..Len(lines')
  <2>1. i = Len(lines) + 1 \/ i \in 1..Len(lines)
    BY <1>1
  <2>2. CASE i = Len(lines) + 1
    <3>1. Len(lines') = Len(lines) + 1 /\ lines'[Len(lines) + 1] = x
      BY ZenonT(60), <1>1
    <3> QED BY ZenonT(60), <2>2, <3>1
  <2>3. CASE i \in 1..Len(lines)
    BY SMTT(40), <1>1, <2>3
  <2> QED BY ZenonT(60), <2>1, <2>2, <2>3
<1>3. Len(lines') \in 1..Len(lines') /\ lines'[Len(lines')] = x
  BY <1>1
<1> QED BY ZenonT(60), <1>1, <1>2, <1>3 DEF LineQueued

\* Every step keeps StdinInv: one step per action.
LEMMA StdinStepInv == StdinInv /\ [StdinNext]_stdinVars => StdinInv'
<1> SUFFICES ASSUME StdinInv, [StdinNext]_stdinVars PROVE StdinInv'
  OBVIOUS
<1> USE StdinAssumption
<1> USE DEF StdinInv, StdinTypeOK, LinesReachReaders, stdinState, ReaderGoes
<1>1. CASE UNCHANGED stdinVars
  BY ZenonT(60), <1>1 DEF stdinVars, LineQueued
<1>2. ASSUME NEW t \in StdinTasks, CallNextLine(t) PROVE StdinInv'
  BY ZenonT(60), <1>2 DEF CallNextLine, LineQueued
<1>3. ASSUME NEW t \in StdinTasks, TryLineTakes(t) PROVE StdinInv'
  <2>1. /\ lines # <<>> /\ lines' = Tail(lines)
        /\ linesGot' = IF Head(lines) \in Lines THEN Append(linesGot, Head(lines)) ELSE linesGot
        /\ UNCHANGED <<wanted, started, inputEnded, lineWatchers, threadAt, linesRead, spawnFails>>
        /\ readerAt' \in [StdinTasks -> {"idle", "tries", "watches", "sleeps"}]
    BY ZenonT(60), <1>3 DEF TryLineTakes
  <2>2. /\ lines' \in Seq(Lines \cup {End, NoThreadErr}) /\ Len(lines) \in Nat \ {0} /\ Len(lines') = Len(lines) - 1
        /\ Head(lines) = lines[1] /\ Head(lines) \in Lines \cup {End, NoThreadErr}
        /\ \A i \in 1..Len(lines') : i + 1 \in 1..Len(lines) /\ lines'[i] = lines[i + 1]
        /\ \A i \in 2..Len(lines) : i - 1 \in 1..Len(lines') /\ lines'[i - 1] = lines[i]
    BY SMTT(40), <2>1, TailPlaces
  <2>3. \A n : LineQueued(n)' => LineQueued(n)
    BY <2>2 DEF LineQueued
  <2>4. \A n : LineQueued(n) => LineQueued(n)' \/ n = Head(lines)
    <3> SUFFICES ASSUME NEW n, LineQueued(n), n # Head(lines) PROVE LineQueued(n)'
      OBVIOUS
    <3>1. PICK i \in 1..Len(lines) : lines[i] = n
      BY ZenonT(60) DEF LineQueued
    <3>2. i \in 2..Len(lines)
      BY SMTT(40), <2>2, <3>1
    <3>3. i - 1 \in 1..Len(lines') /\ lines'[i - 1] = n
      BY ZenonT(60), <2>2, <3>1, <3>2
    <3> QED BY ZenonT(60), <3>3 DEF LineQueued
  <2>5. \A i, j \in 1..Len(lines') : i < j /\ lines'[i] \in Lines /\ lines'[j] \in Lines => lines'[i] < lines'[j]
    <3> SUFFICES ASSUME NEW i \in 1..Len(lines'), NEW j \in 1..Len(lines'), i < j,
                        lines'[i] \in Lines, lines'[j] \in Lines
                 PROVE  lines'[i] < lines'[j]
      BY SMTT(40)
    <3>1. /\ i + 1 \in 1..Len(lines) /\ j + 1 \in 1..Len(lines) /\ i + 1 < j + 1
          /\ lines'[i] = lines[i + 1] /\ lines'[j] = lines[j + 1]
      BY <2>2
    <3> QED BY ZenonT(60), <3>1
  <2>6. CASE Head(lines) \in Lines
    <3>1. LineQueued(Head(lines))
      BY SMTT(40), <2>2 DEF LineQueued
    <3>2. ASSUME NEW n \in Lines, LineQueued(n)' PROVE Head(lines) < n
      <4>1. PICK i \in 1..Len(lines') : lines'[i] = n
        BY ZenonT(60), <3>2 DEF LineQueued
      <4>2. i + 1 \in 1..Len(lines) /\ lines[i + 1] = n /\ 1 \in 1..Len(lines) /\ 1 < i + 1
        BY SMTT(40), <2>2, <4>1
      <4> QED BY SMTT(40), <2>2, <2>6, <4>2
    <3>3. Head(lines) = Len(linesGot) + 1
      <4>1. Len(linesGot) \in Nat /\ Len(linesGot) < Head(lines) /\ Head(lines) <= linesRead
        BY SMTT(40), <2>6, <3>1
      <4>2. Len(linesGot) + 1 \in Lines /\ LineQueued(Len(linesGot) + 1)
        BY SMTT(40), <2>6, <4>1 DEF Lines
      <4>3. ASSUME Head(lines) # Len(linesGot) + 1 PROVE FALSE
        <5>1. Head(lines) < Len(linesGot) + 1
          BY ZenonT(60), <2>4, <3>2, <4>2, <4>3
        <5> QED BY SMTT(40), <2>6, <4>1, <5>1 DEF Lines
      <4> QED BY ZenonT(60), <4>3
    <3>4. /\ linesGot' \in Seq(Lines) /\ Len(linesGot') = Len(linesGot) + 1
          /\ \A i \in 1..Len(linesGot') : linesGot'[i] = i
      <4>1. linesGot' = Append(linesGot, Head(lines)) /\ linesGot \in Seq(Lines) /\ Len(linesGot) \in Nat
        BY SMTT(40), <2>1, <2>6
      <4>2. /\ linesGot' \in Seq(Lines) /\ Len(linesGot') = Len(linesGot) + 1
            /\ linesGot'[Len(linesGot) + 1] = Head(lines)
            /\ \A i \in 1..Len(linesGot) : linesGot'[i] = linesGot[i]
        BY SMTT(40), <2>6, <4>1, AppendPlaces
      <4> QED BY SMTT(40), <3>3, <4>1, <4>2
    <3>5. \A n \in Lines : LineQueued(n)' <=> Len(linesGot') < n /\ n <= linesRead
      BY SMTT(40), <2>3, <2>4, <3>2, <3>3, <3>4 DEF Lines
    <3>6. Len(linesGot') <= linesRead
      BY ZenonT(60), <2>6, <3>1, <3>3, <3>4
    <3> QED BY ZenonT(60), <2>1, <2>2, <2>3, <2>5, <3>4, <3>5, <3>6
  <2>7. CASE Head(lines) \notin Lines
    BY ZenonT(60), <2>1, <2>2, <2>3, <2>4, <2>5, <2>7
  <2> QED BY ZenonT(60), <2>6, <2>7
<1>4. ASSUME NEW t \in StdinTasks, TryLineEnded(t) PROVE StdinInv'
  BY <1>4 DEF TryLineEnded, LineQueued
<1>5. ASSUME NEW t \in StdinTasks, want, ReaderGoes(t, "watches") \/ ReaderGoes(t, "sleeps"),
             lineWatchers' = lineWatchers \/ lineWatchers' = lineWatchers \cup {t},
             lines = <<>>, ~inputEnded, UNCHANGED <<inputEnded, linesRead, linesGot>>
      PROVE  StdinInv'
  <2>1. \A n \in Lines : ~LineQueued(n)
    BY <1>5 DEF LineQueued
  <2>2. readerAt' \in [StdinTasks -> {"idle", "tries", "watches", "sleeps"}] /\ lineWatchers' \subseteq StdinTasks
    BY ZenonT(60), <1>5
  <2>3. CASE /\ UNCHANGED <<lines, spawnFails>> /\ wanted'
             /\ IF started THEN UNCHANGED <<started, threadAt>> ELSE started' /\ threadAt' = "waits"
    <3>1. \A n : LineQueued(n)' <=> LineQueued(n)
      BY ZenonT(60), <2>3 DEF LineQueued
    <3> QED BY ZenonT(60), <1>5, <2>1, <2>2, <2>3, <3>1
  <2>5. CASE wanted /\ UNCHANGED <<lines, wanted, started, threadAt, spawnFails>>
    <3>1. \A n : LineQueued(n)' <=> LineQueued(n)
      BY ZenonT(60), <2>5 DEF LineQueued
    <3> QED BY ZenonT(60), <1>5, <2>1, <2>2, <2>5, <3>1
  <2>4. CASE /\ ~wanted /\ ~started /\ spawnFails < MaxSpawnFails
             /\ spawnFails' = spawnFails + 1 /\ lines' = Append(lines, NoThreadErr)
             /\ UNCHANGED <<wanted, started, threadAt>>
    <3>1. /\ lines' \in Seq(Lines \cup {End, NoThreadErr}) /\ \A n \in Lines : ~LineQueued(n)'
          /\ \A i \in 1..Len(lines') : lines'[i] = NoThreadErr
      BY SMTT(40), <1>5, <2>1, <2>4, QueuedBehind DEF Lines, NoThreadErr
    <3> QED BY SMTT(40), <1>5, <2>1, <2>2, <2>4, <3>1 DEF Lines, NoThreadErr
  <2> QED BY ZenonT(60), <1>5, <2>3, <2>4, <2>5 DEF want
<1>6. ASSUME NEW t \in StdinTasks, TryLineWants(t) PROVE StdinInv'
  BY ZenonT(60), <1>5, <1>6 DEF TryLineWants
<1>7. ASSUME NEW t \in StdinTasks, WatchReady(t) PROVE StdinInv'
  BY ZenonT(60), <1>7 DEF WatchReady, LineQueued
<1>8. ASSUME NEW t \in StdinTasks, WatchWaits(t) PROVE StdinInv'
  BY ZenonT(60), <1>5, <1>8 DEF WatchWaits
<1>9. ASSUME NEW t \in StdinTasks, WokenTries(t) PROVE StdinInv'
  BY ZenonT(60), <1>9 DEF WokenTries, LineQueued
<1>10. ASSUME NEW t \in StdinTasks, ReadCancelled(t) PROVE StdinInv'
  BY ZenonT(60), <1>10 DEF ReadCancelled, LineQueued
<1>11. CASE TakeWanted
  BY ZenonT(60), <1>11 DEF TakeWanted, LineQueued
<1>12. CASE ReadLines
  <2>1. threadAt = "reads" /\ UNCHANGED <<started, readerAt, linesGot, spawnFails>> /\ started /\ ~inputEnded
    BY ZenonT(60), <1>12 DEF ReadLines
  <2>2. CASE linesRead < MaxLines /\ linesRead' = linesRead + 1 /\ QueueLine(linesRead') /\ threadAt' = "waits"
    <3>1. linesRead' \in Lines /\ lines' = Append(lines, linesRead') /\ linesRead' # End
      BY <2>2 DEF QueueLine, Lines, End
    <3>2. /\ lines' \in Seq(Lines \cup {End, NoThreadErr})
          /\ \A n : LineQueued(n)' <=> LineQueued(n) \/ n = linesRead'
          /\ \A i \in 1..Len(lines') : (i = Len(lines') /\ lines'[i] = linesRead')
                                    \/ (i < Len(lines') /\ i \in 1..Len(lines) /\ lines'[i] = lines[i])
      BY ZenonT(60), <3>1, QueuedBehind
    <3>3. \A i \in 1..Len(lines) : lines[i] \in Lines => lines[i] < linesRead'
      BY SMTT(40), <2>2 DEF LineQueued, Lines
    <3>4. \A i, j \in 1..Len(lines') : i < j /\ lines'[i] \in Lines /\ lines'[j] \in Lines => lines'[i] < lines'[j]
      BY SMTT(40), <3>2, <3>3
    <3>5. \A n \in Lines : LineQueued(n)' <=> Len(linesGot) < n /\ n <= linesRead'
      BY SMTT(40), <2>2, <3>2 DEF Lines
    <3>6. linesRead' \in 0..MaxLines /\ Len(linesGot) <= linesRead'
      <4>1. Len(linesGot) \in Nat
        OBVIOUS
      <4> QED BY SMTT(40), <2>2, <4>1
    <3> QED BY ZenonT(60), <2>1, <2>2, <3>1, <3>2, <3>4, <3>5, <3>6 DEF QueueLine
  <2>3. CASE linesRead' = linesRead /\ QueueLine(End) /\ threadAt' = "done"
    <3>1. lines' = Append(lines, End) /\ End \notin Lines
      BY <2>3 DEF QueueLine, Lines, End
    <3>2. /\ lines' \in Seq(Lines \cup {End, NoThreadErr})
          /\ \A n \in Lines : LineQueued(n)' <=> LineQueued(n)
          /\ \A i \in 1..Len(lines') : lines'[i] \in Lines => i \in 1..Len(lines) /\ lines'[i] = lines[i]
      BY ZenonT(60), <3>1, QueuedBehind
    <3> QED BY ZenonT(60), <2>1, <2>3, <3>1, <3>2 DEF QueueLine
  <2> QED BY ZenonT(60), <1>12, <2>2, <2>3 DEF ReadLines
<1> QED BY ZenonT(60), <1>1, <1>2, <1>3, <1>4, <1>6, <1>7, <1>8, <1>9, <1>10, <1>11, <1>12 DEF StdinNext, StdinStep

\* Readers get the lines in the order of the input, each once: those handed out
\* are a prefix, and the others that were read are queued in their order.
THEOREM LinesAreNotLost == StdinSpec => []LinesReachReaders
<1>1. StdinInv => LinesReachReaders
  BY ZenonT(60) DEF StdinInv
<1> QED BY StdinStart, StdinStepInv, <1>1, PTL DEF StdinSpec
=============================================================================
