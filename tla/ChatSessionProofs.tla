--------------------------- MODULE ChatSessionProofs ---------------------------
(***************************************************************************)
(* Safety of ChatSession for any number of sockets, sessions, messages and *)
(* any limit.  A message belongs to one socket while it is worked on, and  *)
(* its entries are new when they are saved (LogInv); the place of a        *)
(* handler fixes what it holds (PlaceInv).  Ordered is the part of         *)
(* PageFollowsHistory that a growing log has to keep.                      *)
(***************************************************************************)
EXTENDS ChatSession, TLAPS

Busy == {"saving"} \cup Running

Known(e) == e \in lost \/ \E s \in Sessions : D!In(e, log[s])

Unique(q) == \A i, j \in 1..Len(q) : q[i] = q[j] => i = j

PlaceInv ==
    \A w \in Sockets :
        /\ pc[w] = "new" => session[w] = None /\ page[w] = <<>> /\ link[w] = "up"
        /\ pc[w] # "new" => session[w] \in Sessions
        /\ IF pc[w] \in Busy THEN text[w] \in asked /\ creds[w] # None ELSE text[w] = None
        /\ creds[w] # None => /\ pc[w] # "new"
                              /\ creds[w].session = session[w]
                              /\ creds[w].version <= settings[session[w]]
        /\ active[w] = IF pc[w] \in Running THEN creds[w] ELSE None
        /\ pc[w] = "storing" => last[w] = "done" \/ link[w] = "broken"

LogInv ==
    /\ \A s \in Sessions : Unique(log[s])
    /\ \A e \in Entries : Known(e) => e.text \in asked
    /\ \A v, w \in Sockets : v # w /\ pc[v] \in Busy /\ pc[w] \in Busy => text[v] # text[w]
    /\ \A w \in Sockets :
          /\ pc[w] \in Busy => ~Known(Answer(text[w]))
          /\ pc[w] = "saving" => ~Known(Question(text[w]))
          /\ pc[w] \in Running => \/ Question(text[w]) \in lost
                                  \/ D!In(Question(text[w]), log[session[w]])

Backed(q, dropped, pg) == \A j \in 1..Len(pg) : pg[j] \in dropped \/ D!In(pg[j], q)

Ordered(q, pg) ==
    \A j \in 1..Len(pg) : \A i \in 1..(j - 1) : \A p, r \in 1..Len(q) :
        q[p] = pg[i] /\ q[r] = pg[j] => p < r

PageInv ==
    \A w \in Sockets : /\ Backed(log[session[w]], lost, page[w])
                       /\ Ordered(log[session[w]], page[w])

IInv == TypeOK /\ PlaceInv /\ LogInv /\ PageInv

-----------------------------------------------------------------------------
(* What an entry appended to a log changes.                                *)
LEMMA Appended ==
    ASSUME NEW q \in Seq(Entries), NEW e \in Entries
    PROVE  /\ \A f : D!In(f, Append(q, e)) <=> f = e \/ D!In(f, q)
           /\ Unique(q) /\ ~D!In(e, q) => Unique(Append(q, e))
<1> DEFINE n == Len(q)
           a == Append(q, e)
<1>1. n \in Nat /\ Len(a) = n + 1 /\ a[n + 1] = e /\ \A i \in 1..n : a[i] = q[i]
  OBVIOUS
<1>2. \A i \in 1..(n + 1) : i = n + 1 \/ i \in 1..n
  BY <1>1
<1>3. ASSUME NEW f PROVE D!In(f, a) <=> f = e \/ D!In(f, q)
  <2>1. ASSUME NEW i \in 1..Len(a), a[i] = f PROVE f = e \/ D!In(f, q)
    BY <1>1, <1>2, <2>1 DEF D!In
  <2>2. ASSUME NEW i \in 1..n, q[i] = f PROVE i \in 1..Len(a) /\ a[i] = f
    BY <1>1, <2>2
  <2>3. n + 1 \in 1..Len(a)
    BY <1>1
  <2> HIDE DEF a
  <2> QED
    BY <1>1, <2>1, <2>2, <2>3 DEF D!In
<1>4. ASSUME Unique(q), ~D!In(e, q), NEW i \in 1..Len(a), NEW j \in 1..Len(a), a[i] = a[j]
      PROVE  i = j
  BY <1>1, <1>2, <1>4 DEF Unique, D!In
<1> HIDE DEF a
<1>5. Unique(q) /\ ~D!In(e, q) => Unique(a)
  BY <1>4 DEF Unique
<1> QED
  BY <1>3, <1>5 DEF a

(* An empty page shows nothing out of order.                               *)
LEMMA EmptyPage ==
    ASSUME NEW q, NEW dropped, NEW pg, Len(pg) = 0
    PROVE  Backed(q, dropped, pg) /\ Ordered(q, pg)
<1>1. 1..Len(pg) = {}
  OBVIOUS
<1> QED
  BY <1>1, Zenon DEF Backed, Ordered

(* The order of a page survives what is stored behind everything it shows. *)
LEMMA OrderedLogGrows ==
    ASSUME NEW q \in Seq(Entries), NEW pg \in Seq(Entries), NEW e \in Entries,
           Ordered(q, pg), \A j \in 1..Len(pg) : pg[j] # e
    PROVE  Ordered(Append(q, e), pg)
<1>1. Len(Append(q, e)) = Len(q) + 1 /\ Append(q, e)[Len(q) + 1] = e
  OBVIOUS
<1>2. \A p \in 1..Len(q) : Append(q, e)[p] = q[p]
  OBVIOUS
<1>3. SUFFICES ASSUME NEW j \in 1..Len(pg), NEW i \in 1..(j - 1),
                      NEW p \in 1..Len(Append(q, e)), NEW r \in 1..Len(Append(q, e)),
                      Append(q, e)[p] = pg[i], Append(q, e)[r] = pg[j]
               PROVE  p < r
  BY DEF Ordered
<1>4. i \in 1..Len(pg)
  OBVIOUS
<1>5. p \in 1..Len(q) /\ r \in 1..Len(q)
  BY <1>1, <1>3, <1>4
<1> QED
  BY <1>2, <1>3, <1>5 DEF Ordered

(* A page that is shown the entry just stored keeps the order.             *)
LEMMA OrderedBothGrow ==
    ASSUME NEW q \in Seq(Entries), NEW pg \in Seq(Entries), NEW e \in Entries,
           Ordered(q, pg), \A j \in 1..Len(pg) : pg[j] # e, ~D!In(e, q)
    PROVE  Ordered(Append(q, e), Append(pg, e))
<1>1. Ordered(Append(q, e), pg)
  BY OrderedLogGrows
<1>2. /\ Len(Append(q, e)) = Len(q) + 1
      /\ \A p \in 1..Len(q) : Append(q, e)[p] = q[p]
  OBVIOUS
<1>3. /\ Len(Append(pg, e)) = Len(pg) + 1
      /\ Append(pg, e)[Len(pg) + 1] = e
      /\ \A j \in 1..Len(pg) : Append(pg, e)[j] = pg[j]
  OBVIOUS
<1>4. SUFFICES ASSUME NEW j \in 1..Len(Append(pg, e)), NEW i \in 1..(j - 1),
                      NEW p \in 1..Len(Append(q, e)), NEW r \in 1..Len(Append(q, e)),
                      Append(q, e)[p] = Append(pg, e)[i], Append(q, e)[r] = Append(pg, e)[j]
               PROVE  p < r
  BY DEF Ordered
<1>5. i \in 1..Len(pg) /\ Append(pg, e)[i] = pg[i]
  BY <1>3
<1>6. CASE j \in 1..Len(pg)
  BY <1>1, <1>3, <1>4, <1>5, <1>6 DEF Ordered
<1>7. CASE j = Len(pg) + 1
  <2>1. r \notin 1..Len(q)
    BY <1>2, <1>3, <1>4, <1>7 DEF D!In
  <2>2. p # Len(q) + 1
    BY <1>4, <1>5
  <2> QED
    BY <2>1, <2>2, <1>2
<1> QED
  BY <1>3, <1>6, <1>7

(* An entry that is nowhere in the log may be shown at any time.           *)
LEMMA OrderedPageGrows ==
    ASSUME NEW q \in Seq(Entries), NEW pg \in Seq(Entries), NEW e \in Entries,
           Ordered(q, pg), ~D!In(e, q)
    PROVE  Ordered(q, Append(pg, e))
<1>1. /\ Len(Append(pg, e)) = Len(pg) + 1
      /\ Append(pg, e)[Len(pg) + 1] = e
      /\ \A j \in 1..Len(pg) : Append(pg, e)[j] = pg[j]
  OBVIOUS
<1>2. SUFFICES ASSUME NEW j \in 1..Len(Append(pg, e)), NEW i \in 1..(j - 1),
                      NEW p \in 1..Len(q), NEW r \in 1..Len(q),
                      q[p] = Append(pg, e)[i], q[r] = Append(pg, e)[j]
               PROVE  p < r
  BY DEF Ordered
<1>3. j # Len(pg) + 1
  BY <1>1, <1>2 DEF D!In
<1>4. j \in 1..Len(pg) /\ i \in 1..Len(pg)
  BY <1>1, <1>3
<1> QED
  BY <1>1, <1>2, <1>4 DEF Ordered

(* The end of a log without repetitions shows the order of the log.        *)
LEMMA LatestOrdered ==
    ASSUME NEW q \in Seq(Entries), Unique(q)
    PROVE  /\ Latest(q) \in Seq(Entries)
           /\ \A dropped : Backed(q, dropped, Latest(q))
           /\ Ordered(q, Latest(q))
<1> USE ChatAssumption
<1> DEFINE start == IF Len(q) > HistoryLimit THEN Len(q) - HistoryLimit + 1 ELSE 1
<1>1. start \in Nat \ {0} /\ start <= Len(q) + 1
  OBVIOUS
<1> HIDE DEF start
<1>2. Latest(q) = SubSeq(q, start, Len(q))
  BY DEF Latest, start
<1>3. /\ Latest(q) \in Seq(Entries)
      /\ Len(Latest(q)) = Len(q) - start + 1
      /\ \A j \in 1..Len(Latest(q)) : Latest(q)[j] = q[start + j - 1]
  BY <1>1, <1>2
<1>4. \A j \in 1..Len(Latest(q)) : start + j - 1 \in 1..Len(q)
  BY <1>1, <1>3
<1>5. \A dropped : Backed(q, dropped, Latest(q))
  BY <1>3, <1>4 DEF Backed, D!In
<1>6. Ordered(q, Latest(q))
  <2>1. SUFFICES ASSUME NEW j \in 1..Len(Latest(q)), NEW i \in 1..(j - 1),
                        NEW p \in 1..Len(q), NEW r \in 1..Len(q),
                        q[p] = Latest(q)[i], q[r] = Latest(q)[j]
                 PROVE  p < r
    BY DEF Ordered
  <2>2. i \in 1..Len(Latest(q)) /\ i < j
    BY <1>3
  <2>3. p = start + i - 1 /\ r = start + j - 1
    BY <1>3, <1>4, <2>1, <2>2 DEF Unique
  <2> QED
    BY <1>1, <2>2, <2>3
<1> QED
  BY <1>3, <1>5, <1>6

-----------------------------------------------------------------------------
LEMMA Initially == Init => IInv
<1> SUFFICES ASSUME Init PROVE IInv
  OBVIOUS
<1> USE DEF Init
<1>1. TypeOK
  <2>1. "start" \in Steps
    <3>1. Pipeline[1] = "start"
      BY DEF Pipeline
    <3> QED
      BY <3>1, 1 \in 1..8 DEF Steps
  <2>2. 0 \in 0..MaxSaves
    BY ChatAssumption
  <2> QED
    BY <2>1, <2>2 DEF TypeOK, Places
<1>2. PlaceInv
  BY DEF PlaceInv, Busy, Running
<1>3. LogInv
  <2>1. \A s \in Sessions : Len(log[s]) = 0
    OBVIOUS
  <2>2. ASSUME NEW e PROVE ~Known(e)
    <3>1. \A s \in Sessions : ~D!In(e, log[s])
      BY <2>1 DEF D!In
    <3> QED
      BY <3>1 DEF Known
  <2>3. \A s \in Sessions : Unique(log[s])
    BY <2>1 DEF Unique
  <2> QED
    BY <2>2, <2>3 DEF LogInv, Busy, Running
<1>4. PageInv
  <2>1. \A w \in Sockets : Len(page[w]) = 0
    OBVIOUS
  <2> QED
    BY <2>1, EmptyPage DEF PageInv
<1> QED
  BY <1>1, <1>2, <1>3, <1>4 DEF IInv

(* Nothing happened to the tables, and no message changed hands: what is   *)
(* known of the logs stays true.                                           *)
LEMMA LogKept ==
    ASSUME LogInv, UNCHANGED <<log, lost, asked, session>>,
           \A w \in Sockets : /\ pc'[w] \in Busy => pc[w] \in Busy /\ text'[w] = text[w]
                              /\ pc'[w] = "saving" => pc[w] = "saving"
                              /\ pc'[w] \in Running => pc[w] \in Running
    PROVE  LogInv'
<1>1. \A e : Known(e)' <=> Known(e)
  BY DEF Known, D!In
<1>2. \A s \in Sessions : Unique(log'[s])
  BY DEF LogInv
<1>3. \A w \in Sockets : pc'[w] \in Running => \/ Question(text'[w]) \in lost'
                                               \/ D!In(Question(text'[w]), log'[session'[w]])
  BY DEF LogInv, Busy
<1>4. \A w \in Sockets : (/\ pc[w] \in Busy => ~Known(Answer(text[w]))
                         /\ pc[w] = "saving" => ~Known(Question(text[w])))'
  <2>1. ASSUME NEW w \in Sockets, pc'[w] \in Busy
        PROVE  Answer(text[w])' = Answer(text[w]) /\ Question(text[w])' = Question(text[w])
    BY <2>1 DEF Answer, Question
  <2> QED
    BY <1>1, <2>1 DEF LogInv, Busy, Known, D!In
<1>5. \A v, w \in Sockets : v # w /\ pc'[v] \in Busy /\ pc'[w] \in Busy => text'[v] # text'[w]
  BY DEF LogInv
<1>6. \A e \in Entries : Known(e)' => e.text \in asked'
  BY <1>1 DEF LogInv
<1> QED
  BY <1>2, <1>3, <1>4, <1>5, <1>6 DEF LogInv, Known, D!In, Unique, Question, Answer

(* Likewise for the pages.                                                 *)
LEMMA PagesKept ==
    ASSUME PageInv, UNCHANGED <<log, lost, session, page>>
    PROVE  PageInv'
BY DEF PageInv, Backed, Ordered, D!In

(* A page that loads the history.                                          *)
LEMMA PageLoaded ==
    ASSUME IInv, NEW w \in Sockets, NEW s \in Sessions, UNCHANGED <<log, lost>>,
           session' = [session EXCEPT ![w] = s],
           pc[w] = "new" \/ session[w] = s,
           NEW rows \in History(s), Shown(w, rows)
    PROVE  page' \in [Sockets -> Seq(Entries)] /\ PageInv'
<1> USE DEF IInv
<1>1. /\ rows \in Seq(Entries)
      /\ Backed(log[s], lost, rows)
      /\ Ordered(log[s], rows)
  <2>1. CASE rows = Latest(log[s])
    BY <2>1, LatestOrdered DEF TypeOK, LogInv
  <2>2. CASE rows = <<>>
    BY <2>2, EmptyPage
  <2> QED
    BY <2>1, <2>2 DEF History
<1>2. page' \in [Sockets -> Seq(Entries)]
  BY <1>1 DEF Shown, TypeOK
<1>3. ASSUME NEW v \in Sockets
      PROVE  Backed(log'[session'[v]], lost', page'[v]) /\ Ordered(log'[session'[v]], page'[v])
  <2>1. CASE v # w
    BY <2>1 DEF PageInv, Shown, TypeOK
  <2>2. CASE v = w /\ link[w] = "up"
    BY <2>2, <1>1 DEF Shown, TypeOK
  <2>3. CASE v = w /\ link[w] # "up"
    <3>1. page'[v] = page[v] /\ session'[v] = session[v]
      BY <2>3 DEF Shown, TypeOK, PlaceInv
    <3> QED
      BY <3>1 DEF PageInv
  <2> QED
    BY <2>1, <2>2, <2>3
<1> QED
  BY <1>2, <1>3 DEF PageInv, Backed, Ordered, D!In

(* A socket saves an entry that is new and shows it to its page.           *)
LEMMA EntrySaved ==
    ASSUME IInv, NEW w \in Sockets, pc[w] # "new", NEW e \in Entries, ~Known(e),
           UNCHANGED session, Save(w, e), Shown(w, Append(page[w], e))
    PROVE  /\ log' \in [Sessions -> Seq(Entries)]
           /\ lost' \subseteq Entries
           /\ page' \in [Sockets -> Seq(Entries)]
           /\ \A s \in Sessions : Unique(log'[s])
           /\ \A f : Known(f)' <=> f = e \/ Known(f)
           /\ e \in lost' \/ D!In(e, log'[session[w]])
           /\ \A f : \A s \in Sessions : f \in lost \/ D!In(f, log[s]) => f \in lost' \/ D!In(f, log'[s])
           /\ PageInv'
<1> USE DEF IInv, TypeOK
<1>1. session[w] \in Sessions /\ session' = session
  BY DEF PlaceInv
<1>2. /\ e \notin lost
      /\ \A s \in Sessions : ~D!In(e, log[s])
  BY DEF Known
<1>3. \A v \in Sockets : pc[v] # "new" => session[v] \in Sessions
  BY DEF PlaceInv
<1>4. \A v \in Sockets : \A j \in 1..Len(page[v]) : page[v][j] # e
  <2>1. ASSUME NEW v \in Sockets, NEW j \in 1..Len(page[v]), page[v][j] = e PROVE FALSE
    <3>1. pc[v] # "new"
      BY <2>1 DEF PlaceInv
    <3> QED
      BY <1>2, <1>3, <2>1, <3>1 DEF PageInv, Backed
  <2> QED
    BY <2>1
<1>5. page' \in [Sockets -> Seq(Entries)]
  BY DEF Shown
<1>6. \A v \in Sockets : page'[v] = page[v] \/ (v = w /\ page'[v] = Append(page[v], e))
  BY DEF Shown
<1>7. CASE log' = [log EXCEPT ![session[w]] = Append(@, e)] /\ UNCHANGED lost
  <2>1. /\ log' \in [Sessions -> Seq(Entries)]
        /\ log'[session[w]] = Append(log[session[w]], e)
        /\ \A s \in Sessions \ {session[w]} : log'[s] = log[s]
    BY <1>1, <1>7
  <2>2. /\ Len(log'[session[w]]) = Len(log[session[w]]) + 1
        /\ log'[session[w]][Len(log[session[w]]) + 1] = e
        /\ \A i \in 1..Len(log[session[w]]) : log'[session[w]][i] = log[session[w]][i]
    BY <2>1, <1>1
  <2>3. \A f : D!In(f, log'[session[w]]) <=> f = e \/ D!In(f, log[session[w]])
    BY <2>1, <1>1, Appended
  <2>4. \A s \in Sessions : Unique(log'[s])
    <3>1. Unique(log[session[w]]) /\ ~D!In(e, log[session[w]])
      BY <1>1, <1>2 DEF LogInv
    <3>2. Unique(log'[session[w]])
      BY <1>1, <2>1, <3>1, Appended
    <3> QED
      BY <2>1, <3>2 DEF LogInv
  <2>5. \A f : Known(f)' <=> f = e \/ Known(f)
    BY <1>1, <1>7, <2>1, <2>3 DEF Known, D!In
  <2>6. \A f : \A s \in Sessions : f \in lost \/ D!In(f, log[s]) => f \in lost' \/ D!In(f, log'[s])
    BY <1>7, <2>1, <2>3
  <2>7. ASSUME NEW v \in Sockets
        PROVE  Backed(log'[session'[v]], lost', page'[v]) /\ Ordered(log'[session'[v]], page'[v])
    <3>1. CASE pc[v] = "new"
      BY <3>1, <1>6 DEF PlaceInv, Backed, Ordered
    <3>2. CASE pc[v] # "new" /\ session[v] # session[w]
      BY <3>2, <1>1, <1>3, <1>6, <1>7, <2>1 DEF PageInv
    <3>3. CASE pc[v] # "new" /\ session[v] = session[w] /\ page'[v] = page[v]
      <4>1. Ordered(log'[session[w]], page[v])
        <5>1. /\ Ordered(log[session[w]], page[v])
              /\ log[session[w]] \in Seq(Entries)
              /\ page[v] \in Seq(Entries)
              /\ \A j \in 1..Len(page[v]) : page[v][j] # e
          BY <3>3, <1>1, <1>4 DEF PageInv
        <5> QED
          BY <5>1, <2>1, OrderedLogGrows
      <4> QED
        BY <4>1, <3>3, <1>1, <1>7, <2>3 DEF PageInv, Backed
    <3>4. CASE v = w /\ page'[v] = Append(page[v], e)
      <4>1. Ordered(log'[session[w]], page'[w])
        BY <3>4, <1>1, <1>2, <1>4, <2>1, OrderedBothGrow DEF PageInv
      <4>2. Backed(log'[session[w]], lost', page'[w])
        BY <3>4, <1>1, <1>7, <2>3 DEF PageInv, Backed
      <4> QED
        BY <4>1, <4>2, <3>4, <1>1
    <3> QED
      BY <3>1, <3>2, <3>3, <3>4, <1>6
  <2> QED
    BY <1>5, <1>7, <2>1, <2>3, <2>4, <2>5, <2>6, <2>7 DEF PageInv, Backed, Ordered, D!In
<1>8. CASE lost' = lost \cup {e} /\ UNCHANGED log
  <2>1. \A f : Known(f)' <=> f = e \/ Known(f)
    BY <1>8 DEF Known, D!In
  <2>2. ASSUME NEW v \in Sockets
        PROVE  Backed(log[session[v]], lost', page'[v]) /\ Ordered(log[session[v]], page'[v])
    <3>1. CASE page'[v] = page[v]
      BY <3>1, <1>8 DEF PageInv, Backed
    <3>2. CASE v = w /\ page'[v] = Append(page[v], e)
      <4>1. Ordered(log[session[w]], page'[w])
        BY <3>2, <1>1, <1>2, OrderedPageGrows DEF PageInv
      <4>2. Backed(log[session[w]], lost', page'[w])
        BY <3>2, <1>8 DEF PageInv, Backed
      <4> QED
        BY <4>1, <4>2, <3>2
    <3> QED
      BY <3>1, <3>2, <1>6
  <2>3. PageInv'
    BY <1>1, <1>8, <2>2 DEF PageInv, Backed, Ordered, D!In
  <2>4. \A s \in Sessions : Unique(log'[s])
    BY <1>8 DEF LogInv
  <2>5. /\ log' \in [Sessions -> Seq(Entries)] /\ lost' \subseteq Entries
        /\ e \in lost'
    BY <1>8
  <2>6. \A f : \A s \in Sessions : f \in lost \/ D!In(f, log[s]) => f \in lost' \/ D!In(f, log'[s])
    BY <1>8
  <2> QED
    BY <1>5, <2>1, <2>3, <2>4, <2>5, <2>6
<1> QED
  BY <1>7, <1>8 DEF Save

-----------------------------------------------------------------------------
LEMMA PipelineShape ==
    ASSUME NEW step \in Steps
    PROVE  /\ NextSteps(step) \subseteq Steps
           /\ NextSteps(step) = {} => step = "done"
           /\ step = "done" => NextSteps(step) = {}
           /\ "done" \in Steps /\ "start" \in Steps
<1>1. Pipeline[1] = "start" /\ Pipeline[8] = "done"
  BY DEF Pipeline
<1>2. "done" \in Steps /\ "start" \in Steps
  BY <1>1, 1 \in 1..8, 8 \in 1..8 DEF Steps
<1>3. step = "done" => NextSteps(step) = {}
  BY DEF NextSteps, AfterRespond
<1>4. ASSUME step # "done"
      PROVE  NextSteps(step) # {} /\ NextSteps(step) \subseteq Steps
  <2>1. PICK i \in 1..8 : Pipeline[i] = step
    BY DEF Steps
  <2>2. i \in 1..7
    BY <1>1, <1>4, <2>1
  <2>3. NextSteps(step) = {Pipeline[k + 1] : k \in {k \in 1..7 : Pipeline[k] = step}}
    BY <1>4 DEF NextSteps
  <2>4. Pipeline[i + 1] \in NextSteps(step)
    BY <2>1, <2>2, <2>3
  <2>5. \A k \in 1..7 : k + 1 \in 1..8
    OBVIOUS
  <2> QED
    BY <2>3, <2>4, <2>5 DEF Steps
<1> QED
  BY <1>2, <1>3, <1>4

(* The handler is back in its loop and keeps what it knows of itself.      *)
LEMMA Finished ==
    ASSUME IInv, NEW w \in Sockets, pc[w] \in Busy, Finish(w),
           UNCHANGED <<settings, asked, session, creds>>,
           \E ok \in BOOLEAN : Sent(w, ok),
           \A v \in Sockets : pc[v] = "new" => page'[v] = page[v]
    PROVE  /\ PlaceInv'
           /\ link' \in [Sockets -> {"up", "lost", "broken"}]
           /\ pc' \in [Sockets -> Places]
           /\ active' \in [Sockets -> Credentials \cup {None}]
           /\ text' \in [Sockets -> Messages \cup {None}]
           /\ last' \in [Sockets -> Steps]
           /\ \A v \in Sockets : /\ v # w => pc'[v] = pc[v] /\ text'[v] = text[v]
                                 /\ pc'[w] = "idle"
<1> USE DEF IInv
<1>1. /\ link' \in [Sockets -> {"up", "lost", "broken"}]
      /\ \A v \in Sockets \ {w} : link'[v] = link[v]
  BY DEF TypeOK, Sent
<1>2. /\ pc' \in [Sockets -> Places]
      /\ active' \in [Sockets -> Credentials \cup {None}]
      /\ text' \in [Sockets -> Messages \cup {None}]
  BY DEF TypeOK, Finish, Places
<1>3. last' \in [Sockets -> Steps]
  <2>1. "start" \in Steps
    BY PipelineShape DEF TypeOK
  <2> QED
    BY <2>1 DEF TypeOK, Finish
<1>4. /\ pc'[w] = "idle" /\ active'[w] = None /\ text'[w] = None
      /\ \A v \in Sockets \ {w} : /\ pc'[v] = pc[v] /\ active'[v] = active[v]
                                  /\ text'[v] = text[v] /\ last'[v] = last[v]
  BY DEF TypeOK, Finish
<1>5. PlaceInv'
  BY <1>1, <1>4 DEF PlaceInv, Busy, Running
<1> QED
  BY <1>1, <1>2, <1>3, <1>4, <1>5

-----------------------------------------------------------------------------
LEMMA ConfigureKeeps ==
    ASSUME IInv, NEW s \in Sessions, Configure(s) PROVE IInv'
<1> USE DEF IInv, Configure, socketVars
<1>1. settings' \in [Sessions -> 0..MaxSaves] /\ \A t \in Sessions : settings[t] <= settings'[t]
  BY ChatAssumption DEF TypeOK
<1>2. TypeOK'
  BY <1>1 DEF TypeOK
<1>3. PlaceInv'
  <2>1. ASSUME NEW w \in Sockets, creds[w] # None
        PROVE  creds[w].version <= settings'[session[w]]
    <3>1. /\ session[w] \in Sessions
          /\ creds[w].version <= settings[session[w]]
          /\ creds[w].version \in Nat
      BY <2>1 DEF PlaceInv, TypeOK, Credentials
    <3>2. settings[session[w]] \in Nat /\ settings'[session[w]] \in Nat
      BY <1>1, <3>1, ChatAssumption DEF TypeOK
    <3> QED
      BY <1>1, <3>1, <3>2
  <2> QED
    BY <2>1 DEF PlaceInv
<1>4. LogInv'
  BY LogKept
<1>5. PageInv'
  BY PagesKept
<1> QED
  BY <1>2, <1>3, <1>4, <1>5

(* Credentials that are stored are those of their session.                 *)
LEMMA StoredOwn ==
    ASSUME TypeOK, NEW s \in Sessions
    PROVE  /\ Stored(s) \in Credentials \cup {None}
           /\ Stored(s) # None => /\ Stored(s).session = s
                                  /\ Stored(s).version <= settings[s]
BY ChatAssumption DEF TypeOK, Stored, Credentials

LEMMA ConnectKeeps ==
    ASSUME IInv, NEW w \in Sockets, Connect(w) PROVE IInv'
<1> USE DEF IInv
<1>1. PICK s \in Sessions : /\ session' = [session EXCEPT ![w] = s]
                            /\ creds' = [creds EXCEPT ![w] = Stored(s)]
                            /\ \E rows \in History(s) : Shown(w, rows)
  BY DEF Connect
<1>2. /\ pc[w] = "new" /\ pc' = [pc EXCEPT ![w] = "idle"]
      /\ UNCHANGED <<settings, log, lost, asked, link, active, text, last>>
  BY DEF Connect, tableVars
<1>3. page' \in [Sockets -> Seq(Entries)] /\ PageInv'
  BY <1>1, <1>2, PageLoaded
<1>4. TypeOK'
  BY <1>1, <1>2, <1>3, StoredOwn DEF TypeOK, Places
<1>5. PlaceInv'
  <2>1. ASSUME NEW v \in Sockets, v # w
        PROVE  /\ pc'[v] = pc[v] /\ session'[v] = session[v] /\ creds'[v] = creds[v]
               /\ page'[v] = page[v]
    BY <1>1, <1>2, <2>1 DEF TypeOK, Shown
  <2>2. pc'[w] = "idle" /\ session'[w] = s /\ creds'[w] = Stored(s)
    BY <1>1, <1>2 DEF TypeOK
  <2> QED
    BY <1>2, <2>1, <2>2, StoredOwn DEF PlaceInv, Busy, Running
<1>6. LogInv'
  <2>1. \A v \in Sockets : pc'[v] \in Busy => v # w /\ pc'[v] = pc[v] /\ session'[v] = session[v]
    BY <1>1, <1>2 DEF TypeOK, Busy, Running
  <2> QED
    BY <1>2, <2>1 DEF LogInv, Known, D!In, Unique, Question, Answer, Busy
<1> QED
  BY <1>3, <1>4, <1>5, <1>6

LEMMA ResumeKeeps ==
    ASSUME IInv, NEW w \in Sockets, Resume(w) PROVE IInv'
<1> USE DEF IInv
<1>1. /\ pc[w] = "idle" /\ \E rows \in History(session[w]) : Shown(w, rows)
      /\ \E ok \in BOOLEAN : Sent(w, ok)
      /\ UNCHANGED <<settings, log, lost, asked, session, pc, creds, active, text, last>>
  BY DEF Resume, tableVars, Sendable
<1>2. session[w] \in Sessions
  BY <1>1 DEF PlaceInv
<1>3. page' \in [Sockets -> Seq(Entries)] /\ PageInv'
  <2>1. session' = [session EXCEPT ![w] = session[w]]
    BY <1>1 DEF TypeOK
  <2> QED
    BY <1>1, <1>2, <2>1, PageLoaded
<1>4. /\ link' \in [Sockets -> {"up", "lost", "broken"}]
      /\ \A v \in Sockets \ {w} : link'[v] = link[v] /\ page'[v] = page[v]
  BY <1>1 DEF TypeOK, Sent, Shown
<1>5. TypeOK'
  BY <1>1, <1>3, <1>4 DEF TypeOK
<1>6. PlaceInv'
  BY <1>1, <1>4 DEF PlaceInv, Busy, Running
<1>7. LogInv'
  BY <1>1, LogKept
<1> QED
  BY <1>3, <1>5, <1>6, <1>7

LEMMA AskKeeps ==
    ASSUME IInv, NEW w \in Sockets, Ask(w) PROVE IInv'
<1> USE DEF IInv
<1>1. PICK m \in Messages \ asked : asked' = asked \cup {m} /\ text' = [text EXCEPT ![w] = m]
  BY DEF Ask
<1>2. /\ pc[w] = "idle" /\ pc' = [pc EXCEPT ![w] = "saving"]
      /\ Current(w) # None /\ creds' = [creds EXCEPT ![w] = Current(w)]
      /\ UNCHANGED <<settings, log, lost, session, link, active, last, page>>
  BY DEF Ask
<1>3. session[w] \in Sessions
  BY <1>2 DEF PlaceInv
<1>4. /\ Current(w) \in Credentials
      /\ Current(w).session = session[w]
      /\ Current(w).version <= settings[session[w]]
  BY <1>2, <1>3, StoredOwn DEF Current, PlaceInv, TypeOK
<1>5. TypeOK'
  BY <1>1, <1>2, <1>4 DEF TypeOK, Places
<1>6. /\ pc'[w] = "saving" /\ text'[w] = m /\ creds'[w] = Current(w)
      /\ \A v \in Sockets \ {w} : pc'[v] = pc[v] /\ text'[v] = text[v] /\ creds'[v] = creds[v]
  BY <1>1, <1>2 DEF TypeOK
<1>7. PlaceInv'
  BY <1>1, <1>2, <1>4, <1>6 DEF PlaceInv, Busy, Running
<1>8. LogInv'
  <2>1. \A e : Known(e)' <=> Known(e)
    BY <1>2 DEF Known, D!In
  <2>2. \A e \in Entries : Known(e)' => e.text \in asked'
    BY <1>1, <2>1 DEF LogInv
  <2>3. \A v \in Sockets \ {w} : pc'[v] \in Busy => text'[v] \in asked
    BY <1>6 DEF PlaceInv
  <2>4. \A u, v \in Sockets : u # v /\ pc'[u] \in Busy /\ pc'[v] \in Busy => text'[u] # text'[v]
    BY <1>1, <1>6, <2>3 DEF LogInv
  <2>5. Answer(m) \in Entries /\ Question(m) \in Entries /\ Answer(m).text = m /\ Question(m).text = m
    BY DEF Answer, Question, Entries
  <2>6. ~Known(Answer(m)) /\ ~Known(Question(m))
    BY <1>1, <2>5 DEF LogInv
  <2>7. ASSUME NEW v \in Sockets
        PROVE  (/\ pc[v] \in Busy => ~Known(Answer(text[v]))
                /\ pc[v] = "saving" => ~Known(Question(text[v])))'
    <3>1. CASE v = w
      BY <1>6, <2>1, <2>6, <3>1 DEF Answer, Question, Known, D!In
    <3>2. CASE v # w
      BY <1>6, <2>1, <3>2 DEF LogInv, Answer, Question, Known, D!In
    <3> QED
      BY <3>1, <3>2
  <2>8. ASSUME NEW v \in Sockets, pc'[v] \in Running
        PROVE  (Question(text[v]) \in lost \/ D!In(Question(text[v]), log[session[v]]))'
    BY <1>2, <1>6, <2>8 DEF LogInv, Question, D!In, Running
  <2>9. \A s \in Sessions : Unique(log'[s])
    BY <1>2 DEF LogInv
  <2> QED
    BY <2>2, <2>4, <2>7, <2>8, <2>9 DEF LogInv, Unique, Known, D!In
<1>9. PageInv'
  BY <1>2, PagesKept
<1> QED
  BY <1>5, <1>7, <1>8, <1>9

LEMMA SaveQuestionKeeps ==
    ASSUME IInv, NEW w \in Sockets, SaveQuestion(w) PROVE IInv'
<1> USE DEF IInv
<1> DEFINE e == Question(text[w])
<1>1. /\ pc[w] = "saving" /\ pc' = [pc EXCEPT ![w] = "stream"]
      /\ Save(w, e) /\ Shown(w, Append(page[w], e))
      /\ active' = [active EXCEPT ![w] = creds[w]]
      /\ \E ok \in BOOLEAN : Sent(w, ok)
      /\ UNCHANGED <<settings, asked, session, creds, text, last>>
  BY DEF SaveQuestion, SetCredentials, Sendable
<1>2. text[w] \in asked /\ text[w] \in Messages /\ creds[w] # None
  BY <1>1 DEF PlaceInv, Busy, TypeOK
<1>3. e \in Entries /\ e # Answer(text[w]) /\ e.text = text[w]
  BY <1>2 DEF Question, Answer, Entries
<1>4. ~Known(e)
  BY <1>1 DEF LogInv
<1> HIDE DEF e
<1>5. /\ log' \in [Sessions -> Seq(Entries)]
      /\ lost' \subseteq Entries
      /\ page' \in [Sockets -> Seq(Entries)]
      /\ \A s \in Sessions : Unique(log'[s])
      /\ \A f : Known(f)' <=> f = e \/ Known(f)
      /\ e \in lost' \/ D!In(e, log'[session[w]])
      /\ \A f : \A s \in Sessions : f \in lost \/ D!In(f, log[s]) => f \in lost' \/ D!In(f, log'[s])
      /\ PageInv'
  BY <1>1, <1>3, <1>4, EntrySaved
<1>6. /\ link' \in [Sockets -> {"up", "lost", "broken"}]
      /\ \A v \in Sockets \ {w} : link'[v] = link[v] /\ page'[v] = page[v]
  BY <1>1 DEF TypeOK, Sent, Shown
<1>7. /\ pc'[w] = "stream" /\ active'[w] = creds[w]
      /\ \A v \in Sockets \ {w} : pc'[v] = pc[v] /\ active'[v] = active[v]
  BY <1>1 DEF TypeOK
<1>8. TypeOK'
  BY <1>1, <1>5, <1>6 DEF TypeOK, Places
<1>9. PlaceInv'
  BY <1>1, <1>2, <1>6, <1>7 DEF PlaceInv, Busy, Running
<1>10. LogInv'
  <2>1. \A f \in Entries : Known(f)' => f.text \in asked'
    BY <1>1, <1>2, <1>3, <1>5 DEF LogInv
  <2>2. \A v \in Sockets : pc'[v] \in Busy <=> pc[v] \in Busy
    BY <1>1, <1>7 DEF Busy, Running
  <2>3. \A v \in Sockets \ {w} : pc[v] \in Busy =>
            text[v] # text[w] /\ e # Answer(text[v]) /\ e # Question(text[v])
    BY <1>1, <1>3 DEF LogInv, Busy, Answer, Question
  <2>4. ASSUME NEW v \in Sockets
        PROVE  (/\ pc[v] \in Busy => ~Known(Answer(text[v]))
                /\ pc[v] = "saving" => ~Known(Question(text[v])))'
    <3>1. /\ Answer(text[v])' = Answer(text[v]) /\ Question(text[v])' = Question(text[v])
          /\ \A f : Known(f)' <=> f = e \/ Known(f)
      BY <1>1, <1>5 DEF Answer, Question
    <3>2. ASSUME pc'[v] \in Busy PROVE ~Known(Answer(text[v]))'
      <4>1. e # Answer(text[v]) /\ ~Known(Answer(text[v]))
        BY <1>3, <2>2, <2>3, <3>2 DEF LogInv
      <4> QED
        BY <3>1, <4>1 DEF Known, D!In
    <3>3. ASSUME pc'[v] = "saving" PROVE ~Known(Question(text[v]))'
      <4>1. v # w /\ pc[v] = "saving"
        BY <1>7, <3>3
      <4>2. e # Question(text[v]) /\ ~Known(Question(text[v]))
        BY <2>3, <4>1 DEF LogInv, Busy
      <4> QED
        BY <3>1, <4>2 DEF Known, D!In
    <3> QED
      BY <3>2, <3>3
  <2>5. ASSUME NEW v \in Sockets, pc'[v] \in Running
        PROVE  (Question(text[v]) \in lost \/ D!In(Question(text[v]), log[session[v]]))'
    <3>1. session[v] \in Sessions
      BY <1>1, <1>7, <2>5 DEF PlaceInv, Running
    <3>2. CASE v = w
      BY <1>1, <1>5, <3>2 DEF e, Question, D!In
    <3>3. CASE v # w
      <4>1. Question(text[v]) \in lost \/ D!In(Question(text[v]), log[session[v]])
        BY <1>7, <2>5, <3>3 DEF LogInv
      <4>2. Question(text[v]) \in lost' \/ D!In(Question(text[v]), log'[session[v]])
        BY <1>5, <3>1, <4>1
      <4>3. Question(text[v])' = Question(text[v]) /\ session'[v] = session[v] /\ text'[v] = text[v]
        BY <1>1 DEF Question
      <4> QED
        BY <4>2, <4>3 DEF D!In, Question
    <3> QED
      BY <3>2, <3>3
  <2>6. \A u, v \in Sockets : u # v /\ pc'[u] \in Busy /\ pc'[v] \in Busy => text'[u] # text'[v]
    BY <1>1, <2>2 DEF LogInv
  <2> QED
    BY <1>5, <2>1, <2>4, <2>5, <2>6 DEF LogInv, Unique, Known, D!In
<1> QED
  BY <1>5, <1>8, <1>9, <1>10

(* Where a handler finishes without saving anything.                       *)
LEMMA FinishedUnsaved ==
    ASSUME IInv, NEW w \in Sockets, pc[w] \in Busy, Finish(w),
           UNCHANGED <<settings, log, lost, asked, session, creds, page>>,
           \E ok \in BOOLEAN : Sent(w, ok)
    PROVE  IInv'
<1> USE DEF IInv
<1>1. /\ PlaceInv'
      /\ link' \in [Sockets -> {"up", "lost", "broken"}]
      /\ pc' \in [Sockets -> Places]
      /\ active' \in [Sockets -> Credentials \cup {None}]
      /\ text' \in [Sockets -> Messages \cup {None}]
      /\ last' \in [Sockets -> Steps]
      /\ \A v \in Sockets : /\ v # w => pc'[v] = pc[v] /\ text'[v] = text[v]
                            /\ pc'[w] = "idle"
  BY Finished
<1>2. TypeOK'
  BY <1>1 DEF TypeOK
<1>3. LogInv'
  <2>1. \A v \in Sockets : pc'[v] \in Busy => v # w
    BY <1>1 DEF Busy, Running
  <2>2. \A v \in Sockets : /\ pc'[v] \in Busy => pc[v] \in Busy /\ text'[v] = text[v]
                           /\ pc'[v] = "saving" => pc[v] = "saving"
                           /\ pc'[v] \in Running => pc[v] \in Running
    BY <1>1, <2>1 DEF Busy, Running
  <2> QED
    BY <2>2, LogKept
<1> QED
  BY <1>1, <1>2, <1>3, PagesKept

LEMMA StoreAnswerKeeps ==
    ASSUME IInv, NEW w \in Sockets, StoreAnswer(w) PROVE IInv'
<1> USE DEF IInv
<1> DEFINE e == Answer(text[w])
<1>1. /\ pc[w] = "storing" /\ Finish(w)
      /\ \E ok \in BOOLEAN : Sent(w, ok)
      /\ UNCHANGED <<settings, asked, session, creds>>
  BY DEF StoreAnswer, Sendable
<1>2. pc[w] \in Busy
  BY <1>1 DEF Busy, Running
<1>3. CASE last[w] # "done"
  BY <1>1, <1>2, <1>3, FinishedUnsaved DEF StoreAnswer
<1>4. CASE last[w] = "done"
  <2>1. Save(w, e) /\ Shown(w, Append(page[w], e))
    BY <1>4 DEF StoreAnswer
  <2>2. text[w] \in asked /\ text[w] \in Messages
    BY <1>2 DEF PlaceInv, TypeOK
  <2>3. e \in Entries /\ e.text = text[w]
    BY <2>2 DEF Answer, Entries
  <2>4. ~Known(e)
    BY <1>2 DEF LogInv
  <2>5. pc[w] # "new"
    BY <1>1
  <2> HIDE DEF e
  <2>6. /\ log' \in [Sessions -> Seq(Entries)]
        /\ lost' \subseteq Entries
        /\ page' \in [Sockets -> Seq(Entries)]
        /\ \A s \in Sessions : Unique(log'[s])
        /\ \A f : Known(f)' <=> f = e \/ Known(f)
        /\ \A f : \A s \in Sessions : f \in lost \/ D!In(f, log[s]) => f \in lost' \/ D!In(f, log'[s])
        /\ PageInv'
    BY <1>1, <2>1, <2>3, <2>4, <2>5, EntrySaved
  <2>7. \A v \in Sockets : pc[v] = "new" => page'[v] = page[v]
    BY <2>1, <2>5 DEF Shown, TypeOK
  <2>8. /\ PlaceInv'
        /\ link' \in [Sockets -> {"up", "lost", "broken"}]
        /\ pc' \in [Sockets -> Places]
        /\ active' \in [Sockets -> Credentials \cup {None}]
        /\ text' \in [Sockets -> Messages \cup {None}]
        /\ last' \in [Sockets -> Steps]
        /\ \A v \in Sockets : /\ v # w => pc'[v] = pc[v] /\ text'[v] = text[v]
                              /\ pc'[w] = "idle"
    BY <1>1, <1>2, <2>7, Finished
  <2>9. TypeOK'
    BY <1>1, <2>6, <2>8 DEF TypeOK
  <2>10. LogInv'
    <3>1. \A v \in Sockets : pc'[v] \in Busy =>
              /\ v # w /\ pc'[v] = pc[v] /\ text'[v] = text[v]
              /\ e # Answer(text[v]) /\ e # Question(text[v])
      BY <1>2, <2>3, <2>8 DEF LogInv, Busy, Running, Answer, Question
    <3>2. \A f \in Entries : Known(f)' => f.text \in asked'
      BY <1>1, <2>2, <2>3, <2>6 DEF LogInv
    <3>6. \A f : Known(f)' <=> f = e \/ Known(f)
      BY <2>6
    <3>3. ASSUME NEW v \in Sockets
          PROVE  (/\ pc[v] \in Busy => ~Known(Answer(text[v]))
                  /\ pc[v] = "saving" => ~Known(Question(text[v])))'
      <4>1. pc'[v] = "saving" => pc'[v] \in Busy
        BY DEF Busy
      <4>2. ASSUME pc'[v] \in Busy PROVE ~Known(Answer(text[v]))'
        <5>1. Answer(text[v])' = Answer(text[v]) /\ e # Answer(text[v])
          BY <3>1, <4>2 DEF Answer
        <5>2. ~Known(Answer(text[v]))
          BY <3>1, <4>2 DEF LogInv
        <5> QED
          BY <3>6, <5>1, <5>2 DEF Known, D!In
      <4>3. ASSUME pc'[v] = "saving" PROVE ~Known(Question(text[v]))'
        <5>1. Question(text[v])' = Question(text[v]) /\ e # Question(text[v])
          BY <3>1, <4>1, <4>3 DEF Question
        <5>2. ~Known(Question(text[v]))
          BY <3>1, <4>1, <4>3 DEF LogInv
        <5> QED
          BY <3>6, <5>1, <5>2 DEF Known, D!In
      <4> QED
        BY <4>2, <4>3
    <3>4. ASSUME NEW v \in Sockets, pc'[v] \in Running
          PROVE  (Question(text[v]) \in lost \/ D!In(Question(text[v]), log[session[v]]))'
      <4>1. pc[v] \in Running /\ text'[v] = text[v] /\ session[v] \in Sessions
        BY <3>1, <3>4 DEF Busy, PlaceInv, Running
      <4>2. Question(text[v]) \in lost \/ D!In(Question(text[v]), log[session[v]])
        BY <4>1 DEF LogInv
      <4>3. Question(text[v]) \in lost' \/ D!In(Question(text[v]), log'[session[v]])
        BY <2>6, <4>1, <4>2
      <4>4. Question(text[v])' = Question(text[v]) /\ session'[v] = session[v]
        BY <1>1, <4>1 DEF Question
      <4> QED
        BY <4>1, <4>3, <4>4 DEF D!In, Question
    <3>5. \A u, v \in Sockets : u # v /\ pc'[u] \in Busy /\ pc'[v] \in Busy => text'[u] # text'[v]
      BY <3>1 DEF LogInv
    <3> QED
      BY <2>6, <3>2, <3>3, <3>4, <3>5 DEF LogInv, Unique, Known, D!In
  <2> QED
    BY <2>6, <2>8, <2>9, <2>10
<1> QED
  BY <1>3, <1>4

(* The steps that touch nothing but the place, the state of the run and    *)
(* the link of one socket, and do not take a message up.                   *)
LEMMA MovesKeep ==
    ASSUME IInv, NEW w \in Sockets,
           \/ Node(w) \/ NodeUnseen(w) \/ NodeRaises(w) \/ Rerun(w)
           \/ Refuse(w) \/ Drop(w) \/ End(w) \/ Abort(w)
    PROVE  IInv'
<1> USE DEF IInv
<1>1. UNCHANGED <<settings, log, lost, asked, session, creds, active, text, page>>
  BY DEF Node, NodeUnseen, NodeRaises, Rerun, Refuse, Drop, End, Abort, tableVars
<1>2. /\ link' \in [Sockets -> {"up", "lost", "broken"}]
      /\ \A v \in Sockets \ {w} : link'[v] = link[v]
      /\ pc[w] = "new" => link'[w] = link[w]
  BY DEF Node, NodeUnseen, NodeRaises, Rerun, Refuse, Drop, End, Abort, Sent, Sendable, TypeOK
<1>3. /\ pc' \in [Sockets -> Places]
      /\ \A v \in Sockets \ {w} : pc'[v] = pc[v]
      /\ pc'[w] \in Running <=> pc[w] \in Running
      /\ pc'[w] \in Busy <=> pc[w] \in Busy
      /\ pc'[w] = "saving" <=> pc[w] = "saving"
      /\ pc'[w] = "new" <=> pc[w] = "new"
  BY DEF Node, NodeUnseen, NodeRaises, Rerun, Refuse, Drop, End, Abort, TypeOK,
         Places, Busy, Running
<1>4. /\ last' \in [Sockets -> Steps]
      /\ \A v \in Sockets \ {w} : last'[v] = last[v]
  <2>1. NextSteps(last[w]) \subseteq Steps /\ "done" \in Steps
    BY PipelineShape DEF TypeOK
  <2> QED
    BY <2>1 DEF Node, NodeUnseen, NodeRaises, Rerun, Refuse, Drop, End, Abort, TypeOK
<1>5. pc'[w] = "storing" => last'[w] = "done" \/ link'[w] = "broken"
  <2>1. CASE Node(w)
    <3>1. PICK step \in NextSteps(last[w]) :
             /\ last' = [last EXCEPT ![w] = step]
             /\ pc' = [pc EXCEPT ![w] = IF NextSteps(step) = {} THEN "storing" ELSE "stream"]
      BY <2>1 DEF Node
    <3>2. step \in Steps
      BY PipelineShape DEF TypeOK
    <3>3. NextSteps(step) = {} => step = "done"
      BY <3>2, PipelineShape
    <3> QED
      BY <3>1, <3>3 DEF TypeOK
  <2>2. CASE NodeUnseen(w)
    BY <2>2 DEF NodeUnseen, Sent, TypeOK
  <2>3. CASE Rerun(w)
    BY <2>3 DEF Rerun, TypeOK
  <2>4. CASE NodeRaises(w) \/ End(w) \/ Abort(w)
    BY <2>4 DEF NodeRaises, End, Abort, TypeOK
  <2>5. CASE Refuse(w)
    BY <2>5 DEF Refuse
  <2>6. CASE Drop(w)
    BY <2>6 DEF Drop, TypeOK, PlaceInv
  <2> QED
    BY <2>1, <2>2, <2>3, <2>4, <2>5, <2>6
<1>6. TypeOK'
  BY <1>1, <1>2, <1>3, <1>4 DEF TypeOK
<1>7. PlaceInv'
  BY <1>1, <1>2, <1>3, <1>4, <1>5 DEF PlaceInv
<1>8. LogInv'
  BY <1>1, <1>3, LogKept
<1> QED
  BY <1>1, <1>6, <1>7, <1>8, PagesKept

LEMMA StepKeeps == IInv /\ [Next]_vars => IInv'
<1> SUFFICES ASSUME IInv, [Next]_vars PROVE IInv'
  OBVIOUS
<1>1. CASE UNCHANGED vars
  <2>1. UNCHANGED <<settings, log, lost, asked, session, link, pc, creds, active, text, last, page>>
    BY <1>1 DEF vars, tableVars, socketVars
  <2>2. TypeOK'
    BY <2>1 DEF IInv, TypeOK
  <2>3. PlaceInv'
    BY <2>1 DEF IInv, PlaceInv
  <2>4. LogInv'
    BY <2>1, LogKept DEF IInv
  <2>5. PageInv'
    BY <2>1, PagesKept DEF IInv
  <2> QED
    BY <2>2, <2>3, <2>4, <2>5 DEF IInv
<1>2. ASSUME NEW s \in Sessions, Configure(s) PROVE IInv'
  BY <1>2, ConfigureKeeps
<1>3. ASSUME NEW w \in Sockets, RerunUnseen(w) \/ RerunRaises(w) PROVE IInv'
  <2>1. /\ pc[w] \in Busy /\ Finish(w)
        /\ \E ok \in BOOLEAN : Sent(w, ok)
        /\ UNCHANGED <<settings, log, lost, asked, session, creds, page>>
    BY <1>3 DEF RerunUnseen, RerunRaises, Sendable, tableVars, Busy, Running
  <2> QED
    BY <2>1, FinishedUnsaved
<1>4. ASSUME NEW w \in Sockets,
             Connect(w) \/ Resume(w) \/ Ask(w) \/ Refuse(w) \/ Handle(w)
                \/ Drop(w) \/ End(w) \/ Abort(w)
      PROVE  IInv'
  BY <1>3, <1>4, ConnectKeeps, ResumeKeeps, AskKeeps, SaveQuestionKeeps, StoreAnswerKeeps,
     MovesKeep DEF Handle
<1> QED
  BY <1>1, <1>2, <1>4 DEF Next

(* Whatever the sockets do, a message belongs to one of them, what is      *)
(* stored of it is new and what a page shows is stored: the invariant that *)
(* the theorems below read off.                                            *)
THEOREM Invariance == Spec => []IInv
BY Initially, StepKeeps, PTL DEF Spec

(* Every variable stays in its type, for any number of sockets and texts.  *)
THEOREM TypeCorrect == Spec => []TypeOK
<1>1. IInv => TypeOK
  BY DEF IInv
<1> QED
  BY <1>1, Invariance, PTL

(* RunsOnOwnCredentials: the ContextVar that _run_agent_for_session sets   *)
(* keeps apart the credentials of any number of sockets that run at once.  *)
THEOREM OwnCredentials == Spec => []RunsOnOwnCredentials
<1>1. IInv => RunsOnOwnCredentials
  BY DEF IInv, PlaceInv, RunsOnOwnCredentials, Busy
<1> QED
  BY <1>1, Invariance, PTL

(* PageFollowsHistory: a page never shows what is not stored, nor in       *)
(* another order, however the saves of other sockets fall between its      *)
(* loads of the history.                                                   *)
THEOREM PagesInOrder == Spec => []PageFollowsHistory
<1>1. IInv => PageFollowsHistory
  BY DEF IInv, PageInv, PageFollowsHistory, Backed, Ordered, D!In
<1> QED
  BY <1>1, Invariance, PTL

-----------------------------------------------------------------------------
(* A save of a new entry that is due is a record of the dialogue.          *)
LEMMA SaveRecords ==
    ASSUME NEW w \in Sockets, session[w] \in Sessions, NEW e \in Entries,
           ~Known(e), D!Due(session[w], e), Save(w, e)
    PROVE  D!Next
<1>1. D!Record(session[w], e)
  BY DEF Save, Known, D!Record
<1>2. e \in D!Entries
  BY DEF Entries, D!Entries
<1> QED
  BY <1>1, <1>2 DEF D!Next

LEMMA StepRecords == IInv /\ [Next]_vars => [D!Next]_<<log, lost>>
<1> SUFFICES ASSUME IInv, [Next]_vars PROVE D!Next \/ UNCHANGED <<log, lost>>
  OBVIOUS
<1> USE DEF IInv
<1>1. CASE UNCHANGED vars
  BY <1>1 DEF vars, tableVars
<1>2. ASSUME NEW s \in Sessions, Configure(s) PROVE UNCHANGED <<log, lost>>
  BY <1>2 DEF Configure
<1>3. ASSUME NEW w \in Sockets,
             \/ Connect(w) \/ Resume(w) \/ Ask(w) \/ Refuse(w) \/ Drop(w) \/ End(w) \/ Abort(w)
             \/ Node(w) \/ NodeUnseen(w) \/ NodeRaises(w)
             \/ Rerun(w) \/ RerunUnseen(w) \/ RerunRaises(w)
      PROVE  UNCHANGED <<log, lost>>
  BY <1>3 DEF Connect, Resume, Ask, Refuse, Drop, End, Abort, Node, NodeUnseen, NodeRaises,
              Rerun, RerunUnseen, RerunRaises, tableVars
<1>4. ASSUME NEW w \in Sockets, SaveQuestion(w) PROVE D!Next
  <2>1. pc[w] = "saving" /\ Save(w, Question(text[w]))
    BY <1>4 DEF SaveQuestion
  <2>2. session[w] \in Sessions /\ text[w] \in Messages
    BY <2>1 DEF PlaceInv, Busy, TypeOK
  <2>3. Question(text[w]) \in Entries /\ D!Due(session[w], Question(text[w]))
    BY <2>2 DEF Question, Entries, D!Due
  <2>4. ~Known(Question(text[w]))
    BY <2>1 DEF LogInv
  <2> QED
    BY <2>1, <2>2, <2>3, <2>4, SaveRecords
<1>5. ASSUME NEW w \in Sockets, StoreAnswer(w) PROVE D!Next \/ UNCHANGED <<log, lost>>
  <2>1. pc[w] = "storing" /\ pc[w] \in Busy /\ pc[w] \in Running
    BY <1>5 DEF StoreAnswer, Busy, Running
  <2>2. session[w] \in Sessions /\ text[w] \in Messages
    BY <2>1 DEF PlaceInv, TypeOK
  <2>3. Answer(text[w]) \in Entries /\ Answer(text[w]).text = text[w]
    BY <2>2 DEF Answer, Entries
  <2>4. \/ Question(text[w]) \in lost
        \/ D!In(Question(text[w]), log[session[w]])
    BY <2>1 DEF LogInv
  <2>5. D!Question(text[w]) = Question(text[w])
    BY DEF Question, D!Question
  <2>6. D!Due(session[w], Answer(text[w]))
    BY <2>3, <2>4, <2>5 DEF D!Due
  <2>7. ~Known(Answer(text[w]))
    BY <2>1 DEF LogInv
  <2>8. CASE last[w] = "done"
    BY <1>5, <2>2, <2>3, <2>6, <2>7, <2>8, SaveRecords DEF StoreAnswer
  <2>9. CASE last[w] # "done"
    BY <1>5, <2>9 DEF StoreAnswer
  <2> QED
    BY <2>8, <2>9
<1> QED
  BY <1>1, <1>2, <1>3, <1>4, <1>5 DEF Next, Handle

(* ImplementsDialogue: _save_history records every question and every      *)
(* answer at most once, in one session and in this order, although the     *)
(* graph may run twice and any number of sockets write.                    *)
THEOREM ChatImplementsDialogue == Spec => ImplementsDialogue
<1>1. Init => D!Init
  BY DEF Init, D!Init
<1> QED
  BY <1>1, Invariance, StepRecords, PTL DEF Spec, ImplementsDialogue, D!Spec, D!vars

-----------------------------------------------------------------------------
(* What a run of the stream does to the state that the handler keeps.      *)
LEMMA StepForward ==
    ASSUME TypeOK, [Next]_vars, NEW w \in Sockets, pc[w] = "stream", last'[w] # last[w]
    PROVE  \E i \in 1..7 : last[w] = Pipeline[i] /\ last'[w] = Pipeline[i + 1]
<1>1. ~UNCHANGED vars
  BY DEF vars, socketVars
<1>2. ASSUME NEW s \in Sessions, Configure(s) PROVE last' = last
  BY <1>2 DEF Configure, socketVars
<1>3. ASSUME NEW v \in Sockets,
             \/ Connect(v) \/ Resume(v) \/ Ask(v) \/ Refuse(v) \/ Drop(v) \/ End(v) \/ Abort(v)
             \/ SaveQuestion(v) \/ NodeUnseen(v) \/ NodeRaises(v)
      PROVE  last' = last
  BY <1>3 DEF Connect, Resume, Ask, Refuse, Drop, End, Abort, SaveQuestion, NodeUnseen, NodeRaises
<1>4. ASSUME NEW v \in Sockets,
             \/ Rerun(v) \/ RerunUnseen(v) \/ RerunRaises(v) \/ StoreAnswer(v)
             \/ Node(v) /\ v # w
      PROVE  last'[w] = last[w]
  BY <1>4 DEF Rerun, RerunUnseen, RerunRaises, StoreAnswer, Node, Finish, TypeOK
<1>5. Node(w)
  BY <1>1, <1>2, <1>3, <1>4 DEF Next, Handle
<1>6. last'[w] \in NextSteps(last[w])
  BY <1>5 DEF Node, TypeOK
<1>7. last[w] # "done"
  BY <1>6 DEF NextSteps, AfterRespond
<1> QED
  BY <1>6, <1>7 DEF NextSteps

(* RunsGoForward: the routes of build_graph lead each run once through the *)
(* pipeline.                                                               *)
THEOREM ForwardOnly == Spec => RunsGoForward
<1> DEFINE Forward ==
      \A w \in Sockets :
          pc[w] = "stream" /\ last'[w] # last[w]
             => \E i \in 1..7 : last[w] = Pipeline[i] /\ last'[w] = Pipeline[i + 1]
<1>1. TypeOK /\ [Next]_vars => [Forward]_vars
  BY StepForward
<1> QED
  BY <1>1, TypeCorrect, PTL DEF Spec, RunsGoForward

(* StayedMeansAnswered: nobody who stays is told "done" without an answer, *)
(* because only a failed send ends a run before its last state.            *)
THEOREM AnswerComesWithDone == Spec => StayedMeansAnswered
<1> DEFINE Answered ==
      \A w \in Sockets :
          pc[w] = "storing" /\ pc'[w] = "idle" /\ link[w] = "up"
             => page'[w] = Append(page[w], Answer(text[w]))
<1>1. IInv /\ [Next]_vars => [Answered]_vars
  <2> SUFFICES ASSUME IInv, [Next]_vars, NEW w \in Sockets,
                      pc[w] = "storing", pc'[w] = "idle", link[w] = "up"
               PROVE  page'[w] = Append(page[w], Answer(text[w]))
    OBVIOUS
  <2> USE DEF IInv
  <2>1. ~UNCHANGED vars
    BY DEF vars, socketVars
  <2>2. ASSUME NEW s \in Sessions, Configure(s) PROVE FALSE
    BY <2>2 DEF Configure, socketVars
  <2>3. ASSUME NEW v \in Sockets,
               \/ Connect(v) \/ Resume(v) \/ Ask(v) \/ Refuse(v) \/ Drop(v) \/ End(v) \/ Abort(v)
               \/ SaveQuestion(v) \/ Node(v) \/ NodeUnseen(v) \/ NodeRaises(v)
               \/ Rerun(v) \/ RerunUnseen(v) \/ RerunRaises(v)
        PROVE  FALSE
    BY <2>3 DEF Connect, Resume, Ask, Refuse, Drop, End, Abort, SaveQuestion, Node, NodeUnseen,
                NodeRaises, Rerun, RerunUnseen, RerunRaises, Finish, TypeOK
  <2>4. PICK v \in Sockets : StoreAnswer(v)
    BY <2>1, <2>2, <2>3 DEF Next, Handle
  <2>5. v = w
    BY <2>4 DEF StoreAnswer, Finish, TypeOK
  <2>6. last[w] = "done"
    BY DEF PlaceInv
  <2>7. Shown(w, Append(page[w], Answer(text[w])))
    BY <2>4, <2>5, <2>6 DEF StoreAnswer
  <2> QED
    BY <2>7 DEF Shown, TypeOK
<1> QED
  BY <1>1, Invariance, PTL DEF Spec, StayedMeansAnswered
=============================================================================
