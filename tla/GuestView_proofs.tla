--------------------------- MODULE GuestView_proofs --------------------------
(* What a guest's page shows, for rounds of any length, any number of rounds, *)
(* late draws, lost frames and reloads, and a host any number of frames ahead:*)
(* the types, that no stroke number is painted twice or out of order, and     *)
(* that a page nothing disturbed shows the whole drawing.  The last two for a *)
(* React that paints a state before the page takes the next frame.            *)
EXTENDS GuestView, SequenceTheorems, WellFoundedInduction, TLAPS

LEMMA StrokeFacts ==
  /\ PerRound \in Nat /\ PerRound > 0 /\ MaxRound \in Nat
  /\ \A st \in Stroke : /\ st.idx \in Nat /\ st.idx < PerRound
                        /\ st.round \in Nat /\ st.round <= MaxRound
  BY SizeAssumption DEF Stroke

-----------------------------------------------------------------------------
\* Leading, From and Insert

LEMMA LeadingIs ==
  ASSUME NEW n \in Nat, NEW good
  PROVE  /\ Leading(n, good) \in 0..n
         /\ \A i \in 1..Leading(n, good) : i \in good
         /\ Leading(n, good) = n \/ Leading(n, good) + 1 \notin good
<1> DEFINE R == OpToRel(<, Nat)
           Ends == {k \in 0..n : k = n \/ k + 1 \notin good}
<1>1. IsWellFoundedOn(R, Nat)
  BY NatLessThanWellFounded
<1>2. \A a, b \in Nat : a < b => <<a, b>> \in R
  BY DEF OpToRel
<1> HIDE DEF R
<1>3. n \in Ends /\ Ends \subseteq Nat
  OBVIOUS
<1>4. \A k \in 0..n : k \notin Ends => k + 1 \in good
  OBVIOUS
<1>5. \A k \in Ends : k \in 0..n /\ (k = n \/ k + 1 \notin good)
  OBVIOUS
<1> HIDE DEF Ends
<1>6. PICK m \in Ends : \A k \in Ends : <<k, m>> \notin R
  BY <1>1, <1>3, WFMin
<1>7. ASSUME NEW i \in 1..m
      PROVE  i \in good
  <2>1. i - 1 \in 0..n /\ i - 1 \in Nat /\ m \in Nat /\ i - 1 < m /\ i - 1 + 1 = i
    BY <1>5, <1>6
  <2>2. i - 1 \notin Ends
    BY <1>2, <1>6, <2>1
  <2> QED
    BY <1>4, <2>1, <2>2
<1>8. \E k \in 0..n : 1..k \subseteq good /\ (k = n \/ k + 1 \notin good)
  BY <1>5, <1>6, <1>7
<1>9. /\ Leading(n, good) \in 0..n
      /\ 1..Leading(n, good) \subseteq good
      /\ Leading(n, good) = n \/ Leading(n, good) + 1 \notin good
  BY <1>8 DEF Leading
<1> QED
  BY <1>9

\* In the order of their numbers; equal numbers only where the page got a stroke twice.
Rising(strokes) ==
  \A i, j \in 1..Len(strokes) : i < j => strokes[i].idx < strokes[j].idx

\* All of them below or all from number n on.
Below(strokes, n) == \A i \in 1..Len(strokes) : strokes[i].idx < n
Above(strokes, n) == \A i \in 1..Len(strokes) : strokes[i].idx >= n

LEMMA FromType ==
  ASSUME NEW S, NEW sts \in Seq(S), NEW n \in Int
  PROVE  From(sts, n) \in Seq(S)
<1> DEFINE k == Leading(Len(sts), {i \in DOMAIN sts : sts[i].idx < n})
<1>1. k \in 0..Len(sts)
  BY LeadingIs
<1> HIDE DEF k
<1>2. \A i \in k + 1 .. Len(sts) : sts[i] \in S
  BY <1>1
<1>3. SubSeq(sts, k + 1, Len(sts)) \in Seq(S)
  BY <1>1, <1>2, SubSeqProperties
<1> QED
  BY <1>3 DEF From, k

LEMMA FromRising ==
  ASSUME NEW sts \in Seq(Stroke), NEW n \in Int, Rising(sts)
  PROVE  /\ Rising(From(sts, n))
         /\ Above(From(sts, n), n)
         /\ \A i \in 1..Len(From(sts, n)) :
              \E j \in 1..Len(sts) : From(sts, n)[i] = sts[j]
<1> DEFINE good == {i \in DOMAIN sts : sts[i].idx < n}
           k == Leading(Len(sts), good)
           new == SubSeq(sts, k + 1, Len(sts))
<1>1. k \in 0..Len(sts) /\ (k = Len(sts) \/ k + 1 \notin good)
  BY LeadingIs
<1>2. From(sts, n) = new
  BY DEF From
<1>3. k = Len(sts) \/ ~(sts[k + 1].idx < n)
  BY <1>1
<1> HIDE DEF k, good
<1>4. \A i \in k + 1 .. Len(sts) : sts[i] \in Stroke
  BY <1>1
<1>5. /\ Len(new) = Len(sts) - k
      /\ \A i \in 1..Len(sts) - k : new[i] = sts[k + i]
  <2>1. /\ Len(new) = IF k + 1 <= Len(sts) THEN Len(sts) - (k + 1) + 1 ELSE 0
        /\ \A i \in 1 .. Len(sts) - (k + 1) + 1 : new[i] = sts[k + 1 + i - 1]
    BY <1>1, <1>4, SubSeqProperties
  <2> QED
    BY <1>1, <2>1
<1> HIDE DEF new
<1>6. \A i \in 1..Len(new) : k + i \in 1..Len(sts) /\ new[i] = sts[k + i]
  BY <1>1, <1>5
<1>7. \A i \in 1..Len(sts) : sts[i].idx \in Int
  <2>1. \A i \in 1..Len(sts) : sts[i] \in Stroke
    BY ElementOfSeq
  <2> QED
    BY <2>1, StrokeFacts
<1>8. Rising(new)
  BY <1>1, <1>5, <1>6 DEF Rising
<1>9. ASSUME NEW i \in 1..Len(new)
      PROVE  new[i].idx >= n
  <2>1. k + 1 \in 1..Len(sts) /\ ~(sts[k + 1].idx < n) /\ k + i \in 1..Len(sts)
    BY <1>1, <1>3, <1>5
  <2>2. k + 1 = k + i \/ sts[k + 1].idx < sts[k + i].idx
    BY <1>1, <2>1 DEF Rising
  <2> QED
    BY <1>6, <1>7, <2>1, <2>2
<1> QED
  BY <1>2, <1>6, <1>8, <1>9 DEF Above

LEMMA InsertAtType ==
  ASSUME NEW S, NEW s \in Seq(S), NEW i \in 1..Len(s) + 1, NEW e \in S
  PROVE  InsertAt(s, i, e) \in Seq(S)
<1> DEFINE a == SubSeq(s, 1, i - 1)
           b == SubSeq(s, i, Len(s))
<1>1. a \in Seq(S) /\ b \in Seq(S)
  <2>1. /\ \A j \in 1 .. i - 1 : s[j] \in S
        /\ \A j \in i .. Len(s) : s[j] \in S
    OBVIOUS
  <2> QED
    BY <2>1, SubSeqProperties
<1>2. InsertAt(s, i, e) = (a \o <<e>>) \o b
  BY DEF InsertAt
<1> HIDE DEF a, b
<1>3. <<e>> \in Seq(S)
  OBVIOUS
<1>4. a \o <<e>> \in Seq(S)
  BY <1>1, <1>3
<1> QED
  BY <1>1, <1>2, <1>4

LEMMA InsertType ==
  ASSUME NEW S, NEW sts \in Seq(S), NEW st \in S
  PROVE  Insert(sts, st) \in Seq(S)
<1> DEFINE k == Leading(Len(sts), {i \in DOMAIN sts : sts[i].idx <= st.idx})
<1>1. k \in 0..Len(sts)
  BY LeadingIs
<1>2. Insert(sts, st) = InsertAt(sts, k + 1, st)
  BY DEF Insert
<1> HIDE DEF k
<1>3. k + 1 \in 1 .. Len(sts) + 1
  <2>1. Len(sts) \in Nat
    OBVIOUS
  <2> QED
    BY <1>1, <2>1
<1>4. InsertAt(sts, k + 1, st) \in Seq(S)
  BY <1>3, InsertAtType
<1> QED
  BY <1>2, <1>4

\* Strokes numbered m and up and below n, in order.
Between(strokes, m, n) ==
  Rising(strokes) /\ Above(strokes, m) /\ Below(strokes, n)

LEMMA ConcatBetween ==
  ASSUME NEW a \in Seq(Stroke), NEW b \in Seq(Stroke),
         NEW m \in Int, NEW n \in Int, NEW p \in Int, m <= n, n <= p,
         Between(a, m, n), Between(b, n, p)
  PROVE  a \o b \in Seq(Stroke) /\ Between(a \o b, m, p)
<1> DEFINE c == a \o b
<1>1. /\ c \in Seq(Stroke)
      /\ Len(c) = Len(a) + Len(b)
      /\ \A i \in 1..Len(c) : c[i] = IF i <= Len(a) THEN a[i] ELSE b[i - Len(a)]
  BY ConcatProperties
<1> HIDE DEF c
<1>2. Len(a) \in Nat /\ Len(b) \in Nat
  OBVIOUS
<1>3. /\ \A i \in 1..Len(a) : a[i].idx \in Int /\ a[i].idx >= m /\ a[i].idx < n
      /\ \A i \in 1..Len(b) : b[i].idx \in Int /\ b[i].idx >= n /\ b[i].idx < p
  <2>1. /\ \A i \in 1..Len(a) : a[i] \in Stroke
        /\ \A i \in 1..Len(b) : b[i] \in Stroke
    BY ElementOfSeq
  <2> QED
    BY <2>1, StrokeFacts DEF Between, Above, Below
<1>4. ASSUME NEW i \in 1..Len(c)
      PROVE  c[i].idx >= m /\ c[i].idx < p
  <2>1. CASE i <= Len(a)
    <3>1. i \in 1..Len(a) /\ c[i] = a[i]
      BY <1>1, <1>2, <2>1
    <3> QED
      BY <1>3, <3>1
  <2>2. CASE ~(i <= Len(a))
    <3>1. i - Len(a) \in 1..Len(b) /\ c[i] = b[i - Len(a)]
      BY <1>1, <1>2, <2>2
    <3> QED
      BY <1>3, <3>1
  <2> QED
    BY <2>1, <2>2
<1>5. ASSUME NEW i \in 1..Len(c), NEW j \in 1..Len(c), i < j
      PROVE  c[i].idx < c[j].idx
  <2>1. CASE j <= Len(a)
    <3>1. /\ i \in 1..Len(a) /\ j \in 1..Len(a)
          /\ c[i] = a[i] /\ c[j] = a[j]
      BY <1>1, <1>2, <1>5, <2>1
    <3> QED
      BY <1>5, <3>1 DEF Between, Rising
  <2>2. CASE i <= Len(a) /\ ~(j <= Len(a))
    <3>1. /\ i \in 1..Len(a) /\ j - Len(a) \in 1..Len(b)
          /\ c[i] = a[i] /\ c[j] = b[j - Len(a)]
      BY <1>1, <1>2, <1>5, <2>2
    <3>2. c[i].idx \in Int /\ c[j].idx \in Int /\ c[i].idx < n /\ c[j].idx >= n
      BY <1>3, <3>1
    <3> QED
      BY <3>2
  <2>3. CASE ~(i <= Len(a))
    <3>1. /\ i - Len(a) \in 1..Len(b) /\ j - Len(a) \in 1..Len(b)
          /\ i - Len(a) < j - Len(a)
          /\ c[i] = b[i - Len(a)] /\ c[j] = b[j - Len(a)]
      BY <1>1, <1>2, <1>5, <2>3
    <3> QED
      BY <3>1 DEF Between, Rising
  <2> QED
    BY <1>2, <2>1, <2>2, <2>3
<1>6. Between(c, m, p)
  BY <1>4, <1>5 DEF Between, Rising, Above, Below
<1> QED
  BY <1>1, <1>6 DEF c

-----------------------------------------------------------------------------
\* Views, frames and replicas

\* The states the engine is in and sends: a round that was announced has a number, one
\* that is drawn is not full.
Views ==
  {s \in GameView :
     /\ s.status \in {"ROUND_ANNOUNCE", "DRAWING", "VOTING"} => s.round >= 0
     /\ s.status = "DRAWING" => s.count < PerRound
     /\ s.status = "ROUND_ANNOUNCE" => s.count = 0}

Replicas ==
  [view : Views, floor : Floor, pending : Seq(Stroke), inFlight : BOOLEAN]
Working ==
  [view : Views, floor : Floor, pending : Seq(Stroke), inFlight : BOOLEAN,
   out : Seq(Stroke), ask : BOOLEAN]

\* The floor is in the round of the state and not below it.
Bookkept(r) ==
  r.view.round >= 0 => r.floor.round = r.view.round /\ r.floor.idx >= r.view.count

LEMMA ViewFacts ==
  ASSUME NEW s \in Views
  PROVE  /\ s = [round |-> s.round, count |-> s.count, status |-> s.status]
         /\ s.round \in Int /\ s.round >= -1 /\ s.round <= MaxRound
         /\ s.count \in Nat /\ s.count <= PerRound
         /\ s.status \in Phases
         /\ s.status \in {"ROUND_ANNOUNCE", "DRAWING", "VOTING"} => s.round >= 0
         /\ s.status = "DRAWING" => s.count < PerRound
         /\ s.status = "ROUND_ANNOUNCE" => s.count = 0
  BY StrokeFacts DEF Views, GameView

LEMMA FloorFacts ==
  /\ \A w \in Floor : /\ w.idx \in Nat /\ w.idx <= PerRound
                      /\ w.round \in Int /\ w.round >= -1 /\ w.round <= MaxRound
                      /\ w = NoFloor \/ w.round >= 0
                      /\ w = [round |-> w.round, idx |-> w.idx]
  /\ \A k \in 0..MaxRound, n \in 0..PerRound : [round |-> k, idx |-> n] \in Floor
  /\ NoFloor \in Floor /\ NoFloor.round = -1 /\ NoFloor.idx = 0
  BY StrokeFacts DEF Floor, NoFloor

-----------------------------------------------------------------------------
\* The Replica's operators

LEMMA WorkingFacts ==
  ASSUME NEW r \in Working
  PROVE  /\ r.view \in Views /\ r.floor \in Floor /\ r.pending \in Seq(Stroke)
         /\ r.inFlight \in BOOLEAN /\ r.out \in Seq(Stroke) /\ r.ask \in BOOLEAN
         /\ r = [view |-> r.view, floor |-> r.floor, pending |-> r.pending,
                 inFlight |-> r.inFlight, out |-> r.out, ask |-> r.ask]
  BY DEF Working

LEMMA QuietIs ==
  ASSUME NEW r \in Replicas
  PROVE  /\ Quiet(r) \in Working
         /\ Quiet(r).view = r.view /\ Quiet(r).floor = r.floor
         /\ Quiet(r).pending = r.pending /\ Quiet(r).inFlight = r.inFlight
         /\ Quiet(r).out = <<>> /\ Quiet(r).ask = FALSE
<1>1. <<>> \in Seq(Stroke)
  OBVIOUS
<1> QED
  BY <1>1 DEF Quiet, Replicas, Working

LEMMA KeptIs ==
  ASSUME NEW r \in Working
  PROVE  /\ Kept(r) \in Replicas
         /\ Kept(r).view = r.view /\ Kept(r).floor = r.floor
         /\ Kept(r).pending = r.pending /\ Kept(r).inFlight = r.inFlight
  BY DEF Kept, Replicas, Working

\* r's strokes with those handed out on the way to d, which fill the floor's way up.
Delivers(r, d) ==
  \E new \in Seq(Stroke) : /\ d.out = r.out \o new
                           /\ Between(new, r.floor.idx, d.floor.idx)

LEMMA DrainPendingIs ==
  ASSUME NEW r \in Working
  PROVE  LET d == DrainPending(r)
         IN  /\ d \in Working
             /\ d.view = r.view /\ d.inFlight = r.inFlight /\ d.ask = r.ask
             /\ d.floor.round = r.floor.round /\ d.floor.idx >= r.floor.idx
             /\ Delivers(r, d)
             /\ r.pending = <<>> =>
                  d.pending = <<>> /\ d.floor = r.floor /\ d.out = r.out
<1> DEFINE d == DrainPending(r)
<1>1. CASE r.floor = NoFloor
  <2>1. d = r
    BY <1>1 DEF DrainPending
  <2>2. r.out = r.out \o <<>> /\ <<>> \in Seq(Stroke)
    BY WorkingFacts, ConcatEmptySeq
  <2>3. Between(<<>>, r.floor.idx, r.floor.idx)
    BY DEF Between, Rising, Above, Below
  <2>4. r.floor.idx \in Nat
    BY WorkingFacts, FloorFacts
  <2>5. Delivers(r, r)
    BY <2>2, <2>3 DEF Delivers
  <2> HIDE DEF d
  <2>6. /\ d \in Working
        /\ d.view = r.view /\ d.inFlight = r.inFlight /\ d.ask = r.ask
        /\ d.floor.round = r.floor.round /\ d.floor.idx >= r.floor.idx
        /\ Delivers(r, d)
        /\ r.pending = <<>> => d.pending = <<>> /\ d.floor = r.floor /\ d.out = r.out
    BY <2>1, <2>4, <2>5
  <2> QED
    BY <2>6 DEF d
<1>2. CASE r.floor # NoFloor
  <2> DEFINE p == r.pending
             good == {i \in DOMAIN p : p[i].idx = r.floor.idx + i - 1}
             run == Leading(Len(p), good)
             next == r.floor.idx + run
             new == SubSeq(p, 1, run)
             rest == From(p, next)
             out == r.out \o new
             floor == [round |-> r.floor.round, idx |-> next]
  <2>1. /\ p \in Seq(Stroke) /\ r.out \in Seq(Stroke)
        /\ \A i \in 1..Len(p) : p[i] \in Stroke
    BY WorkingFacts
  <2>2. /\ run \in 0..Len(p)
        /\ \A i \in 1..run : i \in good
    BY <2>1, LeadingIs
  <2>3. \A i \in 1..run : i \in 1..Len(p) /\ p[i].idx = r.floor.idx + i - 1
    BY <2>1, <2>2
  <2>4. d = [[r EXCEPT !.out = @ \o new] EXCEPT !.floor.idx = next, !.pending = rest]
    BY <1>2 DEF DrainPending, Deliver
  <2> HIDE DEF good, run
  <2>5. /\ r.floor.idx \in Nat /\ r.floor.idx <= PerRound
        /\ r.floor.round \in 0..MaxRound
        /\ r.floor = [round |-> r.floor.round, idx |-> r.floor.idx]
    BY <1>2, WorkingFacts, FloorFacts, StrokeFacts
  <2>6. next \in 0..PerRound /\ next >= r.floor.idx
    <3>1. CASE run = 0
      BY <2>5, <3>1, StrokeFacts
    <3>2. CASE run # 0
      <4>1. run \in 1..run
        BY <2>2, <3>2
      <4>2. p[run].idx = r.floor.idx + run - 1 /\ p[run] \in Stroke
        BY <2>1, <2>3, <4>1
      <4>3. p[run].idx < PerRound /\ PerRound \in Nat
        BY <4>2, StrokeFacts
      <4>4. run \in Nat
        BY <2>2
      <4> QED
        BY ONLY <2>5, <4>2, <4>3, <4>4 DEF next
    <3> QED
      BY <3>1, <3>2
  <2>7. /\ new \in Seq(Stroke) /\ Len(new) = run
        /\ \A i \in 1..run : new[i] = p[i]
    <3>1. \A i \in 1..run : p[i] \in Stroke
      BY <2>1, <2>3
    <3>2. /\ new \in Seq(Stroke)
          /\ Len(new) = IF 1 <= run THEN run - 1 + 1 ELSE 0
          /\ \A i \in 1..run - 1 + 1 : new[i] = p[1 + i - 1]
      BY <2>2, <3>1, SubSeqProperties
    <3> QED
      BY <2>2, <3>2
  <2>8. rest \in Seq(Stroke)
    <3>1. next \in Int
      BY <2>6, StrokeFacts
    <3> HIDE DEF next
    <3> QED
      BY <2>1, <3>1, FromType
  <2>9. out \in Seq(Stroke)
    BY <2>1, <2>7
  <2>10. floor \in Floor
    BY <2>5, <2>6, FloorFacts
  <2>11. d = [view |-> r.view, floor |-> floor, pending |-> rest,
              inFlight |-> r.inFlight, out |-> out, ask |-> r.ask]
    <3> HIDE DEF next, rest, new
    <3>1. r = [view |-> r.view, floor |-> r.floor, pending |-> r.pending,
               inFlight |-> r.inFlight, out |-> r.out, ask |-> r.ask]
      BY WorkingFacts
    <3>2. [r.floor EXCEPT !.idx = next] = floor
      BY <2>5
    <3> QED
      BY <2>4, <3>1, <3>2
  <2>12. Between(new, r.floor.idx, next)
    <3>1. \A i \in 1..Len(new) : new[i].idx = r.floor.idx + i - 1 /\ i <= run
      BY <2>2, <2>3, <2>7
    <3>2. Len(new) \in Nat
      BY <2>7
    <3> HIDE DEF new
    <3> QED
      BY <2>2, <2>5, <3>1, <3>2 DEF Between, Rising, Above, Below
  <2>13. p = <<>> => run = 0 /\ rest = <<>> /\ out = r.out
    <3>1. ASSUME p = <<>>
          PROVE  run = 0 /\ rest = <<>> /\ out = r.out
      <4>1. run = 0
        BY <2>2, <3>1
      <4>2. Leading(Len(p), {i \in DOMAIN p : p[i].idx < next}) \in 0..0
        BY <3>1, LeadingIs
      <4>3. rest = SubSeq(p, 1, 0)
        BY <3>1, <4>2 DEF From
      <4>4. new = <<>>
        BY <2>7, <4>1
      <4>5. out = r.out
        <5> HIDE DEF new
        <5> QED
          BY <2>1, <4>4, ConcatEmptySeq
      <4> QED
        BY <4>1, <4>3, <4>5, SubSeqEmpty
    <3> QED
      BY <3>1
  <2> HIDE DEF d, new, rest, out, floor, next
  <2>14. d \in Working
    BY <2>8, <2>9, <2>10, <2>11, WorkingFacts DEF Working
  <2>15. Delivers(r, d)
    BY <2>7, <2>11, <2>12 DEF Delivers, out, floor
  <2>16. p = <<>> => d.pending = <<>> /\ d.floor = r.floor /\ d.out = r.out
    BY <2>5, <2>11, <2>13 DEF floor, next
  <2>17. d.floor.round = r.floor.round /\ d.floor.idx >= r.floor.idx
    BY <2>6, <2>11 DEF floor
  <2>18. d.view = r.view /\ d.inFlight = r.inFlight /\ d.ask = r.ask
    BY <2>11
  <2> QED
    BY <2>14, <2>15, <2>16, <2>17, <2>18 DEF d
<1> QED
  BY <1>1, <1>2

LEMMA ApplyStateIs ==
  ASSUME NEW r \in Working, NEW s \in Views
  PROVE  LET a == ApplyState(r, s)
         IN  /\ a \in Working /\ a.view = s /\ Bookkept(a)
             /\ a.out = r.out /\ a.inFlight = r.inFlight /\ a.ask = r.ask
             /\ s.round < 0 => a.floor = NoFloor /\ a.pending = <<>>
             /\ s.round >= 0 /\ r.floor.round = s.round =>
                  a.floor.idx = IF s.count > r.floor.idx THEN s.count ELSE r.floor.idx
             /\ s.round >= 0 /\ r.floor.round # s.round => a.floor.idx = s.count
             /\ r.pending = <<>> => a.pending = <<>>
             /\ s.round >= 0 /\ r.floor.round # s.round => a.pending = <<>>
<1> DEFINE a == ApplyState(r, s)
           moved == s.round # r.floor.round
           floor == IF s.round < 0 THEN NoFloor
                    ELSE IF moved \/ s.count > r.floor.idx
                         THEN [round |-> s.round, idx |-> s.count]
                         ELSE r.floor
           rest == IF moved \/ s.round < 0 THEN <<>> ELSE r.pending
<1>1. a = [view |-> s, floor |-> floor, pending |-> rest, inFlight |-> r.inFlight,
           out |-> r.out, ask |-> r.ask]
  <2>1. a = [r EXCEPT !.view = s, !.floor = floor, !.pending = rest]
    BY DEF ApplyState
  <2>2. r = [view |-> r.view, floor |-> r.floor, pending |-> r.pending,
             inFlight |-> r.inFlight, out |-> r.out, ask |-> r.ask]
    BY WorkingFacts
  <2> HIDE DEF a, floor, rest
  <2> QED
    BY <2>1, <2>2
<1>2. /\ r.floor \in Floor /\ r.pending \in Seq(Stroke)
      /\ s.round \in Int /\ s.round >= -1 /\ s.round <= MaxRound
      /\ s.count \in Nat /\ s.count <= PerRound
  BY WorkingFacts, ViewFacts
<1>3. floor \in Floor
  <2>1. s.round >= 0 => s.round \in 0..MaxRound /\ s.count \in 0..PerRound
    BY <1>2
  <2> QED
    BY <1>2, <2>1, FloorFacts
<1>4. rest \in Seq(Stroke)
  BY <1>2
<1>5. /\ s.round < 0 => floor = NoFloor
      /\ s.round >= 0 => floor.round = s.round /\ floor.idx >= s.count
      /\ s.round >= 0 /\ r.floor.round = s.round =>
           floor.idx = IF s.count > r.floor.idx THEN s.count ELSE r.floor.idx
      /\ s.round >= 0 /\ r.floor.round # s.round => floor.idx = s.count
  BY <1>2, FloorFacts
<1>6. /\ r.pending = <<>> => rest = <<>>
      /\ s.round < 0 => rest = <<>>
      /\ s.round >= 0 /\ r.floor.round # s.round => rest = <<>>
  OBVIOUS
<1> HIDE DEF a, floor, rest
<1>7. a \in Working
  BY <1>1, <1>3, <1>4, WorkingFacts DEF Working
<1>8. Bookkept(a)
  BY <1>1, <1>5 DEF Bookkept
<1> QED
  BY <1>1, <1>5, <1>6, <1>7, <1>8 DEF a

LEMMA KnownRoundIs ==
  ASSUME NEW r \in Working
  PROVE  KnownRound(r) \in 0..MaxRound
  BY WorkingFacts, ViewFacts, FloorFacts, StrokeFacts DEF KnownRound

LEMMA OneStroke ==
  ASSUME NEW st \in Stroke
  PROVE  /\ <<st>> \in Seq(Stroke)
         /\ Between(<<st>>, st.idx, st.idx + 1)
<1>1. Len(<<st>>) = 1 /\ \A i \in 1..1 : i = 1 /\ <<st>>[i] = st
  OBVIOUS
<1>2. \A i \in 1..1, j \in 1..1 : ~(i < j)
  OBVIOUS
<1> QED
  BY <1>1, <1>2, StrokeFacts DEF Between, Rising, Above, Below

LEMMA ApplyStrokeIs ==
  ASSUME NEW r \in Working, NEW st \in Stroke, r.out = <<>>, r.ask = FALSE, Bookkept(r)
  PROVE  LET a == ApplyStroke(r, st)
         IN  /\ a \in Working /\ a.view = r.view /\ Bookkept(a)
             /\ a.floor.idx >= r.floor.idx
             /\ Between(a.out, r.floor.idx, a.floor.idx)
             /\ a.ask => ~r.inFlight /\ a.inFlight
             /\ ~a.ask => a.inFlight = r.inFlight
             /\ r.view.round >= 0 /\ st.idx = r.floor.idx /\ r.pending = <<>> =>
                  /\ a.floor.idx = st.idx + 1 /\ a.out = <<st>> /\ a.pending = <<>>
                  /\ ~a.ask
<1> DEFINE a == ApplyStroke(r, st)
           round == KnownRound(r)
           q == IF r.floor = NoFloor THEN [r EXCEPT !.floor = [round |-> round, idx |-> 0]]
                ELSE r
<1>1. round \in 0..MaxRound /\ r.floor \in Floor
  BY KnownRoundIs, WorkingFacts
<1>2. [round |-> round, idx |-> 0] \in Floor
  BY <1>1, FloorFacts, StrokeFacts
<1>3. q = [view |-> r.view, floor |-> q.floor, pending |-> r.pending,
           inFlight |-> r.inFlight, out |-> <<>>, ask |-> FALSE]
  <2>1. r = [view |-> r.view, floor |-> r.floor, pending |-> r.pending,
             inFlight |-> r.inFlight, out |-> <<>>, ask |-> FALSE]
    BY WorkingFacts
  <2>2. CASE r.floor = NoFloor
    <3>1. q = [r EXCEPT !.floor = [round |-> round, idx |-> 0]]
      BY <2>2
    <3> HIDE DEF q, round
    <3> QED
      BY <2>1, <3>1
  <2>3. CASE r.floor # NoFloor
    <3>1. q = r
      BY <2>3
    <3> HIDE DEF q
    <3> QED
      BY <2>1, <3>1
  <2> QED
    BY <2>2, <2>3
<1>4. /\ q.floor \in Floor /\ q.floor.idx = r.floor.idx
      /\ q.floor # NoFloor
      /\ r.view.round >= 0 => q.floor = r.floor /\ round = r.floor.round
  <2>1. CASE r.floor = NoFloor
    <3>1. q.floor = [round |-> round, idx |-> 0]
      BY <1>3, <2>1, WorkingFacts
    <3>2. round # -1
      BY <1>1, StrokeFacts
    <3>3. ~(r.view.round >= 0)
      BY <2>1, FloorFacts DEF Bookkept
    <3> QED
      BY <1>2, <2>1, <3>1, <3>2, <3>3, FloorFacts
  <2>2. CASE r.floor # NoFloor
    <3>1. q = r
      BY <2>2
    <3> QED
      BY <1>1, <2>2, <3>1 DEF KnownRound, Bookkept
  <2> QED
    BY <2>1, <2>2
<1>5. a = IF round # q.floor.round \/ st.idx < q.floor.idx THEN q
          ELSE IF st.idx = q.floor.idx
               THEN DrainPending([Deliver(q, <<st>>) EXCEPT !.floor.idx = @ + 1])
               ELSE [q EXCEPT !.pending = Insert(@, st), !.ask = ~q.inFlight, !.inFlight = TRUE]
  BY DEF ApplyStroke
<1> HIDE DEF q, a, round
<1>6. q \in Working /\ r.view \in Views /\ r.inFlight \in BOOLEAN
  <2>1. <<>> \in Seq(Stroke)
    OBVIOUS
  <2> QED
    BY <1>3, <1>4, <2>1, WorkingFacts DEF Working
<1>7. Bookkept(q)
  BY <1>3, <1>4 DEF Bookkept
<1>8. Between(<<>>, r.floor.idx, r.floor.idx)
  BY DEF Between, Rising, Above, Below
<1>9. r.floor.idx \in Nat /\ st.idx \in Nat /\ st.idx < PerRound /\ PerRound \in Nat
  BY <1>1, FloorFacts, StrokeFacts
<1>13. /\ q.view = r.view /\ q.pending = r.pending /\ q.inFlight = r.inFlight
       /\ q.out = <<>> /\ q.ask = FALSE
  BY <1>3
<1>14. q = [view |-> q.view, floor |-> q.floor, pending |-> q.pending,
            inFlight |-> q.inFlight, out |-> q.out, ask |-> q.ask]
  BY <1>6, WorkingFacts
<1>10. CASE round # q.floor.round \/ st.idx < q.floor.idx
  <2>1. a = q
    BY <1>5, <1>10
  <2>2. ~(r.view.round >= 0 /\ st.idx = r.floor.idx)
    BY <1>4, <1>9, <1>10
  <2>3. a.view = r.view /\ a.out = <<>> /\ a.ask = FALSE /\ a.inFlight = r.inFlight
    BY <1>3, <2>1
  <2>4. a.floor.idx = r.floor.idx /\ a \in Working /\ Bookkept(a)
    BY <1>4, <1>6, <1>7, <2>1
  <2> QED
    BY <1>8, <1>9, <2>2, <2>3, <2>4 DEF a
<1>11. CASE ~(round # q.floor.round \/ st.idx < q.floor.idx) /\ st.idx = q.floor.idx
  <2> DEFINE w == [Deliver(q, <<st>>) EXCEPT !.floor.idx = @ + 1]
             d == DrainPending(w)
             floor == [round |-> q.floor.round, idx |-> st.idx + 1]
  <2>1. a = d
    BY <1>5, <1>11
  <2>2. <<>> \o <<st>> = <<st>>
    BY OneStroke, ConcatEmptySeq
  <2>3. w = [view |-> q.view, floor |-> floor, pending |-> q.pending,
             inFlight |-> q.inFlight, out |-> <<st>>, ask |-> q.ask]
    <3>1. Deliver(q, <<st>>) = [view |-> q.view, floor |-> q.floor, pending |-> q.pending,
                                inFlight |-> q.inFlight, out |-> <<st>>, ask |-> q.ask]
      BY <1>13, <1>14, <2>2 DEF Deliver
    <3>2. q.floor = [round |-> q.floor.round, idx |-> q.floor.idx]
      BY <1>4, FloorFacts
    <3>3. w = [Deliver(q, <<st>>) EXCEPT !.floor = [q.floor EXCEPT !.idx = q.floor.idx + 1]]
      BY <3>1
    <3>4. [q.floor EXCEPT !.idx = q.floor.idx + 1] = floor
      BY <1>11, <3>2
    <3> HIDE DEF w, floor
    <3> QED
      BY <3>1, <3>3, <3>4
  <2>4. floor \in Floor
    <3>1. q.floor.round \in 0..MaxRound /\ st.idx + 1 \in 0..PerRound
      BY <1>1, <1>9, <1>11
    <3> QED
      BY <3>1, FloorFacts
  <2>5. floor.idx = st.idx + 1 /\ floor.round = q.floor.round
    OBVIOUS
  <2> HIDE DEF w, d, floor
  <2>6. w \in Working
    BY <1>6, <2>3, <2>4, OneStroke, WorkingFacts DEF Working
  <2>7. /\ d \in Working
        /\ d.view = w.view /\ d.inFlight = w.inFlight /\ d.ask = w.ask
        /\ d.floor.round = w.floor.round /\ d.floor.idx >= w.floor.idx
        /\ Delivers(w, d)
        /\ w.pending = <<>> => d.pending = <<>> /\ d.floor = w.floor /\ d.out = w.out
    BY <2>6, DrainPendingIs DEF d
  <2>8. /\ w.out = <<st>> /\ w.floor.idx = st.idx + 1 /\ w.floor.round = q.floor.round
        /\ w.view = r.view /\ w.inFlight = r.inFlight /\ w.ask = FALSE
        /\ w.pending = r.pending
    BY <1>13, <2>3, <2>5
  <2>9. d.floor.idx \in Int
    BY <2>7, WorkingFacts, FloorFacts
  <2>10. PICK new \in Seq(Stroke) : /\ d.out = <<st>> \o new
                                    /\ Between(new, st.idx + 1, d.floor.idx)
    BY <2>7, <2>8 DEF Delivers
  <2>11. Between(d.out, st.idx, d.floor.idx)
    <3>1. /\ st.idx \in Int /\ st.idx + 1 \in Int /\ st.idx <= st.idx + 1
          /\ st.idx + 1 <= d.floor.idx
      BY <1>9, <2>7, <2>8
    <3>2. Between(<<st>>, st.idx, st.idx + 1) /\ <<st>> \in Seq(Stroke)
      BY OneStroke
    <3>3. Between(<<st>> \o new, st.idx, d.floor.idx)
      BY ONLY <2>9, <2>10, <3>1, <3>2, ConcatBetween
    <3> QED
      BY <2>10, <3>3
  <2>12. Bookkept(d)
    BY <1>4, <1>7, <1>9, <1>11, <2>7, <2>8, <2>9, ViewFacts, <1>3, <1>6 DEF Bookkept
  <2>13. ASSUME r.pending = <<>>
         PROVE  d.floor.idx = st.idx + 1 /\ d.out = <<st>> /\ d.pending = <<>>
    BY <2>7, <2>8, <2>13
  <2>14. q.floor.idx = r.floor.idx /\ d.floor.idx >= r.floor.idx
    BY <1>4, <1>9, <1>11, <2>7, <2>8, <2>9
  <2> QED
    BY <1>6, <1>11, <2>1, <2>7, <2>8, <2>11, <2>12, <2>13, <2>14 DEF a
<1>12. CASE ~(round # q.floor.round \/ st.idx < q.floor.idx) /\ st.idx # q.floor.idx
  <2>1. a = [view |-> r.view, floor |-> q.floor, pending |-> Insert(r.pending, st),
             inFlight |-> TRUE, out |-> <<>>, ask |-> ~r.inFlight]
    <3>1. a = [q EXCEPT !.pending = Insert(q.pending, st), !.ask = ~q.inFlight,
                        !.inFlight = TRUE]
      BY <1>5, <1>12
    <3> QED
      BY <1>13, <1>14, <3>1
  <2>2. Insert(r.pending, st) \in Seq(Stroke)
    BY InsertType, WorkingFacts
  <2>3. <<>> \in Seq(Stroke) /\ TRUE \in BOOLEAN /\ (~r.inFlight) \in BOOLEAN
    OBVIOUS
  <2>4. a \in Working
    BY <1>4, <1>6, <2>1, <2>2, <2>3 DEF Working
  <2>5. /\ a.view = r.view /\ a.floor = q.floor /\ a.out = <<>>
        /\ (a.ask <=> ~r.inFlight) /\ a.inFlight = TRUE
    BY <2>1
  <2>6. Bookkept(a)
    BY <1>3, <1>7, <2>5 DEF Bookkept
  <2>7. /\ a.ask => ~r.inFlight
        /\ ~a.ask => r.inFlight = TRUE
    BY <1>6, <2>5
  <2>8. st.idx # r.floor.idx
    BY <1>4, <1>12
  <2>9. /\ a.floor.idx = r.floor.idx /\ a.floor.idx >= r.floor.idx
        /\ Between(a.out, r.floor.idx, a.floor.idx)
    BY <1>4, <1>8, <1>9, <2>5
  <2>10. a.ask => ~r.inFlight /\ a.inFlight
    BY <2>5, <2>7
  <2>11. ~a.ask => a.inFlight = r.inFlight
    BY <2>5, <2>7
  <2> QED
    BY <2>4, <2>5, <2>6, <2>8, <2>9, <2>10, <2>11 DEF a
<1> QED
  BY <1>10, <1>11, <1>12

LEMMA BetweenWider ==
  ASSUME NEW sts \in Seq(Stroke), NEW m \in Int, NEW n \in Int, NEW p \in Int,
         m <= n, Between(sts, n, p)
  PROVE  Between(sts, m, p)
<1>1. \A i \in 1..Len(sts) : sts[i] \in Stroke
  BY ElementOfSeq
<1> QED
  BY <1>1, StrokeFacts DEF Between, Above

LEMMA SyncEnds ==
  ASSUME NEW z, NEW v,
         z = [view |-> z.view, floor |-> z.floor, pending |-> z.pending,
              inFlight |-> z.inFlight, out |-> z.out, ask |-> z.ask]
  PROVE  [z EXCEPT !.inFlight = v] =
           [view |-> z.view, floor |-> z.floor, pending |-> z.pending,
            inFlight |-> v, out |-> z.out, ask |-> z.ask]
<1>1. DOMAIN z = {"view", "floor", "pending", "inFlight", "out", "ask"}
  OBVIOUS
<1> QED
  BY <1>1

LEMMA ApplySyncResIs ==
  ASSUME NEW r \in Working, NEW s \in Views, NEW sts \in Seq(Stroke),
         Rising(sts), r.out = <<>>, r.ask = FALSE
  PROVE  LET a == ApplySyncRes(r, s, sts)
         IN  /\ a \in Working /\ a.view = s /\ Bookkept(a)
             /\ ~a.inFlight /\ ~a.ask
             /\ Rising(a.out)
             /\ s.round >= 0 => Below(a.out, a.floor.idx)
             /\ s.round >= 0 /\ r.floor.round = s.round => a.floor.idx >= r.floor.idx
             /\ r.floor.round = s.round \/ Above(sts, r.floor.idx) =>
                  Above(a.out, r.floor.idx)
<1> DEFINE a == ApplySyncRes(r, s, sts)
           round == IF s.round >= 0 THEN s.round
                    ELSE IF r.floor # NoFloor THEN r.floor.round ELSE 0
           q == IF r.floor.round # round
                THEN [r EXCEPT !.floor = [round |-> round, idx |-> 0], !.pending = <<>>]
                ELSE r
           new == From(sts, q.floor.idx)
           next == IF new = <<>> THEN q.floor.idx ELSE Last(new).idx + 1
           x == [Deliver(q, new) EXCEPT !.floor.idx = next]
           met == DrainPending(x)
           z == ApplyState(met, s)
           y == [z EXCEPT !.inFlight = FALSE]
<1>1. a = DrainPending(y)
  BY DEF ApplySyncRes
<1>2. /\ r.floor \in Floor /\ r.pending \in Seq(Stroke) /\ <<>> \in Seq(Stroke)
      /\ r.view \in Views
  BY WorkingFacts
<1>3. /\ round \in 0..MaxRound
      /\ s.round >= 0 => round = s.round
      /\ r.floor.round = s.round /\ round # r.floor.round => r.floor.idx = 0
  <2>1. s.round \in Int /\ s.round >= -1 /\ s.round <= MaxRound
    BY ViewFacts
  <2> QED
    BY <1>2, <2>1, FloorFacts, StrokeFacts
<1>4. [round |-> round, idx |-> 0] \in Floor
  BY <1>3, FloorFacts, StrokeFacts
<1>5. /\ q \in Working /\ q.out = <<>> /\ q.ask = FALSE
      /\ q.floor.round = round
      /\ round = r.floor.round => q = r
      /\ round # r.floor.round => q.floor.idx = 0 /\ q.pending = <<>>
  <2>1. CASE r.floor.round # round
    <3>1. q = [r EXCEPT !.floor = [round |-> round, idx |-> 0], !.pending = <<>>]
      BY <2>1
    <3>4. r = [view |-> r.view, floor |-> r.floor, pending |-> r.pending,
               inFlight |-> r.inFlight, out |-> r.out, ask |-> r.ask]
      BY WorkingFacts
    <3> HIDE DEF q, round
    <3>2. q = [view |-> r.view, floor |-> [round |-> round, idx |-> 0], pending |-> <<>>,
               inFlight |-> r.inFlight, out |-> r.out, ask |-> r.ask]
      BY <3>1, <3>4
    <3>3. q \in Working
      BY <1>2, <1>4, <3>2, WorkingFacts DEF Working
    <3> QED
      BY <2>1, <3>2, <3>3
  <2>2. CASE r.floor.round = round
    BY <2>2
  <2> QED
    BY <2>1, <2>2
<1> HIDE DEF q, round
<1>6. q.floor \in Floor /\ q.floor.idx \in Nat /\ q.floor.idx <= PerRound /\ q.floor # NoFloor
  BY <1>3, <1>5, WorkingFacts, FloorFacts, StrokeFacts
<1>7. /\ new \in Seq(Stroke) /\ Rising(new) /\ Above(new, q.floor.idx)
      /\ \A i \in 1..Len(new) : \E j \in 1..Len(sts) : new[i] = sts[j]
  <2>1. q.floor.idx \in Int
    BY <1>6
  <2>2. new \in Seq(Stroke)
    BY <2>1, FromType
  <2> QED
    BY <2>1, <2>2, FromRising
<1> HIDE DEF new
<1>8. next \in 0..PerRound /\ next >= q.floor.idx /\ Between(new, q.floor.idx, next)
  <2>1. CASE new = <<>>
    BY <1>6, <1>7, <2>1, StrokeFacts DEF Between, Below
  <2>2. CASE new # <<>>
    <3>1. /\ Len(new) \in Nat /\ Len(new) # 0 /\ Len(new) \in 1..Len(new)
          /\ \A i \in 1..Len(new) : new[i] \in Stroke
      BY <1>7, <2>2
    <3>2. next = new[Len(new)].idx + 1
      BY <2>2 DEF Last
    <3>3. new[Len(new)].idx \in Nat /\ new[Len(new)].idx < PerRound
      BY <3>1, StrokeFacts
    <3>4. new[Len(new)].idx >= q.floor.idx
      BY <1>7, <3>1 DEF Above
    <3> HIDE DEF next
    <3>5. next \in 0..PerRound /\ next >= q.floor.idx
      BY <1>6, <3>2, <3>3, <3>4, StrokeFacts
    <3>6. ASSUME NEW i \in 1..Len(new)
          PROVE  new[i].idx < next
      <4>1. new[i].idx \in Int
        BY <3>1, StrokeFacts
      <4>2. i = Len(new) \/ new[i].idx < new[Len(new)].idx
        BY <1>7, <3>1 DEF Rising
      <4> QED
        BY <3>2, <3>3, <4>1, <4>2
    <3> QED
      BY <1>7, <3>5, <3>6 DEF Between, Below
  <2> QED
    BY <2>1, <2>2
<1> HIDE DEF next
<1>9. /\ x \in Working /\ x.out = new /\ x.floor.idx = next /\ x.floor.round = round
      /\ x.ask = FALSE /\ x.pending = q.pending
  <2> DEFINE floor == [round |-> q.floor.round, idx |-> next]
  <2>1. q = [view |-> q.view, floor |-> q.floor, pending |-> q.pending,
             inFlight |-> q.inFlight, out |-> q.out, ask |-> q.ask]
    BY <1>5, WorkingFacts
  <2>2. q.out \o new = new
    BY <1>5, <1>7, ConcatEmptySeq
  <2>3. Deliver(q, new) = [view |-> q.view, floor |-> q.floor, pending |-> q.pending,
                           inFlight |-> q.inFlight, out |-> new, ask |-> q.ask]
    BY <2>1, <2>2 DEF Deliver
  <2>4. x = [Deliver(q, new) EXCEPT !.floor = [q.floor EXCEPT !.idx = next]]
    BY <2>3
  <2>5. [q.floor EXCEPT !.idx = next] = floor
    BY <1>6, FloorFacts
  <2> HIDE DEF x
  <2>6. x = [view |-> q.view, floor |-> floor, pending |-> q.pending,
             inFlight |-> q.inFlight, out |-> new, ask |-> q.ask]
    BY <2>3, <2>4, <2>5
  <2>7. floor \in Floor
    BY <1>3, <1>5, <1>8, FloorFacts
  <2>8. x \in Working
    BY <1>5, <1>7, <2>6, <2>7, WorkingFacts DEF Working
  <2> QED
    BY <1>5, <2>6, <2>8
<1> HIDE DEF x
<1>10. /\ met \in Working
       /\ met.ask = x.ask
       /\ met.floor.round = x.floor.round /\ met.floor.idx >= x.floor.idx
       /\ Delivers(x, met)
       /\ x.pending = <<>> => met.pending = <<>> /\ met.floor = x.floor /\ met.out = x.out
  BY <1>9, DrainPendingIs
<1> HIDE DEF met
<1>11. met.floor.idx \in Int /\ next \in Int /\ q.floor.idx \in Int
  BY <1>6, <1>8, <1>10, WorkingFacts, FloorFacts, StrokeFacts
<1>12. met.out \in Seq(Stroke) /\ Between(met.out, q.floor.idx, met.floor.idx)
  <2>1. PICK more \in Seq(Stroke) : /\ met.out = new \o more
                                    /\ Between(more, next, met.floor.idx)
    BY <1>9, <1>10 DEF Delivers
  <2>2. q.floor.idx <= next /\ next <= met.floor.idx
    BY <1>6, <1>8, <1>9, <1>10, <1>11
  <2> QED
    BY ONLY <1>7, <1>8, <1>11, <2>1, <2>2, ConcatBetween
<1>13. /\ z \in Working /\ z.view = s /\ Bookkept(z)
       /\ z.out = met.out /\ z.ask = met.ask
       /\ s.round < 0 => z.floor = NoFloor /\ z.pending = <<>>
       /\ s.round >= 0 => z.floor.idx >= met.floor.idx
       /\ met.pending = <<>> => z.pending = <<>>
  <2>1. /\ z \in Working /\ z.view = s /\ Bookkept(z)
        /\ z.out = met.out /\ z.inFlight = met.inFlight /\ z.ask = met.ask
        /\ s.round < 0 => z.floor = NoFloor /\ z.pending = <<>>
        /\ s.round >= 0 /\ met.floor.round = s.round =>
             z.floor.idx = IF s.count > met.floor.idx THEN s.count ELSE met.floor.idx
        /\ met.pending = <<>> => z.pending = <<>>
    BY <1>10, ApplyStateIs
  <2> HIDE DEF z
  <2>2. s.round >= 0 => met.floor.round = s.round
    BY <1>3, <1>9, <1>10
  <2>3. s.count \in Nat
    BY ViewFacts
  <2>4. s.round >= 0 => z.floor.idx >= met.floor.idx
    BY <1>11, <2>1, <2>2, <2>3
  <2> QED
    BY <2>1, <2>4
<1> HIDE DEF z
<1>14. /\ y \in Working /\ y.view = s /\ Bookkept(y) /\ ~y.inFlight
       /\ y.out = met.out /\ y.ask = FALSE /\ y.floor = z.floor /\ y.pending = z.pending
  <2>6. z = [view |-> z.view, floor |-> z.floor, pending |-> z.pending,
             inFlight |-> z.inFlight, out |-> z.out, ask |-> z.ask]
    BY <1>13, WorkingFacts
  <2>1. y = [view |-> z.view, floor |-> z.floor, pending |-> z.pending,
             inFlight |-> FALSE, out |-> z.out, ask |-> z.ask]
    BY <2>6, SyncEnds
  <2> HIDE DEF y
  <2>2. FALSE \in BOOLEAN
    OBVIOUS
  <2>3. y \in Working
    BY <1>13, <2>1, <2>2, WorkingFacts DEF Working
  <2>4. z.ask = FALSE
    BY <1>9, <1>10, <1>13
  <2>5. Bookkept(y)
    BY <1>13, <2>1 DEF Bookkept
  <2> QED
    BY <1>13, <2>1, <2>3, <2>4, <2>5
<1> HIDE DEF y
<1>15. /\ a \in Working /\ a.view = y.view /\ a.inFlight = y.inFlight /\ a.ask = y.ask
       /\ a.floor.round = y.floor.round /\ a.floor.idx >= y.floor.idx
       /\ Delivers(y, a)
       /\ y.pending = <<>> => a.pending = <<>> /\ a.floor = y.floor /\ a.out = y.out
  BY <1>1, <1>14, DrainPendingIs
<1> HIDE DEF a
<1>16. a.floor.idx \in Int /\ y.floor.idx \in Int
  BY <1>14, <1>15, WorkingFacts, FloorFacts
<1>17. Bookkept(a)
  <2>1. s.count \in Int
    BY ViewFacts
  <2> QED
    BY <1>14, <1>15, <1>16, <2>1 DEF Bookkept
<1>18. /\ Rising(a.out) /\ Above(a.out, q.floor.idx)
       /\ s.round >= 0 => Below(a.out, a.floor.idx)
  <2>1. CASE s.round >= 0
    <3>1. PICK more \in Seq(Stroke) : /\ a.out = met.out \o more
                                      /\ Between(more, y.floor.idx, a.floor.idx)
      BY <1>14, <1>15 DEF Delivers
    <3>2. met.floor.idx <= y.floor.idx /\ y.floor.idx <= a.floor.idx
      BY <1>11, <1>13, <1>14, <1>15, <1>16, <2>1
    <3>3. Between(more, met.floor.idx, a.floor.idx)
      BY ONLY <1>11, <1>16, <3>1, <3>2, BetweenWider
    <3>4. met.floor.idx <= a.floor.idx /\ q.floor.idx <= met.floor.idx
      BY <1>6, <1>8, <1>9, <1>10, <1>11, <1>16, <3>2
    <3>5. Between(a.out, q.floor.idx, a.floor.idx)
      BY ONLY <1>11, <1>12, <1>16, <3>1, <3>3, <3>4, ConcatBetween
    <3> QED
      BY <3>5 DEF Between
  <2>2. CASE ~(s.round >= 0)
    <3>1. a.out = met.out
      BY <1>13, <1>14, <1>15, <2>2, ViewFacts
    <3> QED
      BY <1>12, <2>2, <3>1 DEF Between
  <2> QED
    BY <2>1, <2>2
<1>19. ASSUME r.floor.round = s.round \/ Above(sts, r.floor.idx)
       PROVE  Above(a.out, r.floor.idx)
  <2>1. CASE round = r.floor.round
    BY <1>5, <1>18, <2>1
  <2>2. CASE round # r.floor.round
    <3>1. a.out = new
      BY <1>5, <1>9, <1>10, <1>13, <1>14, <1>15, <2>2
    <3>2. CASE Above(sts, r.floor.idx)
      BY <1>7, <3>1, <3>2 DEF Above
    <3>3. CASE r.floor.round = s.round
      <4>1. r.floor.idx = 0 /\ q.floor.idx = 0
        BY <1>3, <1>5, <2>2, <3>3
      <4> QED
        BY <1>18, <4>1
    <3> QED
      BY <1>19, <3>2, <3>3
  <2> QED
    BY <2>1, <2>2
<1>20. ASSUME s.round >= 0, r.floor.round = s.round
       PROVE  a.floor.idx >= r.floor.idx
  <2>1. q.floor.idx = r.floor.idx
    BY <1>3, <1>5, <1>20
  <2>2. x.floor.idx >= q.floor.idx /\ met.floor.idx >= x.floor.idx
    BY <1>8, <1>9, <1>10
  <2>3. y.floor.idx >= met.floor.idx /\ a.floor.idx >= y.floor.idx
    BY <1>13, <1>14, <1>15, <1>20
  <2>4. x.floor.idx \in Int
    BY <1>9, <1>11
  <2> QED
    BY ONLY <1>11, <1>16, <2>1, <2>2, <2>3, <2>4
<1> QED
  BY <1>14, <1>15, <1>17, <1>18, <1>19, <1>20 DEF a

-----------------------------------------------------------------------------
\* The types

Slices == {sts \in Seq(Stroke) : Rising(sts)}

\* What the paths to the page carry.
Frames ==
  [t : {"STATE_UPDATE"}, state : Views]
    \cup [t : {"STROKE_ADDED"}, stroke : Stroke]
    \cup [t : {"SYNC_RES"}, state : Views, strokes : Slices]

TypeInv ==
  /\ host \in Views
  /\ asked \in 0 .. MaxRound + 1 /\ draws \in 0 .. MaxDraws
  /\ log \in [0 .. MaxRound -> 0 .. PerRound]
  /\ member \in BOOLEAN /\ hostEnd \in BOOLEAN /\ relayed \in BOOLEAN
  /\ reads \in Seq(Slices)
  /\ channel \in Seq(Frames) /\ relay \in Seq(Frames)
  /\ requests \in [dc : Seq(Request), relay : Seq({Joining})]
  /\ path \in {"none", "relay", "dc"}
  /\ replica \in Replicas /\ Bookkept(replica)
  /\ shown \in Views
  /\ canvas \in Seq(Stroke)
  /\ settled \in BOOLEAN
  /\ losses \in 0 .. MaxLosses /\ reloads \in 0 .. MaxReloads

LEMMA FrameFacts ==
  ASSUME NEW f \in Frames
  PROVE  /\ f.t \in {"STATE_UPDATE", "STROKE_ADDED", "SYNC_RES"}
         /\ f.t = "STATE_UPDATE" => f.state \in Views
         /\ f.t = "STROKE_ADDED" => f.stroke \in Stroke
         /\ f.t = "SYNC_RES" => /\ f.state \in Views /\ f.strokes \in Seq(Stroke)
                                /\ Rising(f.strokes)
  BY DEF Frames, Slices

LEMMA FramesAre ==
  /\ \A s \in Views : /\ StateUpdate(s) \in Frames
                      /\ StateUpdate(s).t = "STATE_UPDATE" /\ StateUpdate(s).state = s
  /\ \A st \in Stroke : /\ StrokeAdded(st) \in Frames
                        /\ StrokeAdded(st).t = "STROKE_ADDED" /\ StrokeAdded(st).stroke = st
  /\ \A s \in Views, sts \in Slices :
       /\ SyncRes(s, sts) \in Frames
       /\ SyncRes(s, sts).t = "SYNC_RES" /\ SyncRes(s, sts).state = s
       /\ SyncRes(s, sts).strokes = sts
  BY DEF Frames, StateUpdate, StrokeAdded, SyncRes

LEMMA SliceIs ==
  ASSUME NEW round \in 0..MaxRound, NEW from \in 0..PerRound, NEW upto \in 0..PerRound
  PROVE  LET s == Slice(round, from, upto)
         IN  /\ s \in Slices /\ s \in Seq(Stroke) /\ Rising(s)
             /\ Len(s) = IF upto > from THEN upto - from ELSE 0
             /\ \A i \in 1..Len(s) : s[i] = [round |-> round, idx |-> from + i - 1]
             /\ Between(s, from, upto)
<1> DEFINE n == IF upto > from THEN upto - from ELSE 0
           s == Slice(round, from, upto)
<1>1. n \in Nat /\ from \in Nat /\ upto \in Nat
  BY StrokeFacts
<1>2. s = [i \in 1..n |-> [round |-> round, idx |-> from + i - 1]]
  BY DEF Slice
<1>3. \A i \in 1..n : /\ from + i - 1 \in 0..PerRound - 1
                      /\ from + i - 1 >= from /\ from + i - 1 < upto
  BY <1>1, StrokeFacts
<1>4. \A i \in 1..n : [round |-> round, idx |-> from + i - 1] \in Stroke
  BY <1>3 DEF Stroke
<1> HIDE DEF s
<1>5. s \in Seq(Stroke) /\ Len(s) = n /\ \A i \in 1..n : s[i] = [round |-> round, idx |-> from + i - 1]
  <2> HIDE DEF n
  <2>1. s \in [1..n -> Stroke] /\ DOMAIN s = 1..n
    BY <1>2, <1>4
  <2>2. s \in Seq(Stroke)
    BY <1>1, <2>1
  <2>3. Len(s) \in Nat /\ 1..Len(s) = 1..n
    BY <2>1, <2>2
  <2>4. Len(s) = n
    BY <1>1, <2>3
  <2> QED
    BY <1>2, <2>2, <2>4
<1> HIDE DEF n
<1>6. Between(s, from, upto)
  BY <1>1, <1>3, <1>5 DEF Between, Rising, Above, Below
<1>7. s \in Slices
  BY <1>5, <1>6 DEF Slices, Between
<1> QED
  BY <1>5, <1>6, <1>7 DEF s, n, Between

\* One frame into a replica.
LEMMA ApplyIs ==
  ASSUME NEW r \in Replicas, Bookkept(r), NEW f \in Frames
  PROVE  LET a == Apply(Quiet(r), f)
         IN  a \in Working /\ Bookkept(a)
<1> DEFINE q == Quiet(r)
           a == Apply(q, f)
<1>1. q \in Working /\ q.out = <<>> /\ q.ask = FALSE /\ Bookkept(q)
  BY QuietIs DEF Bookkept
<1> HIDE DEF q
<1>2. CASE f.t = "STATE_UPDATE"
  <2>1. a = ApplyState(q, f.state)
    BY <1>2 DEF Apply
  <2> QED
    BY <1>1, <1>2, <2>1, FrameFacts, ApplyStateIs DEF q
<1>3. CASE f.t = "STROKE_ADDED"
  <2>1. a = ApplyStroke(q, f.stroke)
    BY <1>3 DEF Apply
  <2>2. f.stroke \in Stroke
    BY <1>3, FrameFacts
  <2> HIDE DEF a
  <2>3. a \in Working /\ Bookkept(a)
    BY <1>1, <2>1, <2>2, ApplyStrokeIs
  <2> QED
    BY <2>3 DEF a, q
<1>4. CASE f.t = "SYNC_RES"
  <2>1. a = ApplySyncRes(q, f.state, f.strokes)
    BY <1>4 DEF Apply
  <2>2. f.state \in Views /\ f.strokes \in Seq(Stroke) /\ Rising(f.strokes)
    BY <1>4, FrameFacts
  <2> HIDE DEF a
  <2>3. a \in Working /\ Bookkept(a)
    BY <1>1, <2>1, <2>2, ApplySyncResIs
  <2> QED
    BY <2>3 DEF a, q
<1> QED
  BY <1>2, <1>3, <1>4, FrameFacts

LEMMA RequestsAre ==
  /\ Joining \in Request /\ Joining.t = "JOIN_GAME"
  /\ \A r \in Replicas : /\ Asking(r) \in Request
                         /\ Asking(r).t = "SYNC_REQ" /\ Asking(r).from = r.floor.idx
  /\ \A r \in Working : LET q == [Asking(r) EXCEPT !.round = KnownRound(r)]
                        IN  q \in Request /\ q.t = "SYNC_REQ" /\ q.from = r.floor.idx
  /\ \A q \in Request : /\ q.t \in {"JOIN_GAME", "SYNC_REQ"}
                        /\ q.t = "SYNC_REQ" => q.from \in 0..PerRound /\ q.round \in 0..MaxRound
<1>1. \A r \in Replicas : r.view \in Views /\ r.floor \in Floor
  BY DEF Replicas
<1>2. \A v \in Views : 0 \in 0..MaxRound /\ (v.round >= 0 => v.round \in 0..MaxRound)
  BY ViewFacts, StrokeFacts
<1>3. \A w \in Floor : w.idx \in 0..PerRound
  BY FloorFacts, StrokeFacts
<1>4. \A r : /\ r.view \in Views /\ r.floor \in Floor =>
                  Asking(r) \in Request /\ Asking(r).t = "SYNC_REQ"
             /\ Asking(r) = [t |-> "SYNC_REQ", from |-> r.floor.idx,
                             round |-> Asking(r).round]
  BY <1>2, <1>3 DEF Asking, Request
<1>5. ASSUME NEW r \in Working
      PROVE  LET q == [Asking(r) EXCEPT !.round = KnownRound(r)]
             IN  q \in Request /\ q.t = "SYNC_REQ" /\ q.from = r.floor.idx
  <2>1. [Asking(r) EXCEPT !.round = KnownRound(r)] =
          [t |-> "SYNC_REQ", from |-> r.floor.idx, round |-> KnownRound(r)]
    BY DEF Asking
  <2>2. r.floor.idx \in 0..PerRound /\ KnownRound(r) \in 0..MaxRound
    BY <1>3, WorkingFacts, KnownRoundIs
  <2> QED
    BY <2>1, <2>2 DEF Request
<1> QED
  BY <1>1, <1>4, <1>5 DEF Joining, Request

-----------------------------------------------------------------------------
\* Frames in a row

\* f tells the page that the host is in state s.
Brings(f, s) == f.t # "STROKE_ADDED" /\ f.state = s

\* b is what may follow a on a path: a stroke is the next one of the drawing and is
\* followed by its state; without a stroke the drawing stays, or a round is announced.
Links(a, b) ==
  /\ a.t = "STROKE_ADDED" =>
       /\ b.t = "STATE_UPDATE"
       /\ b.state.round = a.stroke.round /\ b.state.count = a.stroke.idx + 1
       /\ b.state.status \in {"DRAWING", "VOTING"}
  /\ a.t # "STROKE_ADDED" =>
       /\ b.t = "STROKE_ADDED" =>
            /\ a.state.status = "DRAWING"
            /\ b.stroke = [round |-> a.state.round, idx |-> a.state.count]
       /\ b.t = "STATE_UPDATE" =>
            \/ b.state.status = "ROUND_ANNOUNCE"
            \/ b.state.round = a.state.round /\ b.state.count = a.state.count
       /\ b.t = "SYNC_RES" => b.state = a.state

\* The frames q of a path follow each other, and the last one tells of s.
Chained(q) == \A k \in 1 .. Len(q) - 1 : Links(q[k], q[k + 1])
Carries(q, s) == q # <<>> => Brings(q[Len(q)], s)

AnswersIn(q) == {k \in 1..Len(q) : q[k].t = "SYNC_RES"}

LEMMA TwoFrames ==
  ASSUME NEW f \in Frames, NEW g \in Frames
  PROVE  <<f>> \o <<g>> = <<f, g>>
<1>1. <<f>> \in Seq(Frames) /\ <<f, g>> = Append(<<f>>, g)
  OBVIOUS
<1> QED
  BY <1>1, AppendIsConcat

LEMMA LinksFrom ==
  ASSUME NEW e, NEW s, NEW f, Brings(e, s), Links(StateUpdate(s), f)
  PROVE  Links(e, f)
<1>1. StateUpdate(s).t = "STATE_UPDATE" /\ StateUpdate(s).state = s
  BY DEF StateUpdate
<1> QED
  BY <1>1 DEF Links, Brings

LEMMA AppendsFrame ==
  ASSUME NEW q \in Seq(Frames), NEW f \in Frames, Chained(q),
         q # <<>> => Links(q[Len(q)], f)
  PROVE  LET p == Append(q, f)
         IN  /\ p \in Seq(Frames) /\ p # <<>> /\ Chained(p)
             /\ p[Len(p)] = f
             /\ p[1] = IF q = <<>> THEN f ELSE q[1]
             /\ f.t # "SYNC_RES" => AnswersIn(p) = AnswersIn(q)
             /\ f.t = "SYNC_RES" => AnswersIn(p) = AnswersIn(q) \cup {Len(q) + 1}
<1> DEFINE p == Append(q, f)
<1>1. /\ p \in Seq(Frames) /\ p # <<>> /\ Len(p) = Len(q) + 1
      /\ \A k \in 1..Len(q) : p[k] = q[k]
      /\ p[Len(q) + 1] = f
      /\ Len(q) \in Nat /\ (q # <<>> => Len(q) # 0)
      /\ q = <<>> => Len(q) = 0
  BY AppendProperties
<1> HIDE DEF p
<1>2. ASSUME NEW k \in 1 .. Len(p) - 1
      PROVE  Links(p[k], p[k + 1])
  <2>1. CASE k = Len(q)
    <3>1. q # <<>> /\ p[k] = q[Len(q)] /\ p[k + 1] = f
      BY <1>1, <2>1
    <3> QED
      BY <3>1
  <2>2. CASE k # Len(q)
    <3>1. /\ k \in 1 .. Len(q) - 1 /\ k \in 1..Len(q) /\ k + 1 \in 1..Len(q)
          /\ p[k] = q[k] /\ p[k + 1] = q[k + 1]
      BY <1>1, <2>2
    <3> QED
      BY <3>1 DEF Chained
  <2> QED
    BY <2>1, <2>2
<1>3. p[1] = IF q = <<>> THEN f ELSE q[1]
  BY <1>1
<1>4. /\ f.t # "SYNC_RES" => AnswersIn(p) = AnswersIn(q)
      /\ f.t = "SYNC_RES" => AnswersIn(p) = AnswersIn(q) \cup {Len(q) + 1}
  <2>1. \A k : k \in 1..Len(p) <=> k \in 1..Len(q) \/ k = Len(q) + 1
    BY <1>1
  <2>2. ~(Len(q) + 1 \in 1..Len(q))
    BY <1>1
  <2> QED
    BY <1>1, <2>1, <2>2 DEF AnswersIn
<1> QED
  BY <1>1, <1>2, <1>3, <1>4 DEF Chained, p

\* What the host sends at once: its next state, after the stroke that led to it.
Batch(s, fs, next) ==
  /\ next \in Views
  /\ \/ /\ fs = <<StateUpdate(next)>>
        /\ Links(StateUpdate(s), StateUpdate(next))
     \/ \E st \in Stroke :
          /\ fs = <<StrokeAdded(st), StateUpdate(next)>>
          /\ Links(StateUpdate(s), StrokeAdded(st))
          /\ Links(StrokeAdded(st), StateUpdate(next))

LEMMA AppendsBatch ==
  ASSUME NEW q \in Seq(Frames), NEW s \in Views, NEW next, NEW fs,
         Chained(q), Carries(q, s), Batch(s, fs, next)
  PROVE  LET p == q \o fs
         IN  /\ p \in Seq(Frames) /\ p # <<>> /\ Chained(p) /\ Carries(p, next)
             /\ AnswersIn(p) = AnswersIn(q)
             /\ q # <<>> => p[1] = q[1]
             /\ q = <<>> => p[1].t # "SYNC_RES" /\ Links(StateUpdate(s), p[1])
<1> DEFINE p == q \o fs
           u == StateUpdate(next)
<1>1. /\ u \in Frames /\ u.t = "STATE_UPDATE" /\ u.state = next
      /\ u.t # "SYNC_RES" /\ Brings(u, next)
  BY FramesAre DEF Batch, Brings
<1> HIDE DEF u
<1>2. CASE fs = <<u>> /\ Links(StateUpdate(s), u)
  <2>1. p = Append(q, u)
    BY <1>1, <1>2, AppendIsConcat
  <2>2. q # <<>> => Links(q[Len(q)], u)
    BY <1>2, LinksFrom DEF Carries
  <2> HIDE DEF p
  <2>3. /\ p \in Seq(Frames) /\ p # <<>> /\ Chained(p)
        /\ p[Len(p)] = u
        /\ p[1] = IF q = <<>> THEN u ELSE q[1]
        /\ AnswersIn(p) = AnswersIn(q)
    BY <1>1, <2>1, <2>2, AppendsFrame
  <2> QED
    BY <1>1, <1>2, <2>3 DEF Carries, p
<1>3. ASSUME NEW st \in Stroke,
             fs = <<StrokeAdded(st), u>>,
             Links(StateUpdate(s), StrokeAdded(st)),
             Links(StrokeAdded(st), u)
      PROVE  /\ p \in Seq(Frames) /\ p # <<>> /\ Chained(p) /\ Carries(p, next)
             /\ AnswersIn(p) = AnswersIn(q)
             /\ q # <<>> => p[1] = q[1]
             /\ q = <<>> => p[1].t # "SYNC_RES" /\ Links(StateUpdate(s), p[1])
  <2> DEFINE a == StrokeAdded(st)
             m == Append(q, a)
  <2>1. a \in Frames /\ a.t = "STROKE_ADDED" /\ a.t # "SYNC_RES"
    BY FramesAre
  <2>2. p = Append(m, u)
    <3> HIDE DEF a
    <3>1. /\ <<a, u>> = <<a>> \o <<u>>
          /\ <<a>> \in Seq(Frames) /\ <<u>> \in Seq(Frames)
      <4>1. <<a>> \in Seq(Frames) /\ <<u>> \in Seq(Frames)
        BY <1>1, <2>1
      <4> QED
        BY <1>1, <2>1, <4>1, TwoFrames
    <3>2. q \o (<<a>> \o <<u>>) = (q \o <<a>>) \o <<u>>
      BY <3>1, ConcatAssociative
    <3>3. q \o <<a>> = m /\ m \in Seq(Frames)
      BY <2>1, AppendIsConcat
    <3>4. m \o <<u>> = Append(m, u)
      BY <1>1, <3>3, AppendIsConcat
    <3> QED
      BY <1>3, <3>1, <3>2, <3>3, <3>4 DEF a
  <2>3. q # <<>> => Links(q[Len(q)], a)
    BY <1>3, LinksFrom DEF Carries
  <2>4. Links(StateUpdate(s), a) /\ Links(a, u)
    BY <1>3
  <2> HIDE DEF p, a
  <2>5. /\ m \in Seq(Frames) /\ m # <<>> /\ Chained(m)
        /\ m[Len(m)] = a
        /\ m[1] = IF q = <<>> THEN a ELSE q[1]
        /\ AnswersIn(m) = AnswersIn(q)
    BY <2>1, <2>3, AppendsFrame
  <2> HIDE DEF m
  <2>6. /\ p \in Seq(Frames) /\ p # <<>> /\ Chained(p)
        /\ p[Len(p)] = u
        /\ p[1] = m[1]
        /\ AnswersIn(p) = AnswersIn(m)
    BY <1>1, <2>2, <2>4, <2>5, AppendsFrame
  <2> QED
    BY <1>1, <2>1, <2>4, <2>5, <2>6 DEF Carries
<1> QED
  BY <1>2, <1>3 DEF Batch, u

\* What is left of a path when its head is read.
LEMMA TakesHead ==
  ASSUME NEW q \in Seq(Frames), q # <<>>, Chained(q)
  PROVE  LET p == Tail(q)
         IN  /\ Head(q) = q[1] /\ q[1] \in Frames
             /\ p \in Seq(Frames) /\ Chained(p)
             /\ \A s : Carries(q, s) => Carries(p, s)
             /\ \A s : Carries(q, s) /\ p = <<>> => Brings(q[1], s)
             /\ p # <<>> => Links(q[1], p[1])
             /\ \A k \in AnswersIn(p) : k + 1 \in AnswersIn(q) /\ k + 1 # 1
             /\ q[1].t = "SYNC_RES" => 1 \in AnswersIn(q)
<1> DEFINE p == Tail(q)
<1>1. /\ q[1] \in Frames /\ Head(q) = q[1]
      /\ p \in Seq(Frames) /\ Len(p) = Len(q) - 1
      /\ \A k \in 1..Len(p) : p[k] = q[k + 1]
      /\ Len(q) \in Nat /\ Len(q) # 0 /\ Len(p) \in Nat
      /\ p = <<>> => Len(p) = 0
      /\ Len(p) = 0 => p = <<>>
  <2>1. Len(q) \in Nat /\ Len(q) # 0
    BY EmptySeq
  <2>2. 1 \in 1..Len(q)
    BY <2>1
  <2>3. q[1] \in Frames
    BY <2>2, ElementOfSeq
  <2>4. /\ p \in Seq(Frames) /\ Len(p) = Len(q) - 1
        /\ \A k \in 1..Len(p) : p[k] = q[k + 1]
    BY HeadTailProperties
  <2>5. Head(q) = q[1]
    OBVIOUS
  <2> HIDE DEF p
  <2>6. /\ Len(p) \in Nat
        /\ p = <<>> => Len(p) = 0
        /\ Len(p) = 0 => p = <<>>
    BY <2>4
  <2> QED
    BY <2>1, <2>3, <2>4, <2>5, <2>6
<1> HIDE DEF p
<1>2. \A k \in 1 .. Len(p) - 1 : Links(p[k], p[k + 1])
  <2>1. \A k \in 1 .. Len(p) - 1 : /\ k + 1 \in 1 .. Len(q) - 1
                                   /\ p[k] = q[k + 1] /\ p[k + 1] = q[k + 1 + 1]
    BY <1>1
  <2> QED
    BY <2>1 DEF Chained
<1>3. p # <<>> => p[Len(p)] = q[Len(q)]
  BY <1>1
<1>4. p = <<>> => q[Len(q)] = q[1]
  <2>1. p = <<>> => Len(q) = 1
    BY <1>1
  <2> QED
    BY <2>1
<1>5. p # <<>> => Links(q[1], p[1])
  <2>1. ASSUME p # <<>>
        PROVE  1 \in 1 .. Len(q) - 1 /\ p[1] = q[1 + 1]
    BY <1>1, <2>1
  <2> QED
    BY <2>1 DEF Chained
<1>6. /\ \A k \in AnswersIn(p) : k + 1 \in AnswersIn(q) /\ k + 1 # 1
      /\ q[1].t = "SYNC_RES" => 1 \in AnswersIn(q)
  BY <1>1 DEF AnswersIn
<1> QED
  BY <1>1, <1>2, <1>3, <1>4, <1>5, <1>6 DEF Chained, Carries, p

-----------------------------------------------------------------------------
\* The host's steps

LEMMA BatchType ==
  ASSUME NEW s, NEW fs, NEW next, Batch(s, fs, next)
  PROVE  fs \in Seq(Frames) /\ next \in Views
<1>1. next \in Views /\ StateUpdate(next) \in Frames
  BY FramesAre DEF Batch
<1>2. \A st \in Stroke : StrokeAdded(st) \in Frames
  BY FramesAre
<1>3. \A f, g \in Frames : <<f>> \in Seq(Frames) /\ <<f, g>> \in Seq(Frames)
  OBVIOUS
<1> QED
  BY <1>1, <1>2, <1>3 DEF Batch

LEMMA StateOf ==
  ASSUME NEW s, NEW n, NEW v,
         s = [round |-> s.round, count |-> s.count, status |-> s.status]
  PROVE  [s EXCEPT !.count = n, !.status = v] =
           [round |-> s.round, count |-> n, status |-> v]
<1> DEFINE t == [s EXCEPT !.count = n]
<1>1. DOMAIN s = {"round", "count", "status"}
  OBVIOUS
<1>2. t = [round |-> s.round, count |-> n, status |-> s.status]
  BY <1>1
<1>3. [s EXCEPT !.count = n, !.status = v] = [t EXCEPT !.status = v]
  OBVIOUS
<1>4. DOMAIN t = {"round", "count", "status"}
  BY <1>1
<1> HIDE DEF t
<1>5. [t EXCEPT !.status = v] = [round |-> s.round, count |-> n, status |-> v]
  BY <1>2, <1>4
<1> QED
  BY <1>3, <1>5

LEMMA HostSends ==
  ASSUME TypeInv, Host
  PROVE  \E fs : /\ Batch(host, fs, host')
                 /\ Broadcast(fs, relayed)
                 /\ UNCHANGED <<member, hostEnd, relayed, reads, requests, pageVars,
                                settled, losses, reloads>>
<1>1. host \in Views
  BY DEF TypeInv
<1>2. /\ host = [round |-> host.round, count |-> host.count, status |-> host.status]
      /\ host.round \in Int /\ host.round >= -1 /\ host.round <= MaxRound
      /\ host.count \in Nat /\ host.count <= PerRound /\ host.status \in Phases
      /\ host.status \in {"ROUND_ANNOUNCE", "DRAWING", "VOTING"} => host.round >= 0
      /\ host.status = "DRAWING" => host.count < PerRound
      /\ host.status = "ROUND_ANNOUNCE" => host.count = 0
  BY <1>1, ViewFacts
<1>3. \A s \in Views : /\ StateUpdate(s).t = "STATE_UPDATE" /\ StateUpdate(s).state = s
                       /\ StateUpdate(s) \in Frames
  BY FramesAre
<1>4. \A f \in Frames : <<f>> \in Seq(Frames) /\ <<>> \o <<f>> = <<f>>
  <2>1. ASSUME NEW f \in Frames
        PROVE  <<f>> \in Seq(Frames) /\ <<>> \o <<f>> = <<f>>
    <3>1. <<f>> \in Seq(Frames)
      OBVIOUS
    <3> QED
      BY <3>1, ConcatEmptySeq
  <2> QED
    BY <2>1
<1>5. CASE HostAnnounces
  <2>1. PICK i \in 0 .. asked - 1 :
          HostMoves([round |-> i, count |-> 0, status |-> "ROUND_ANNOUNCE"], <<>>)
    BY <1>5 DEF HostAnnounces
  <2> DEFINE next == [round |-> i, count |-> 0, status |-> "ROUND_ANNOUNCE"]
  <2>2. i \in 0..MaxRound
    BY StrokeFacts DEF TypeInv
  <2>3. next \in Views /\ next.status = "ROUND_ANNOUNCE"
    BY <2>2, StrokeFacts DEF Views, GameView, Phases
  <2>4. HostMoves(next, <<>>)
    BY <2>1
  <2> HIDE DEF next
  <2>5. Links(StateUpdate(host), StateUpdate(next))
    BY <1>1, <1>3, <2>3 DEF Links
  <2>6. Batch(host, <<StateUpdate(next)>>, next)
    BY <2>3, <2>5 DEF Batch
  <2> QED
    BY <1>3, <1>4, <2>3, <2>4, <2>6 DEF HostMoves
<1>6. CASE HostBegins
  <2> DEFINE next == [host EXCEPT !.status = "DRAWING"]
  <2>1. next = [round |-> host.round, count |-> host.count, status |-> "DRAWING"]
    BY <1>2
  <2>2. next \in Views
    BY <1>2, <1>6, <2>1, StrokeFacts DEF HostBegins, Views, GameView, Phases
  <2>3. HostMoves(next, <<>>)
    BY <1>6 DEF HostBegins
  <2> HIDE DEF next
  <2>4. Links(StateUpdate(host), StateUpdate(next))
    BY <1>1, <1>3, <1>6, <2>1, <2>2 DEF Links, HostBegins
  <2>5. Batch(host, <<StateUpdate(next)>>, next)
    BY <2>2, <2>4 DEF Batch
  <2> QED
    BY <1>3, <1>4, <2>2, <2>3, <2>5 DEF HostMoves
<1>7. CASE HostStroke
  <2> DEFINE status == IF host.count + 1 >= PerRound THEN "VOTING" ELSE host.status
             next == [host EXCEPT !.count = host.count + 1, !.status = status]
             st == [round |-> host.round, idx |-> host.count]
  <2>1. host.status = "DRAWING"
    BY <1>7 DEF HostStroke
  <2>2. st \in Stroke
    BY <1>2, <2>1, StrokeFacts DEF Stroke
  <2>3. /\ status \in {"VOTING", "DRAWING"}
        /\ status = "DRAWING" => host.count + 1 < PerRound
        /\ host.count + 1 \in 0..PerRound
    BY <1>2, <2>1, StrokeFacts
  <2>4. HostMoves(next, <<StrokeAdded(st)>>)
    BY <1>7 DEF HostStroke
  <2> HIDE DEF status
  <2>5. next = [round |-> host.round, count |-> host.count + 1, status |-> status]
    <3>1. host = [round |-> host.round, count |-> host.count, status |-> host.status]
      BY <1>2
    <3> DEFINE n == host.count + 1
    <3>2. next = [host EXCEPT !.count = n, !.status = status]
      OBVIOUS
    <3> HIDE DEF n, next
    <3>3. next = [round |-> host.round, count |-> n, status |-> status]
      BY <3>1, <3>2, StateOf
    <3> QED
      BY <3>3 DEF n
  <2> HIDE DEF next
  <2>6. next \in Views
    <3>1. host.round \in -1..MaxRound /\ host.round >= 0 /\ status \in Phases
      BY <1>2, <2>1, <2>3, StrokeFacts DEF Phases
    <3> QED
      BY <2>3, <2>5, <3>1 DEF Views, GameView
  <2>7. StrokeAdded(st).t = "STROKE_ADDED" /\ StrokeAdded(st).stroke = st
        /\ StrokeAdded(st) \in Frames
    BY <2>2, FramesAre
  <2>8. Links(StateUpdate(host), StrokeAdded(st))
    BY <1>1, <1>3, <2>1, <2>7 DEF Links
  <2>9. Links(StrokeAdded(st), StateUpdate(next))
    BY <1>3, <2>3, <2>5, <2>6, <2>7 DEF Links
  <2> HIDE DEF st
  <2>10. Batch(host, <<StrokeAdded(st), StateUpdate(next)>>, next)
    BY <2>2, <2>6, <2>8, <2>9 DEF Batch
  <2>11. <<StrokeAdded(st)>> \o <<StateUpdate(next)>> = <<StrokeAdded(st), StateUpdate(next)>>
    <3>1. StrokeAdded(st) \in Frames /\ StateUpdate(next) \in Frames
      BY <1>3, <2>6, <2>7
    <3> QED
      BY <3>1, TwoFrames
  <2> QED
    BY <2>4, <2>10, <2>11 DEF HostMoves
<1>8. CASE HostEnds
  <2> DEFINE next == [host EXCEPT !.status = "GAME_OVER"]
  <2>1. next = [round |-> host.round, count |-> host.count, status |-> "GAME_OVER"]
    BY <1>2
  <2>2. next \in Views
    BY <1>2, <2>1, StrokeFacts DEF Views, GameView, Phases
  <2>3. HostMoves(next, <<>>)
    BY <1>8 DEF HostEnds
  <2> HIDE DEF next
  <2>4. Links(StateUpdate(host), StateUpdate(next))
    BY <1>1, <1>3, <2>1, <2>2 DEF Links
  <2>5. Batch(host, <<StateUpdate(next)>>, next)
    BY <2>2, <2>4 DEF Batch
  <2> QED
    BY <1>3, <1>4, <2>2, <2>3, <2>5 DEF HostMoves
<1> QED
  BY <1>5, <1>6, <1>7, <1>8 DEF Host

\* What the engine broadcasts for a JOIN_GAME.
LEMMA HostRepeats ==
  ASSUME TypeInv
  PROVE  Batch(host, <<StateUpdate(host)>>, host)
<1>1. host \in Views
  BY DEF TypeInv
<1>2. StateUpdate(host).t = "STATE_UPDATE" /\ StateUpdate(host).state = host
  BY <1>1, FramesAre
<1>3. Links(StateUpdate(host), StateUpdate(host))
  BY <1>2 DEF Links
<1> QED
  BY <1>1, <1>3 DEF Batch

LEMMA BroadcastType ==
  ASSUME TypeInv, NEW s, NEW fs, NEW next, NEW byRelay,
         Batch(s, fs, next), Broadcast(fs, byRelay)
  PROVE  channel' \in Seq(Frames) /\ relay' \in Seq(Frames)
<1>1. fs \in Seq(Frames) /\ channel \in Seq(Frames) /\ relay \in Seq(Frames)
  BY BatchType DEF TypeInv
<1>2. channel \o fs \in Seq(Frames) /\ relay \o fs \in Seq(Frames)
  BY <1>1, ConcatProperties
<1> QED
  BY <1>1, <1>2 DEF Broadcast
-----------------------------------------------------------------------------
\* The requests to the host

Posts == [dc : Seq(Request), relay : Seq({Joining})]

LEMMA PostsAre ==
  ASSUME NEW q \in Posts
  PROVE  /\ q.dc \in Seq(Request) /\ q.relay \in Seq({Joining})
         /\ \A s : /\ [q EXCEPT !.dc = s] = [dc |-> s, relay |-> q.relay]
                   /\ [q EXCEPT !.relay = s] = [dc |-> q.dc, relay |-> s]
<1>1. /\ q.dc \in Seq(Request) /\ q.relay \in Seq({Joining})
      /\ q = [dc |-> q.dc, relay |-> q.relay]
  BY DEF Posts
<1>2. ASSUME NEW s
      PROVE  /\ [q EXCEPT !.dc = s] = [dc |-> s, relay |-> q.relay]
             /\ [q EXCEPT !.relay = s] = [dc |-> q.dc, relay |-> s]
  BY <1>1
<1> QED
  BY <1>1, <1>2

\* The host takes the oldest request of one of the two.
LEMMA PostTaken ==
  ASSUME NEW q \in Posts, NEW via \in {"dc", "relay"}, q[via] # <<>>
  PROVE  LET p == [q EXCEPT ![via] = Tail(@)]
         IN  /\ Head(q[via]) \in Request
             /\ p \in Posts
             /\ p.dc = IF via = "dc" THEN Tail(q.dc) ELSE q.dc
             /\ via = "relay" => Head(q[via]).t = "JOIN_GAME"
<1> DEFINE p == [q EXCEPT ![via] = Tail(@)]
<1>1. q.dc \in Seq(Request) /\ q.relay \in Seq({Joining})
  BY PostsAre
<1>2. CASE via = "dc"
  <2>1. p = [dc |-> Tail(q.dc), relay |-> q.relay]
    BY <1>2, PostsAre
  <2>2. q.dc # <<>>
    BY <1>2
  <2>3. Tail(q.dc) \in Seq(Request) /\ Head(q.dc) \in Request
    BY <1>1, <2>2, HeadTailProperties
  <2> HIDE DEF p
  <2>4. p \in Posts /\ p.dc = Tail(q.dc)
    BY <1>1, <2>1, <2>3 DEF Posts
  <2> QED
    BY <1>2, <2>3, <2>4 DEF p
<1>3. CASE via = "relay"
  <2>1. p = [dc |-> q.dc, relay |-> Tail(q.relay)]
    BY <1>3, PostsAre
  <2>2. q.relay # <<>>
    BY <1>3
  <2>3. Tail(q.relay) \in Seq({Joining}) /\ Head(q.relay) \in {Joining}
    BY <1>1, <2>2, HeadTailProperties
  <2> HIDE DEF p
  <2>4. p \in Posts /\ p.dc = q.dc
    BY <1>1, <2>1, <2>3 DEF Posts
  <2>5. Head(q[via]) = Joining
    BY <1>3, <2>3
  <2> QED
    BY <1>3, <2>4, <2>5, RequestsAre DEF p
<1> QED
  BY <1>2, <1>3

LEMMA PostAdded ==
  ASSUME NEW q \in Posts, NEW f \in Request
  PROVE  /\ Append(q.dc, f) \in Seq(Request)
         /\ [q EXCEPT !.dc = Append(@, f)] \in Posts
         /\ [q EXCEPT !.dc = Append(@, f)].dc = Append(q.dc, f)
         /\ [q EXCEPT !.relay = Append(@, Joining)] \in Posts
         /\ [q EXCEPT !.relay = Append(@, Joining)].dc = q.dc
<1>1. /\ Append(q.dc, f) \in Seq(Request)
      /\ Append(q.relay, Joining) \in Seq({Joining})
      /\ q.dc \in Seq(Request) /\ q.relay \in Seq({Joining})
  BY PostsAre
<1>2. /\ [q EXCEPT !.dc = Append(@, f)] = [dc |-> Append(q.dc, f), relay |-> q.relay]
      /\ [q EXCEPT !.relay = Append(@, Joining)] = [dc |-> q.dc, relay |-> Append(q.relay, Joining)]
  BY PostsAre
<1> QED
  BY <1>1, <1>2 DEF Posts

-----------------------------------------------------------------------------
\* Every step keeps the types

\* What was asked for, answered and logged.
LEMMA TypeDraws ==
  ASSUME TypeInv, Host \/ HostAsks
  PROVE  /\ asked' \in 0 .. MaxRound + 1 /\ draws' \in 0 .. MaxDraws
         /\ log' \in [0 .. MaxRound -> 0 .. PerRound]
<1>1. /\ asked \in 0 .. MaxRound + 1 /\ draws \in 0 .. MaxDraws
      /\ log \in [0 .. MaxRound -> 0 .. PerRound]
      /\ host \in Views /\ MaxDraws \in Nat
  BY SizeAssumption DEF TypeInv
<1>2. CASE HostAsks
  <2>1. /\ host.round < MaxRound /\ host.round \in Int /\ host.round >= -1
        /\ asked' = host.round + 2 /\ draws' = draws /\ log' = log
    BY <1>1, <1>2, ViewFacts DEF HostAsks
  <2> QED
    BY <1>1, <2>1, StrokeFacts
<1>3. CASE HostAnnounces
  BY <1>1, <1>3 DEF HostAnnounces
<1>4. CASE HostBegins \/ HostEnds
  BY <1>1, <1>4 DEF HostBegins, HostEnds, drawVars
<1>5. CASE HostStroke
  <2> DEFINE next == host.count + 1
  <2>1. /\ log' = [log EXCEPT ![host.round] = IF next > @ THEN next ELSE @]
        /\ asked' = asked /\ draws' = draws
    BY <1>5 DEF HostStroke, drawVars
  <2>2. host.round \in 0..MaxRound /\ next \in 0..PerRound
    BY <1>1, <1>5, ViewFacts, StrokeFacts DEF HostStroke
  <2> HIDE DEF next
  <2> QED
    BY <1>1, <2>1, <2>2
<1> QED
  BY <1>2, <1>3, <1>4, <1>5 DEF Host

LEMMA TypeHost ==
  ASSUME TypeInv, Host \/ HostAsks \/ HostEndOpens
  PROVE  TypeInv'
<1>1. CASE Host
  <2>1. PICK fs : /\ Batch(host, fs, host')
                  /\ Broadcast(fs, relayed)
                  /\ UNCHANGED <<member, hostEnd, relayed, reads, requests, pageVars,
                                 settled, losses, reloads>>
    BY <1>1, HostSends
  <2>2. channel' \in Seq(Frames) /\ relay' \in Seq(Frames) /\ host' \in Views
    BY <2>1, BroadcastType, BatchType
  <2> QED
    BY <1>1, <2>1, <2>2, TypeDraws DEF TypeInv, pageVars
<1>2. CASE HostAsks
  BY <1>2, TypeDraws DEF TypeInv, HostAsks, pageVars
<1>3. CASE HostEndOpens
  BY <1>3 DEF TypeInv, HostEndOpens, drawVars, pageVars
<1> QED
  BY <1>1, <1>2, <1>3

LEMMA TypeJoin ==
  ASSUME TypeInv, NEW via \in {"dc", "relay"}, TakeJoin(via)
  PROVE  TypeInv'
<1>1. requests \in Posts /\ requests[via] # <<>>
  BY DEF TypeInv, Posts, TakeJoin, Asked
<1>2. requests' \in Posts
  BY <1>1, PostTaken DEF TakeJoin, Taken
<1>3. /\ relayed' = (relayed \/ via = "relay")
      /\ UNCHANGED <<host, drawVars, log, hostEnd, reads, pageVars, settled, losses,
                     reloads>>
  BY DEF TakeJoin
<1>4. CASE member' = TRUE /\ Broadcast(<<StateUpdate(host)>>, relayed')
  <2>1. channel' \in Seq(Frames) /\ relay' \in Seq(Frames)
    BY <1>4, HostRepeats, BroadcastType
  <2> QED
    BY <1>2, <1>3, <1>4, <2>1 DEF TypeInv, Posts, drawVars, pageVars
<1>5. CASE UNCHANGED <<member, channel, relay>>
  BY <1>2, <1>3, <1>5 DEF TypeInv, Posts, drawVars, pageVars
<1> QED
  BY <1>4, <1>5 DEF TakeJoin

LEMMA LoggedIs ==
  ASSUME TypeInv, NEW round \in 0..MaxRound
  PROVE  log[round] \in 0..PerRound
  BY DEF TypeInv

LEMMA TypeSync ==
  ASSUME TypeInv, NEW via \in {"dc", "relay"}, TakeSyncReq(via)
  PROVE  TypeInv'
<1> DEFINE q == Head(requests[via])
           sts == Slice(q.round, q.from, log[q.round])
<1>1. requests \in Posts /\ requests[via] # <<>> /\ q.t = "SYNC_REQ"
  BY DEF TypeInv, Posts, TakeSyncReq, Asked
<1>2. requests' \in Posts /\ q \in Request
  BY <1>1, PostTaken DEF TakeSyncReq, Taken
<1>3. reads' = Append(reads, sts)
  BY DEF TakeSyncReq
<1> HIDE DEF q
<1>4. q.from \in 0..PerRound /\ q.round \in 0..MaxRound
  BY <1>1, <1>2, RequestsAre
<1>5. sts \in Slices
  BY <1>4, LoggedIs, SliceIs
<1> HIDE DEF sts
<1>6. reads' \in Seq(Slices)
  BY <1>3, <1>5 DEF TypeInv
<1> QED
  BY <1>2, <1>6 DEF TypeInv, TakeSyncReq, Posts, drawVars, pageVars

LEMMA TypeAnswer ==
  ASSUME TypeInv, AnswerSync \/ ReadFails
  PROVE  TypeInv'
<1>1. Head(reads) \in Slices /\ reads' \in Seq(Slices)
  <2>1. reads # <<>> /\ reads' = Tail(reads) /\ reads \in Seq(Slices)
    BY DEF TypeInv, AnswerSync, ReadFails
  <2> QED
    BY <2>1, HeadTailProperties
<1>2. CASE AnswerSync
  <2>1. SyncRes(host, Head(reads)) \in Frames
    BY <1>1, FramesAre DEF TypeInv
  <2>2. channel' \in Seq(Frames)
    BY <1>2, <2>1 DEF TypeInv, AnswerSync
  <2> QED
    BY <1>1, <1>2, <2>2 DEF TypeInv, AnswerSync, drawVars, pageVars
<1>3. CASE ReadFails
  <2>1. losses' \in 0..MaxLosses
    BY <1>3, BoundAssumption DEF TypeInv, ReadFails
  <2> QED
    BY <1>1, <1>3, <2>1 DEF TypeInv, ReadFails, drawVars, pageVars
<1> QED
  BY <1>2, <1>3

LEMMA TypePaths ==
  ASSUME TypeInv, FallBack \/ PeerOpen
  PROVE  TypeInv'
<1>1. requests \in Posts /\ replica \in Replicas
  BY DEF TypeInv, Posts
<1>2. CASE FallBack
  <2>1. requests' \in Posts
    BY <1>1, <1>2, PostAdded, RequestsAre DEF FallBack
  <2> QED
    BY <1>2, <2>1 DEF TypeInv, FallBack, Posts, hostVars, drawVars
<1>3. CASE PeerOpen
  <2> DEFINE more == IF replica.inFlight THEN <<Joining>> ELSE <<Joining, Asking(replica)>>
             s == requests.dc \o more
  <2>1. Joining \in Request /\ Asking(replica) \in Request
    BY <1>1, RequestsAre
  <2>2. \A f, g \in Request : <<f>> \in Seq(Request) /\ <<f, g>> \in Seq(Request)
    OBVIOUS
  <2>3. more \in Seq(Request)
    BY <2>1, <2>2
  <2> HIDE DEF more
  <2>4. s \in Seq(Request)
    BY <1>1, <2>3, PostsAre, ConcatProperties
  <2>5. requests' = [requests EXCEPT !.dc = s]
    BY <1>3 DEF PeerOpen, more
  <2> HIDE DEF s
  <2>6. requests' \in Posts
    BY <1>1, <2>4, <2>5, PostsAre DEF Posts
  <2>7. replica' = [replica EXCEPT !.inFlight = TRUE]
    BY <1>3 DEF PeerOpen
  <2>8. /\ replica' \in Replicas /\ replica'.view = replica.view
        /\ replica'.floor = replica.floor
    BY <1>1, <2>7 DEF Replicas
  <2>9. Bookkept(replica')
    BY <2>8 DEF Bookkept, TypeInv
  <2>10. <<>> \in Seq(Frames)
    OBVIOUS
  <2> QED
    BY <1>3, <2>6, <2>8, <2>9, <2>10 DEF TypeInv, PeerOpen, Posts, hostVars, drawVars
<1> QED
  BY <1>2, <1>3

LEMMA TypeReceive ==
  ASSUME TypeInv, ReceiveChannel \/ ReceiveRelay
  PROVE  TypeInv'
<1>1. ASSUME NEW f \in Frames, Receive(f),
             channel' \in Seq(Frames), relay' \in Seq(Frames)
      PROVE  TypeInv'
  <2> DEFINE r == Apply(Quiet(replica), f)
             ask == [Asking(r) EXCEPT !.round = KnownRound(r)]
  <2>1. r \in Working /\ Bookkept(r)
    BY ApplyIs DEF TypeInv
  <2>2. /\ replica' = Kept(r)
        /\ canvas' = IF shown.status = "DRAWING" THEN canvas \o r.out ELSE canvas
        /\ requests' = IF r.ask /\ path = "dc"
                       THEN [requests EXCEPT !.dc = Append(@, ask)]
                       ELSE requests
    BY <1>1 DEF Receive
  <2> HIDE DEF r
  <2>3. replica' \in Replicas /\ Bookkept(replica')
    BY <2>1, <2>2, KeptIs DEF Bookkept
  <2>4. canvas' \in Seq(Stroke)
    BY <2>1, <2>2, WorkingFacts, ConcatProperties DEF TypeInv
  <2>5. ask \in Request /\ requests \in Posts
    BY <2>1, RequestsAre DEF TypeInv, Posts
  <2> HIDE DEF ask
  <2>6. requests' \in Posts
    BY <2>2, <2>5, PostAdded
  <2> QED
    BY <1>1, <2>3, <2>4, <2>6 DEF TypeInv, Receive, Posts, hostVars, drawVars
<1>2. CASE ReceiveChannel
  <2>1. channel \in Seq(Frames) /\ relay \in Seq(Frames) /\ channel # <<>>
    BY <1>2 DEF TypeInv, ReceiveChannel
  <2>2. Head(channel) \in Frames /\ Tail(channel) \in Seq(Frames)
    BY <2>1, HeadTailProperties
  <2> QED
    BY <1>1, <1>2, <2>1, <2>2 DEF ReceiveChannel
<1>3. CASE ReceiveRelay
  <2>1. channel \in Seq(Frames) /\ relay \in Seq(Frames) /\ relay # <<>>
    BY <1>3 DEF TypeInv, ReceiveRelay
  <2>2. Head(relay) \in Frames /\ Tail(relay) \in Seq(Frames)
    BY <2>1, HeadTailProperties
  <2> QED
    BY <1>1, <1>3, <2>1, <2>2 DEF ReceiveRelay
<1> QED
  BY <1>2, <1>3

LEMMA FreshFacts ==
  /\ NoView \in Views /\ NoView.round = -1 /\ NoView.status = "NONE"
  /\ Lobby \in Views
  /\ FreshReplica \in Replicas /\ Bookkept(FreshReplica)
  /\ FreshReplica.view = NoView /\ FreshReplica.floor = NoFloor
  /\ FreshReplica.pending = <<>> /\ FreshReplica.inFlight = FALSE
<1>1. NoView \in Views /\ NoView.round = -1 /\ NoView.status = "NONE"
  BY StrokeFacts DEF NoView, Views, GameView, Phases
<1>2. Lobby = [round |-> -1, count |-> 0, status |-> "LOBBY"]
  BY DEF Lobby, NoView
<1>3. Lobby \in Views
  BY <1>2, StrokeFacts DEF Views, GameView, Phases
<1>4. NoFloor \in Floor /\ <<>> \in Seq(Stroke)
  BY FloorFacts
<1>5. /\ FreshReplica.view = NoView /\ FreshReplica.floor = NoFloor
      /\ FreshReplica.pending = <<>> /\ FreshReplica.inFlight = FALSE
  BY DEF FreshReplica
<1>6. FreshReplica \in Replicas
  BY <1>1, <1>4 DEF FreshReplica, Replicas
<1> QED
  BY <1>1, <1>3, <1>5, <1>6 DEF Bookkept

LEMMA TypeLost ==
  ASSUME TypeInv, DropFrame \/ LoseFrame \/ Render \/ Reload
  PROVE  TypeInv'
<1>1. relay # <<>> => Tail(relay) \in Seq(Frames)
  BY HeadTailProperties DEF TypeInv
<1>2. CASE DropFrame
  BY <1>1, <1>2 DEF TypeInv, DropFrame, hostVars, drawVars, pageVars
<1>3. CASE LoseFrame
  <2>1. losses + 1 \in 0..MaxLosses
    BY <1>3, BoundAssumption DEF TypeInv, LoseFrame
  <2> QED
    BY <1>1, <1>3, <2>1 DEF TypeInv, LoseFrame, hostVars, drawVars, pageVars
<1>4. CASE Render
  <2>1. replica.view \in Views
    BY DEF TypeInv, Replicas
  <2>2. replica.view.round >= 0 => Drawing(replica.view) \in Seq(Stroke)
    <3>1. ASSUME replica.view.round >= 0
          PROVE  replica.view.round \in 0..MaxRound /\ replica.view.count \in 0..PerRound
                 /\ 0 \in 0..PerRound
      BY <2>1, <3>1, ViewFacts, StrokeFacts
    <3> QED
      BY <3>1, SliceIs DEF Drawing
  <2>3. replica.view.status = "DRAWING" => replica.view.round >= 0
    BY <2>1, ViewFacts
  <2>4. canvas' \in Seq(Stroke)
    <3>1. <<>> \in Seq(Stroke) /\ canvas \in Seq(Stroke)
      BY DEF TypeInv
    <3>2. \/ canvas' = <<>> \/ canvas' = canvas
          \/ replica.view.status = "DRAWING" /\ canvas' = Drawing(replica.view)
      BY <1>4 DEF Render
    <3> QED
      BY <2>2, <2>3, <3>1, <3>2
  <2> QED
    BY <1>4, <2>1, <2>4 DEF TypeInv, Render, hostVars, drawVars
<1>5. CASE Reload
  <2>1. reloads + 1 \in 0..MaxReloads
    BY <1>5, BoundAssumption DEF TypeInv, Reload
  <2>2. /\ <<>> \in Seq(Frames) /\ <<>> \in Seq(Slices) /\ <<>> \in Seq(Stroke)
        /\ <<>> \in Seq(Request)
    OBVIOUS
  <2>3. requests' \in Posts
    BY <1>5, <2>2, PostsAre DEF TypeInv, Posts, Reload
  <2> QED
    BY <1>5, <2>1, <2>2, <2>3, FreshFacts DEF TypeInv, Reload, Posts, drawVars
<1> QED
  BY <1>2, <1>3, <1>4, <1>5

LEMMA TypeStep == TypeInv /\ [Next]_vars => TypeInv'
<1> SUFFICES ASSUME TypeInv, [Next]_vars
             PROVE  TypeInv'
  OBVIOUS
<1>1. CASE UNCHANGED vars
  BY <1>1 DEF TypeInv, vars, hostVars, drawVars, pageVars
<1>2. CASE Host \/ HostAsks \/ HostEndOpens
  BY <1>2, TypeHost
<1>3. CASE Answers
  BY <1>3, TypeJoin, TypeSync, TypeAnswer DEF Answers
<1>4. CASE Page \/ LoseFrame \/ Reload
  BY <1>4, TypePaths, TypeReceive, TypeLost DEF Page
<1> QED
  BY <1>1, <1>2, <1>3, <1>4 DEF Next

LEMMA TypeInit == Init => TypeInv
<1> SUFFICES ASSUME Init
             PROVE  TypeInv
  OBVIOUS
<1>1. /\ <<>> \in Seq(Frames) /\ <<>> \in Seq(Slices) /\ <<>> \in Seq(Stroke)
      /\ <<>> \in Seq(Request) /\ <<>> \in Seq({Joining})
  OBVIOUS
<1>2. requests \in Posts
  BY <1>1 DEF Init, Posts
<1>3. /\ 0 \in 0..MaxLosses /\ 0 \in 0..MaxReloads
      /\ 0 \in 0 .. MaxRound + 1 /\ 0 \in 0..MaxDraws /\ 0 \in 0..PerRound
  BY SizeAssumption, BoundAssumption
<1> QED
  BY <1>1, <1>2, <1>3, FreshFacts DEF Init, TypeInv, Posts

LEMMA TypeImplied == TypeInv => TypeOK
<1> SUFFICES ASSUME TypeInv
             PROVE  TypeOK
  OBVIOUS
<1>1. \A S, T : S \subseteq T => \A s \in Seq(S) : s \in Seq(T)
  <2>1. ASSUME NEW S, NEW T, S \subseteq T, NEW s \in Seq(S)
        PROVE  s \in Seq(T)
    <3>1. /\ Len(s) \in Nat /\ s = [i \in 1..Len(s) |-> s[i]]
          /\ \A i \in 1..Len(s) : s[i] \in T
      BY <2>1
    <3> QED
      BY <3>1
  <2> QED
    BY <2>1
<1>2. Views \subseteq GameView /\ Slices \subseteq Seq(Stroke)
  BY DEF Views, Slices
<1>3. Frames \subseteq Frame
  BY <1>2 DEF Frames, Frame
<1>4. /\ reads \in Seq(Seq(Stroke)) /\ channel \in Seq(Frame) /\ relay \in Seq(Frame)
  BY <1>1, <1>2, <1>3 DEF TypeInv
<1>5. replica \in [view : GameView, floor : Floor, pending : Seq(Stroke), inFlight : BOOLEAN]
  BY <1>2 DEF TypeInv, Replicas
<1>6. replica.view.round >= 0 =>
        /\ replica.floor.round = replica.view.round
        /\ replica.floor.idx >= replica.view.count
  BY DEF TypeInv, Bookkept
<1> QED
  BY <1>2, <1>4, <1>5, <1>6 DEF TypeInv, TypeOK

\* For rounds of any length, any number of rounds, losses and reloads and a host any
\* number of frames ahead, the types are as declared; and the Replica's floor is in
\* the round of its state and not below what that state shows, so that no stroke the
\* state already has can be taken for the next one (replica.ts 137-148).
THEOREM TypeCorrect == Spec => []TypeOK
<1>1. Spec => []TypeInv
  BY TypeInit, TypeStep, PTL DEF Spec
<1> QED
  BY <1>1, TypeImplied, PTL
-----------------------------------------------------------------------------
\* What is under way

\* Each path carries frames in a row, up to the host's state; a relayed one goes to
\* a page that does not read its channel, and no answer goes over the relay.
Paths ==
  /\ path = "dc" => hostEnd /\ relay = <<>>
  /\ ~hostEnd => channel = <<>>
  /\ relay # <<>> => relayed
  /\ Chained(channel) /\ Carries(channel, host)
  /\ Chained(relay) /\ Carries(relay, host)
  /\ AnswersIn(relay) = {}

AsksIn(q) == {k \in 1..Len(q) : q[k].t = "SYNC_REQ"}

\* At most one sync is under way, as a request, a read or an answer, and the replica
\* of a page with a channel knows of it.
One ==
  /\ \A i, j \in AsksIn(requests.dc) : i = j
  /\ \A i, j \in AnswersIn(channel) : i = j
  /\ Len(reads) <= 1
  /\ AsksIn(requests.dc) # {} => reads = <<>> /\ AnswersIn(channel) = {}
  /\ reads # <<>> => AnswersIn(channel) = {}
  /\ AsksIn(requests.dc) # {} \/ reads # <<>> \/ AnswersIn(channel) # {} =>
       replica.inFlight /\ path = "dc"

\* The answer the page reads next is in the round of its replica, or has nothing below
\* its floor; so will the answer be that the host has still to send.
Firsts ==
  /\ channel # <<>> =>
       (channel[1].t = "SYNC_RES" =>
          replica.view = channel[1].state \/ Above(channel[1].strokes, replica.floor.idx))
  /\ channel = <<>> /\ replica.view # host =>
       /\ \A k \in 1..Len(reads) : Above(reads[k], replica.floor.idx)
       /\ \A k \in AsksIn(requests.dc) : requests.dc[k].from >= replica.floor.idx

WayInv == Paths /\ One /\ Firsts

LEMMA AsksAppended ==
  ASSUME NEW q \in Seq(Request), NEW f \in Request
  PROVE  LET p == Append(q, f)
         IN  /\ f.t # "SYNC_REQ" => AsksIn(p) = AsksIn(q)
             /\ f.t = "SYNC_REQ" => AsksIn(p) = AsksIn(q) \cup {Len(q) + 1}
             /\ \A k \in AsksIn(q) : p[k] = q[k]
             /\ p[Len(q) + 1] = f
<1> DEFINE p == Append(q, f)
<1>1. /\ Len(p) = Len(q) + 1 /\ Len(q) \in Nat
      /\ \A k \in 1..Len(q) : p[k] = q[k]
      /\ p[Len(q) + 1] = f
  BY AppendProperties
<1> HIDE DEF p
<1>2. \A k : k \in 1..Len(p) <=> k \in 1..Len(q) \/ k = Len(q) + 1
  BY <1>1
<1>3. ~(Len(q) + 1 \in 1..Len(q))
  BY <1>1
<1> QED
  BY <1>1, <1>2, <1>3 DEF AsksIn, p

LEMMA AsksTaken ==
  ASSUME NEW q \in Seq(Request), q # <<>>
  PROVE  /\ \A k \in AsksIn(Tail(q)) : /\ k + 1 \in AsksIn(q) /\ k + 1 # 1
                                       /\ Tail(q)[k] = q[k + 1]
         /\ Head(q).t = "SYNC_REQ" => 1 \in AsksIn(q) /\ Head(q) = q[1]
<1> DEFINE p == Tail(q)
<1>1. Len(q) \in Nat /\ Len(q) # 0 /\ Head(q) = q[1]
  BY EmptySeq
<1>2. /\ p \in Seq(Request) /\ Len(p) = Len(q) - 1
      /\ \A k \in 1..Len(p) : p[k] = q[k + 1]
  BY HeadTailProperties
<1> HIDE DEF p
<1>3. \A k \in AsksIn(p) : k + 1 \in AsksIn(q) /\ k + 1 # 1 /\ p[k] = q[k + 1]
  BY <1>1, <1>2 DEF AsksIn
<1>4. Head(q).t = "SYNC_REQ" => 1 \in AsksIn(q)
  BY <1>1 DEF AsksIn
<1> QED
  BY <1>1, <1>3, <1>4 DEF p

\* The frames of a broadcast, on the paths there are.
LEMMA SendsAre ==
  ASSUME TypeInv, Paths, NEW fs, NEW next, NEW byRelay \in BOOLEAN,
         Batch(host, fs, next), Broadcast(fs, byRelay), relayed => byRelay
  PROVE  /\ Chained(channel') /\ Carries(channel', next)
         /\ AnswersIn(channel') = AnswersIn(channel)
         /\ ~hostEnd => channel = <<>> /\ channel' = <<>>
         /\ channel # <<>> => channel' # <<>> /\ channel'[1] = channel[1]
         /\ channel = <<>> /\ hostEnd =>
              /\ channel' # <<>> /\ channel'[1].t # "SYNC_RES"
              /\ Links(StateUpdate(host), channel'[1])
         /\ Chained(relay') /\ Carries(relay', next)
         /\ AnswersIn(relay') = {}
         /\ relay' # <<>> => byRelay
         /\ path = "dc" => relay' = <<>>
         /\ relay # <<>> => relay' # <<>> /\ relay'[1] = relay[1]
         /\ relay = <<>> /\ byRelay /\ path # "dc" =>
              /\ relay' # <<>>
              /\ Links(StateUpdate(host), relay'[1])
<1>1. host \in Views /\ channel \in Seq(Frames) /\ relay \in Seq(Frames)
  BY DEF TypeInv
<1>2. /\ Chained(channel) /\ Carries(channel, host)
      /\ Chained(relay) /\ Carries(relay, host) /\ AnswersIn(relay) = {}
  BY DEF Paths
<1>3. /\ channel \o fs # <<>> /\ Chained(channel \o fs) /\ Carries(channel \o fs, next)
      /\ AnswersIn(channel \o fs) = AnswersIn(channel)
      /\ channel # <<>> => (channel \o fs)[1] = channel[1]
      /\ channel = <<>> => /\ (channel \o fs)[1].t # "SYNC_RES"
                           /\ Links(StateUpdate(host), (channel \o fs)[1])
  BY <1>1, <1>2, AppendsBatch
<1>4. /\ relay \o fs # <<>> /\ Chained(relay \o fs) /\ Carries(relay \o fs, next)
      /\ AnswersIn(relay \o fs) = AnswersIn(relay)
      /\ relay # <<>> => (relay \o fs)[1] = relay[1]
      /\ relay = <<>> => Links(StateUpdate(host), (relay \o fs)[1])
  BY <1>1, <1>2, AppendsBatch
<1>5. Carries(<<>>, next)
  BY DEF Carries
<1>6. CASE hostEnd
  <2>1. channel' = channel \o fs
    BY <1>6 DEF Broadcast
  <2>2. CASE byRelay /\ path # "dc"
    <3>1. relay' = relay \o fs
      BY <2>2 DEF Broadcast
    <3> QED
      BY <1>2, <1>3, <1>4, <1>6, <2>1, <2>2, <3>1
  <2>3. CASE ~(byRelay /\ path # "dc")
    <3>1. relay' = relay /\ relay = <<>>
      BY <2>3 DEF Broadcast, Paths
    <3> QED
      BY <1>2, <1>3, <1>5, <1>6, <2>1, <2>3, <3>1
  <2> QED
    BY <2>2, <2>3
<1>7. CASE ~hostEnd
  <2>1. channel' = <<>> /\ channel = <<>>
    BY <1>7 DEF Broadcast, Paths
  <2>2. CASE byRelay /\ path # "dc"
    <3>1. relay' = relay \o fs
      BY <2>2 DEF Broadcast
    <3> QED
      BY <1>2, <1>4, <1>5, <1>7, <2>1, <2>2, <3>1
  <2>3. CASE ~(byRelay /\ path # "dc")
    <3>1. relay' = relay /\ relay = <<>>
      BY <2>3 DEF Broadcast, Paths
    <3> QED
      BY <1>2, <1>5, <1>7, <2>1, <2>3, <3>1
  <2> QED
    BY <2>2, <2>3
<1> QED
  BY <1>6, <1>7

LEMMA EmptyWay ==
  /\ Chained(<<>>) /\ (\A s : Carries(<<>>, s)) /\ AnswersIn(<<>>) = {} /\ AsksIn(<<>>) = {}
<1>1. Len(<<>>) = 0 /\ 1..0 = {} /\ 1 .. 0 - 1 = {}
  OBVIOUS
<1> QED
  BY <1>1 DEF Chained, Carries, AnswersIn, AsksIn

LEMMA NoAnswerFirst ==
  ASSUME NEW q \in Seq(Frames), q # <<>>, AnswersIn(q) = {}
  PROVE  q[1].t # "SYNC_RES"
<1>1. 1 \in 1..Len(q)
  BY EmptySeq
<1> QED
  BY <1>1 DEF AnswersIn

LEMMA WaySends ==
  ASSUME TypeInv, WayInv, NEW fs, NEW byRelay \in BOOLEAN, NEW d \in {0, 1},
         Batch(host, fs, host'), Broadcast(fs, byRelay),
         relayed => byRelay, relayed' = byRelay,
         UNCHANGED <<hostEnd, reads, path, replica>>,
         \A k \in AsksIn(requests.dc') : /\ k + d \in AsksIn(requests.dc)
                                         /\ requests.dc'[k] = requests.dc[k + d]
  PROVE  WayInv'
<1>1. Paths /\ One /\ Firsts
  BY DEF WayInv
<1>2. /\ Chained(channel') /\ Carries(channel', host')
      /\ AnswersIn(channel') = AnswersIn(channel)
      /\ ~hostEnd => channel = <<>> /\ channel' = <<>>
      /\ channel # <<>> => channel' # <<>> /\ channel'[1] = channel[1]
      /\ channel = <<>> /\ hostEnd => channel' # <<>> /\ channel'[1].t # "SYNC_RES"
      /\ Chained(relay') /\ Carries(relay', host') /\ AnswersIn(relay') = {}
      /\ relay' # <<>> => byRelay
      /\ path = "dc" => relay' = <<>>
  BY <1>1, SendsAre
<1>3. Paths'
  BY <1>1, <1>2 DEF Paths
<1>4. AsksIn(requests.dc) = {} => AsksIn(requests.dc') = {}
  OBVIOUS
<1>5. \A k \in AsksIn(requests.dc') : k \in Int
  BY DEF AsksIn
<1>6. One'
  <2>1. \A i, j \in AsksIn(requests.dc') : i = j
    BY <1>1, <1>5 DEF One
  <2>2. AnswersIn(channel)' = AnswersIn(channel)
    BY <1>2
  <2> QED
    BY <1>1, <1>4, <2>1, <2>2 DEF One
<1>7. Firsts'
  <2>1. CASE channel' = <<>>
    <3>1. channel = <<>> /\ path # "dc"
      BY <1>1, <1>2, <2>1 DEF Paths
    <3>2. reads = <<>> /\ AsksIn(requests.dc) = {}
      BY <1>1, <3>1 DEF One
    <3>3. Len(reads') = 0
      BY <3>2
    <3> QED
      BY <1>4, <2>1, <3>2, <3>3 DEF Firsts
  <2>2. CASE channel' # <<>>
    BY <1>1, <1>2, <2>2 DEF Firsts, Paths
  <2> QED
    BY <2>1, <2>2
<1> QED
  BY <1>3, <1>6, <1>7 DEF WayInv

LEMMA WayHost ==
  ASSUME TypeInv, WayInv, Host \/ HostAsks \/ HostEndOpens
  PROVE  WayInv'
<1>1. CASE Host
  <2>1. PICK fs : /\ Batch(host, fs, host')
                  /\ Broadcast(fs, relayed)
                  /\ UNCHANGED <<member, hostEnd, relayed, reads, requests, pageVars,
                                 settled, losses, reloads>>
    BY <1>1, HostSends
  <2>2. \A k \in AsksIn(requests.dc') : /\ k + 0 \in AsksIn(requests.dc)
                                        /\ requests.dc'[k] = requests.dc[k + 0]
    <3>1. requests' = requests /\ \A k \in AsksIn(requests.dc) : k + 0 = k
      BY <2>1 DEF AsksIn
    <3> QED
      BY <3>1
  <2>3. relayed \in BOOLEAN /\ 0 \in {0, 1}
    BY DEF TypeInv
  <2> QED
    BY <2>1, <2>2, <2>3, WaySends DEF pageVars
<1>2. CASE HostAsks
  BY <1>2 DEF HostAsks, WayInv, Paths, One, Firsts, pageVars
<1>3. CASE HostEndOpens
  <2>1. Paths /\ One /\ Firsts
    BY DEF WayInv
  <2>2. hostEnd' = TRUE /\ UNCHANGED <<host, relayed, reads, channel, relay, requests, path, replica>>
    BY <1>3 DEF HostEndOpens, pageVars
  <2>3. Paths'
    BY <2>1, <2>2 DEF Paths
  <2>4. One' /\ Firsts'
    BY <2>1, <2>2 DEF One, Firsts
  <2> QED
    BY <2>3, <2>4 DEF WayInv
<1> QED
  BY <1>1, <1>2, <1>3

\* What the host takes from the data channel's requests, or leaves there.
LEMMA AsksLeft ==
  ASSUME TypeInv, NEW via \in {"dc", "relay"}, requests[via] # <<>>, Taken(via)
  PROVE  /\ via = "dc" => requests.dc # <<>> /\ requests.dc' = Tail(requests.dc)
         /\ via = "relay" => requests.dc' = requests.dc /\ Head(requests[via]).t = "JOIN_GAME"
         /\ \E d \in {0, 1} :
              \A k \in AsksIn(requests.dc') : /\ k + d \in AsksIn(requests.dc)
                                              /\ requests.dc'[k] = requests.dc[k + d]
<1>1. requests \in Posts /\ requests' = [requests EXCEPT ![via] = Tail(@)]
  BY DEF TypeInv, Posts, Taken
<1>2. /\ requests'.dc = IF via = "dc" THEN Tail(requests.dc) ELSE requests.dc
      /\ via = "relay" => Head(requests[via]).t = "JOIN_GAME"
  BY <1>1, PostTaken
<1>3. CASE via = "dc"
  <2>1. requests.dc # <<>> /\ requests.dc' = Tail(requests.dc) /\ requests.dc \in Seq(Request)
    BY <1>1, <1>2, <1>3, PostsAre
  <2>2. \A k \in AsksIn(requests.dc') : /\ k + 1 \in AsksIn(requests.dc)
                                        /\ requests.dc'[k] = requests.dc[k + 1]
    BY <2>1, AsksTaken
  <2> QED
    BY <1>3, <2>1, <2>2
<1>4. CASE via = "relay"
  <2>1. requests.dc' = requests.dc
    BY <1>2, <1>4
  <2>2. \A k \in AsksIn(requests.dc) : k + 0 = k
    BY DEF AsksIn
  <2> QED
    BY <1>2, <1>4, <2>1, <2>2
<1> QED
  BY <1>3, <1>4

LEMMA WayJoin ==
  ASSUME TypeInv, WayInv, NEW via \in {"dc", "relay"}, TakeJoin(via)
  PROVE  WayInv'
<1>1. /\ requests[via] # <<>> /\ Taken(via)
      /\ relayed' = (relayed \/ via = "relay")
      /\ UNCHANGED <<host, hostEnd, reads, path, replica>>
  BY DEF TakeJoin, Asked, pageVars
<1>2. PICK d \in {0, 1} :
        \A k \in AsksIn(requests.dc') : /\ k + d \in AsksIn(requests.dc)
                                        /\ requests.dc'[k] = requests.dc[k + d]
  BY <1>1, AsksLeft
<1>3. relayed' \in BOOLEAN /\ (relayed => relayed')
  BY <1>1 DEF TypeInv
<1>4. CASE Broadcast(<<StateUpdate(host)>>, relayed')
  <2>1. Batch(host, <<StateUpdate(host)>>, host')
    BY <1>1, HostRepeats
  <2> QED
    BY <1>1, <1>2, <1>3, <1>4, <2>1, WaySends
<1>5. CASE UNCHANGED <<channel, relay>>
  <2>1. Paths /\ One /\ Firsts
    BY DEF WayInv
  <2>2. Paths'
    BY <1>1, <1>3, <1>5, <2>1 DEF Paths
  <2>3. \A k \in AsksIn(requests.dc') : k \in Int
    BY DEF AsksIn
  <2>4. \A i, j \in AsksIn(requests.dc') : i = j
    BY <1>2, <2>1, <2>3 DEF One
  <2>5. AsksIn(requests.dc) = {} => AsksIn(requests.dc') = {}
    BY <1>2
  <2>6. One'
    BY <1>1, <1>5, <2>1, <2>4, <2>5 DEF One
  <2>7. Firsts'
    BY <1>1, <1>2, <1>5, <2>1 DEF Firsts
  <2> QED
    BY <2>2, <2>6, <2>7 DEF WayInv
<1> QED
  BY <1>4, <1>5 DEF TakeJoin

LEMMA WaySync ==
  ASSUME TypeInv, WayInv, NEW via \in {"dc", "relay"}, TakeSyncReq(via)
  PROVE  WayInv'
<1> DEFINE q == Head(requests[via])
           sts == Slice(q.round, q.from, log[q.round])
<1>1. /\ requests[via] # <<>> /\ Taken(via) /\ q.t = "SYNC_REQ"
      /\ reads' = Append(reads, sts)
      /\ UNCHANGED <<host, hostEnd, relayed, channel, relay, path, replica>>
  BY DEF TakeSyncReq, Asked, pageVars
<1>2. /\ via = "dc" /\ requests.dc # <<>> /\ requests.dc' = Tail(requests.dc)
      /\ requests.dc \in Seq(Request)
  BY <1>1, AsksLeft, PostsAre DEF TypeInv, Posts
<1>3. q = Head(requests.dc)
  BY <1>2
<1> HIDE DEF q
<1>4. 1 \in AsksIn(requests.dc) /\ q = requests.dc[1] /\ q \in Request
  BY <1>1, <1>2, <1>3, AsksTaken, HeadTailProperties
<1>5. Paths /\ One /\ Firsts
  BY DEF WayInv
<1>6. /\ AsksIn(requests.dc') = {}
      /\ reads = <<>> /\ AnswersIn(channel) = {}
      /\ replica.inFlight /\ path = "dc"
  BY <1>2, <1>4, <1>5, AsksTaken DEF One
<1>7. reads' = <<sts>>
  BY <1>1, <1>6
<1>8. Above(sts, q.from) /\ q.from \in Int /\ sts \in Seq(Stroke)
  <2>1. q.from \in 0..PerRound /\ q.round \in 0..MaxRound
    BY <1>1, <1>4, RequestsAre
  <2>2. log[q.round] \in 0..PerRound
    BY <2>1, LoggedIs
  <2>3. sts \in Seq(Stroke) /\ Between(sts, q.from, log[q.round])
    BY <2>1, <2>2, SliceIs
  <2> HIDE DEF sts
  <2>4. q.from \in Int
    BY <2>1, StrokeFacts
  <2> QED
    BY <2>3, <2>4 DEF Between
<1> HIDE DEF sts
<1>9. Len(reads') = 1 /\ reads'[1] = sts
  BY <1>7
<1>10. Paths'
  BY <1>1, <1>5 DEF Paths
<1>11. One'
  BY <1>1, <1>6, <1>9 DEF One
<1>12. ASSUME channel = <<>>, replica.view # host
       PROVE  Above(sts, replica.floor.idx)
  <2>1. q.from >= replica.floor.idx
    BY <1>4, <1>5, <1>12 DEF Firsts
  <2>2. replica.floor.idx \in Int
    BY FloorFacts DEF TypeInv, Replicas
  <2>3. \A i \in 1..Len(sts) : sts[i].idx \in Int
    <3>1. \A i \in 1..Len(sts) : sts[i] \in Stroke
      BY <1>8, ElementOfSeq
    <3> QED
      BY <3>1, StrokeFacts
  <2> QED
    BY <1>8, <2>1, <2>2, <2>3 DEF Above
<1>13. Firsts'
  BY <1>1, <1>5, <1>6, <1>9, <1>12 DEF Firsts
<1> QED
  BY <1>10, <1>11, <1>13 DEF WayInv

LEMMA WayAnswer ==
  ASSUME TypeInv, WayInv, AnswerSync
  PROVE  WayInv'
<1> DEFINE f == SyncRes(host, Head(reads))
<1>1. /\ reads # <<>> /\ reads' = Tail(reads)
      /\ channel' = Append(channel, f)
      /\ UNCHANGED <<host, hostEnd, relayed, relay, requests, path, replica>>
  BY DEF AnswerSync, pageVars
<1>2. Paths /\ One /\ Firsts
  BY DEF WayInv
<1>3. reads \in Seq(Slices) /\ channel \in Seq(Frames) /\ host \in Views
  BY DEF TypeInv
<1>4. /\ Len(reads) = 1 /\ Head(reads) = reads[1] /\ Head(reads) \in Slices
      /\ reads' = <<>>
  <2>1. Len(reads) \in Nat /\ Len(reads) # 0 /\ Head(reads) = reads[1]
    BY <1>1, <1>3, EmptySeq
  <2>2. Len(reads) = 1
    <3>1. Len(reads) <= 1
      BY <1>2 DEF One
    <3> QED
      BY ONLY <2>1, <3>1
  <2>3. reads' \in Seq(Slices) /\ Len(reads') = 0 /\ Head(reads) \in Slices
    BY <1>1, <1>3, <2>2, HeadTailProperties
  <2> QED
    BY <2>1, <2>2, <2>3, EmptySeq
<1>5. /\ AsksIn(requests.dc) = {} /\ AnswersIn(channel) = {}
      /\ replica.inFlight /\ path = "dc" /\ hostEnd
  BY <1>1, <1>2 DEF One, Paths
<1>6. /\ f \in Frames /\ f.t = "SYNC_RES" /\ f.state = host /\ f.strokes = Head(reads)
  BY <1>3, <1>4, FramesAre
<1> HIDE DEF f
<1>7. channel # <<>> => Links(channel[Len(channel)], f)
  <2>1. StateUpdate(host).t = "STATE_UPDATE" /\ StateUpdate(host).state = host
    BY <1>3, FramesAre
  <2>2. Links(StateUpdate(host), f)
    BY <1>6, <2>1 DEF Links
  <2> QED
    BY <1>2, <2>2, LinksFrom DEF Paths, Carries
<1>8. /\ channel' # <<>> /\ Chained(channel') /\ channel'[Len(channel')] = f
      /\ channel'[1] = IF channel = <<>> THEN f ELSE channel[1]
      /\ AnswersIn(channel') = {Len(channel) + 1}
  BY <1>1, <1>2, <1>3, <1>5, <1>6, <1>7, AppendsFrame DEF Paths
<1>9. Carries(channel', host)
  BY <1>6, <1>8 DEF Carries, Brings
<1>10. Paths'
  BY <1>1, <1>2, <1>5, <1>8, <1>9 DEF Paths
<1>11. One'
  <2>1. Len(reads') = 0
    BY <1>4
  <2> QED
    BY <1>1, <1>4, <1>5, <1>8, <2>1 DEF One
<1>12. Firsts'
  <2>1. CASE channel = <<>>
    <3>1. channel'[1] = f
      BY <1>8, <2>1
    <3>2. replica.view = host \/ Above(Head(reads), replica.floor.idx)
      BY <1>2, <1>4, <2>1 DEF Firsts
    <3> QED
      BY <1>1, <1>6, <1>8, <3>1, <3>2 DEF Firsts
  <2>2. CASE channel # <<>>
    <3>1. channel'[1].t # "SYNC_RES"
      BY <1>3, <1>5, <1>8, <2>2, NoAnswerFirst
    <3> QED
      BY <1>8, <3>1 DEF Firsts
  <2> QED
    BY <2>1, <2>2
<1> QED
  BY <1>10, <1>11, <1>12 DEF WayInv

\* A failed read leaves nothing under way.
LEMMA WayFails ==
  ASSUME TypeInv, WayInv, ReadFails
  PROVE  WayInv'
<1>1. /\ reads # <<>> /\ reads' = Tail(reads)
      /\ UNCHANGED <<host, hostEnd, relayed, channel, relay, requests, path, replica>>
  BY DEF ReadFails, pageVars
<1>2. Paths /\ One /\ Firsts
  BY DEF WayInv
<1>3. Len(reads') = 0 /\ reads' = <<>>
  <2>1. reads \in Seq(Slices)
    BY DEF TypeInv
  <2>2. Len(reads) \in Nat /\ Len(reads) # 0
    BY <1>1, <2>1, EmptySeq
  <2>3. Len(reads) <= 1
    BY <1>2 DEF One
  <2>4. Len(reads) = 1
    BY ONLY <2>2, <2>3
  <2>5. reads' \in Seq(Slices) /\ Len(reads') = 0
    BY <1>1, <2>1, <2>4, HeadTailProperties
  <2> QED
    BY <2>5, EmptySeq
<1>4. AsksIn(requests.dc) = {} /\ AnswersIn(channel) = {}
  BY <1>1, <1>2 DEF One
<1>5. Paths'
  BY <1>1, <1>2 DEF Paths
<1>6. One'
  BY <1>1, <1>3, <1>4 DEF One
<1>7. Firsts'
  BY <1>1, <1>2, <1>3, <1>4 DEF Firsts
<1> QED
  BY <1>5, <1>6, <1>7 DEF WayInv

LEMMA WayPaths ==
  ASSUME TypeInv, WayInv, FallBack \/ PeerOpen
  PROVE  WayInv'
<1>1. Paths /\ One /\ Firsts
  BY DEF WayInv
<1>2. AsksIn(requests.dc) = {} /\ reads = <<>> /\ AnswersIn(channel) = {}
  BY <1>1 DEF FallBack, PeerOpen, One
<1>3. requests \in Posts /\ replica \in Replicas /\ channel \in Seq(Frames)
  BY DEF TypeInv, Posts
<1>4. CASE FallBack
  <2>1. /\ path' = "relay"
        /\ UNCHANGED <<host, hostEnd, relayed, reads, channel, relay, replica>>
    BY <1>4 DEF FallBack, hostVars
  <2>2. requests.dc' = requests.dc
    BY <1>3, <1>4, PostAdded, RequestsAre DEF FallBack
  <2>3. Paths'
    BY <1>1, <1>4, <2>1 DEF Paths, FallBack
  <2>4. One'
    BY <1>1, <1>2, <2>1, <2>2 DEF One
  <2>5. Firsts'
    BY <1>1, <2>1, <2>2 DEF Firsts
  <2> QED
    BY <2>3, <2>4, <2>5 DEF WayInv
<1>5. CASE PeerOpen
  <2> DEFINE a == Asking(replica)
             j == Append(requests.dc, Joining)
  <2>1. /\ path' = "dc" /\ relay' = <<>> /\ hostEnd
        /\ UNCHANGED <<host, hostEnd, relayed, reads, channel>>
    BY <1>5 DEF PeerOpen, hostVars
  <2>2. /\ Joining \in Request /\ Joining.t = "JOIN_GAME"
        /\ a \in Request /\ a.t = "SYNC_REQ" /\ a.from = replica.floor.idx
    BY <1>3, RequestsAre
  <2>3. requests.dc \in Seq(Request) /\ j \in Seq(Request)
    BY <1>3, <2>2, PostsAre
  <2>4. AsksIn(j) = {}
    BY <1>2, <2>2, <2>3, AsksAppended
  <2>5. requests.dc' = IF replica.inFlight THEN j ELSE Append(j, a)
    <3>1. requests' = [requests EXCEPT !.dc = @ \o IF replica.inFlight THEN <<Joining>>
                                                   ELSE <<Joining, a>>]
      BY <1>5 DEF PeerOpen
    <3> HIDE DEF a
    <3>2. requests.dc' = requests.dc \o IF replica.inFlight THEN <<Joining>> ELSE <<Joining, a>>
      BY <1>3, <3>1, PostsAre
    <3>3. requests.dc \o <<Joining>> = j
      BY <2>2, <2>3, AppendIsConcat
    <3>4. requests.dc \o <<Joining, a>> = Append(j, a)
      <4>1. <<Joining>> \in Seq(Request) /\ <<a>> \in Seq(Request)
        BY <2>2
      <4>2. <<Joining>> \o <<a>> = <<Joining, a>>
        <5>1. <<Joining, a>> = Append(<<Joining>>, a)
          OBVIOUS
        <5> QED
          BY <2>2, <4>1, <5>1, AppendIsConcat
      <4>3. requests.dc \o (<<Joining>> \o <<a>>) = (requests.dc \o <<Joining>>) \o <<a>>
        BY <2>3, <4>1, ConcatAssociative
      <4>4. j \o <<a>> = Append(j, a)
        BY <2>2, <2>3, AppendIsConcat
      <4> QED
        BY <3>3, <4>2, <4>3, <4>4
    <3> QED
      BY <3>2, <3>3, <3>4
  <2> HIDE DEF a, j
  <2>6. \/ AsksIn(requests.dc') = {}
        \/ /\ AsksIn(requests.dc') = {Len(j) + 1}
           /\ requests.dc'[Len(j) + 1].from = replica.floor.idx
    <3>1. CASE replica.inFlight
      BY <2>4, <2>5, <3>1
    <3>2. CASE ~replica.inFlight
      BY <2>2, <2>3, <2>4, <2>5, <3>2, AsksAppended
    <3> QED
      BY <3>1, <3>2
  <2>7. /\ replica'.view = replica.view /\ replica'.floor = replica.floor
        /\ replica'.inFlight = TRUE
    <3>1. replica' = [replica EXCEPT !.inFlight = TRUE]
      BY <1>5 DEF PeerOpen
    <3> QED
      BY <1>3, <3>1 DEF Replicas
  <2>8. Paths'
    BY <1>1, <2>1, EmptyWay DEF Paths
  <2>9. One'
    <3>1. Len(reads') = 0
      BY <1>2, <2>1
    <3> QED
      BY <1>2, <2>1, <2>6, <2>7, <3>1 DEF One
  <2>10. Firsts'
    <3>1. replica.floor.idx \in Int
      BY <1>3, FloorFacts DEF Replicas
    <3>2. channel' # <<>> => channel'[1].t # "SYNC_RES"
      BY <1>2, <1>3, <2>1, NoAnswerFirst
    <3>3. \A k \in AsksIn(requests.dc') : requests.dc'[k].from >= replica'.floor.idx
      BY <2>6, <2>7, <3>1
    <3>4. Len(reads') = 0
      BY <1>2, <2>1
    <3> QED
      BY <3>2, <3>3, <3>4 DEF Firsts
  <2> QED
    BY <2>8, <2>9, <2>10 DEF WayInv
<1> QED
  BY <1>4, <1>5

\* What a frame does to the replica, the canvas and the requests.
LEMMA Received ==
  ASSUME TypeInv, NEW f \in Frames, Receive(f)
  PROVE  LET a == Apply(Quiet(replica), f)
         IN  /\ a \in Working /\ Bookkept(a)
             /\ replica' = Kept(a)
             /\ replica'.view = a.view /\ replica'.floor = a.floor
             /\ replica'.pending = a.pending /\ replica'.inFlight = a.inFlight
             /\ canvas' = IF shown.status = "DRAWING" THEN canvas \o a.out ELSE canvas
             /\ ~(a.ask /\ path = "dc") => requests' = requests
             /\ a.ask /\ path = "dc" =>
                  \E q \in Request : /\ requests.dc' = Append(requests.dc, q)
                                     /\ q.t = "SYNC_REQ" /\ q.from = a.floor.idx
<1> DEFINE a == Apply(Quiet(replica), f)
           q == [Asking(a) EXCEPT !.round = KnownRound(a)]
<1>1. a \in Working /\ Bookkept(a)
  BY ApplyIs DEF TypeInv
<1>2. /\ replica' = Kept(a)
      /\ canvas' = IF shown.status = "DRAWING" THEN canvas \o a.out ELSE canvas
      /\ requests' = IF a.ask /\ path = "dc"
                     THEN [requests EXCEPT !.dc = Append(@, q)]
                     ELSE requests
  BY DEF Receive
<1> HIDE DEF a
<1>3. /\ Kept(a).view = a.view /\ Kept(a).floor = a.floor
      /\ Kept(a).pending = a.pending /\ Kept(a).inFlight = a.inFlight
  BY <1>1, KeptIs
<1>4. /\ q \in Request /\ q.t = "SYNC_REQ" /\ q.from = a.floor.idx
      /\ requests \in Posts
  BY <1>1, RequestsAre DEF TypeInv, Posts
<1> HIDE DEF q
<1>5. a.ask /\ path = "dc" => requests.dc' = Append(requests.dc, q)
  BY <1>2, <1>4, PostAdded
<1> QED
  BY <1>1, <1>2, <1>3, <1>4, <1>5 DEF a

\* The same by what the frame is.
LEMMA ReceivedState ==
  ASSUME TypeInv, NEW f \in Frames, Receive(f), f.t = "STATE_UPDATE"
  PROVE  /\ f.state \in Views /\ replica'.view = f.state
         /\ replica'.inFlight = replica.inFlight
         /\ requests' = requests /\ canvas' = canvas
         /\ replica.pending = <<>> => replica'.pending = <<>>
         /\ f.state.round >= 0 /\ replica.floor.round = f.state.round =>
              replica'.floor.idx = IF f.state.count > replica.floor.idx
                                   THEN f.state.count ELSE replica.floor.idx
         /\ f.state.round >= 0 /\ replica.floor.round # f.state.round =>
              /\ replica'.floor.idx = f.state.count
              /\ replica'.pending = <<>>
<1> DEFINE r == Quiet(replica)
           a == Apply(r, f)
<1>1. /\ replica'.view = a.view /\ replica'.floor = a.floor
      /\ replica'.pending = a.pending /\ replica'.inFlight = a.inFlight
      /\ canvas' = IF shown.status = "DRAWING" THEN canvas \o a.out ELSE canvas
      /\ ~(a.ask /\ path = "dc") => requests' = requests
  BY Received
<1>2. /\ r \in Working /\ r.view = replica.view /\ r.floor = replica.floor
      /\ r.pending = replica.pending /\ r.inFlight = replica.inFlight
      /\ r.out = <<>> /\ r.ask = FALSE
  BY QuietIs DEF TypeInv
<1>3. a = ApplyState(r, f.state) /\ f.state \in Views
  BY FrameFacts DEF Apply
<1> HIDE DEF r, a
<1>4. /\ a.view = f.state
      /\ a.out = <<>> /\ a.inFlight = replica.inFlight /\ a.ask = FALSE
      /\ f.state.round >= 0 /\ replica.floor.round = f.state.round =>
           a.floor.idx = IF f.state.count > replica.floor.idx
                         THEN f.state.count ELSE replica.floor.idx
      /\ f.state.round >= 0 /\ replica.floor.round # f.state.round =>
           a.floor.idx = f.state.count
      /\ replica.pending = <<>> => a.pending = <<>>
      /\ f.state.round >= 0 /\ replica.floor.round # f.state.round => a.pending = <<>>
  BY <1>2, <1>3, ApplyStateIs
<1>5. canvas' = canvas
  <2>1. canvas \o <<>> = canvas
    BY ConcatEmptySeq DEF TypeInv
  <2> QED
    BY <1>1, <1>4, <2>1
<1>6. requests' = requests
  BY <1>1, <1>4
<1> QED
  BY <1>1, <1>3, <1>4, <1>5, <1>6

LEMMA ReceivedStroke ==
  ASSUME TypeInv, NEW f \in Frames, Receive(f), f.t = "STROKE_ADDED"
  PROVE  /\ f.stroke \in Stroke /\ replica'.view = replica.view
         /\ replica'.floor.idx >= replica.floor.idx
         /\ \E out \in Seq(Stroke) :
              /\ canvas' = IF shown.status = "DRAWING" THEN canvas \o out ELSE canvas
              /\ Between(out, replica.floor.idx, replica'.floor.idx)
         /\ \/ requests' = requests /\ (replica.inFlight => replica'.inFlight)
            \/ /\ ~replica.inFlight /\ replica'.inFlight /\ path = "dc"
               /\ \E q \in Request : /\ requests.dc' = Append(requests.dc, q)
                                     /\ q.t = "SYNC_REQ" /\ q.from = replica'.floor.idx
         /\ replica.view.round >= 0 /\ f.stroke.idx = replica.floor.idx
              /\ replica.pending = <<>> =>
              /\ replica'.floor.idx = f.stroke.idx + 1 /\ replica'.pending = <<>>
              /\ replica'.inFlight = replica.inFlight /\ requests' = requests
              /\ canvas' = IF shown.status = "DRAWING" THEN canvas \o <<f.stroke>> ELSE canvas
<1> DEFINE r == Quiet(replica)
           a == Apply(r, f)
<1>1. /\ replica'.view = a.view /\ replica'.floor = a.floor
      /\ replica'.pending = a.pending /\ replica'.inFlight = a.inFlight
      /\ canvas' = IF shown.status = "DRAWING" THEN canvas \o a.out ELSE canvas
      /\ ~(a.ask /\ path = "dc") => requests' = requests
      /\ a.ask /\ path = "dc" =>
           \E q \in Request : /\ requests.dc' = Append(requests.dc, q)
                              /\ q.t = "SYNC_REQ" /\ q.from = a.floor.idx
  BY Received
<1>2. /\ r \in Working /\ r.view = replica.view /\ r.floor = replica.floor
      /\ r.pending = replica.pending /\ r.inFlight = replica.inFlight
      /\ r.out = <<>> /\ r.ask = FALSE
  BY QuietIs DEF TypeInv
<1>3. a = ApplyStroke(r, f.stroke) /\ f.stroke \in Stroke
  BY FrameFacts DEF Apply
<1>4. Bookkept(r)
  BY <1>2 DEF Bookkept, TypeInv
<1> HIDE DEF r, a
<1>5. /\ a \in Working /\ a.view = replica.view
      /\ a.floor.idx >= replica.floor.idx
      /\ Between(a.out, replica.floor.idx, a.floor.idx)
      /\ a.ask => ~replica.inFlight /\ a.inFlight
      /\ ~a.ask => a.inFlight = replica.inFlight
      /\ replica.view.round >= 0 /\ f.stroke.idx = replica.floor.idx
           /\ replica.pending = <<>> =>
           /\ a.floor.idx = f.stroke.idx + 1 /\ a.out = <<f.stroke>> /\ a.pending = <<>>
           /\ ~a.ask
  <2> DEFINE b == ApplyStroke(r, f.stroke)
  <2>1. /\ b \in Working /\ b.view = r.view
        /\ b.floor.idx >= r.floor.idx
        /\ Between(b.out, r.floor.idx, b.floor.idx)
        /\ b.ask => ~r.inFlight /\ b.inFlight
        /\ ~b.ask => b.inFlight = r.inFlight
        /\ r.view.round >= 0 /\ f.stroke.idx = r.floor.idx /\ r.pending = <<>> =>
             /\ b.floor.idx = f.stroke.idx + 1 /\ b.out = <<f.stroke>> /\ b.pending = <<>>
             /\ ~b.ask
    BY <1>2, <1>3, <1>4, ApplyStrokeIs
  <2> HIDE DEF b
  <2>2. a = b
    BY <1>3 DEF b
  <2>3. /\ a.ask => ~replica.inFlight /\ a.inFlight
        /\ ~a.ask => a.inFlight = replica.inFlight
    BY <1>2, <2>1, <2>2
  <2>4. replica.view.round >= 0 /\ f.stroke.idx = replica.floor.idx
          /\ replica.pending = <<>> =>
          /\ a.floor.idx = f.stroke.idx + 1 /\ a.out = <<f.stroke>> /\ a.pending = <<>>
          /\ ~a.ask
    BY <1>2, <2>1, <2>2
  <2> QED
    BY <1>2, <2>1, <2>2, <2>3, <2>4
<1>6. a.out \in Seq(Stroke)
  BY <1>5, WorkingFacts
<1>7. \/ requests' = requests /\ (replica.inFlight => replica'.inFlight)
      \/ /\ ~replica.inFlight /\ replica'.inFlight /\ path = "dc"
         /\ \E q \in Request : /\ requests.dc' = Append(requests.dc, q)
                               /\ q.t = "SYNC_REQ" /\ q.from = replica'.floor.idx
  <2>1. CASE a.ask /\ path = "dc"
    BY <1>1, <1>5, <2>1
  <2>2. CASE ~(a.ask /\ path = "dc")
    BY <1>1, <1>5, <2>2
  <2> QED
    BY <2>1, <2>2
<1>8. \E out \in Seq(Stroke) :
        /\ canvas' = IF shown.status = "DRAWING" THEN canvas \o out ELSE canvas
        /\ Between(out, replica.floor.idx, replica'.floor.idx)
  BY <1>1, <1>5, <1>6
<1>9. ASSUME replica.view.round >= 0, f.stroke.idx = replica.floor.idx, replica.pending = <<>>
      PROVE  /\ replica'.floor.idx = f.stroke.idx + 1 /\ replica'.pending = <<>>
             /\ replica'.inFlight = replica.inFlight /\ requests' = requests
             /\ canvas' = IF shown.status = "DRAWING" THEN canvas \o <<f.stroke>> ELSE canvas
  BY <1>1, <1>5, <1>9
<1> QED
  BY <1>1, <1>3, <1>5, <1>7, <1>8, <1>9

LEMMA ReceivedSync ==
  ASSUME TypeInv, NEW f \in Frames, Receive(f), f.t = "SYNC_RES"
  PROVE  /\ f.state \in Views /\ replica'.view = f.state
         /\ ~replica'.inFlight /\ requests' = requests
         /\ \E out \in Seq(Stroke) :
              /\ canvas' = IF shown.status = "DRAWING" THEN canvas \o out ELSE canvas
              /\ Rising(out)
              /\ f.state.round >= 0 => Below(out, replica'.floor.idx)
              /\ f.state.round >= 0 /\ replica.floor.round = f.state.round =>
                   replica'.floor.idx >= replica.floor.idx
              /\ replica.floor.round = f.state.round \/ Above(f.strokes, replica.floor.idx) =>
                   Above(out, replica.floor.idx)
<1> DEFINE r == Quiet(replica)
           a == Apply(r, f)
<1>1. /\ replica'.view = a.view /\ replica'.floor = a.floor /\ replica'.inFlight = a.inFlight
      /\ canvas' = IF shown.status = "DRAWING" THEN canvas \o a.out ELSE canvas
      /\ ~(a.ask /\ path = "dc") => requests' = requests
  BY Received
<1>2. /\ r \in Working /\ r.floor = replica.floor
      /\ r.out = <<>> /\ r.ask = FALSE
  BY QuietIs DEF TypeInv
<1>3. /\ a = ApplySyncRes(r, f.state, f.strokes)
      /\ f.state \in Views /\ f.strokes \in Seq(Stroke) /\ Rising(f.strokes)
  BY FrameFacts DEF Apply
<1> HIDE DEF r, a
<1>4. /\ a \in Working /\ a.view = f.state
      /\ ~a.inFlight /\ ~a.ask
      /\ Rising(a.out)
      /\ f.state.round >= 0 => Below(a.out, a.floor.idx)
      /\ f.state.round >= 0 /\ replica.floor.round = f.state.round =>
           a.floor.idx >= replica.floor.idx
      /\ replica.floor.round = f.state.round \/ Above(f.strokes, replica.floor.idx) =>
           Above(a.out, replica.floor.idx)
  BY <1>2, <1>3, ApplySyncResIs
<1>5. a.out \in Seq(Stroke)
  BY <1>4, WorkingFacts
<1> QED
  BY <1>1, <1>3, <1>4, <1>5
\* A page that reads its data channel takes the first frame.
LEMMA ChannelHead ==
  ASSUME TypeInv, WayInv, ReceiveChannel
  PROVE  /\ path = "dc" /\ hostEnd /\ channel # <<>>
         /\ channel[1] \in Frames /\ Receive(channel[1])
         /\ channel' = Tail(channel)
         /\ Chained(channel') /\ Carries(channel', host)
         /\ channel' = <<>> => Brings(channel[1], host)
         /\ channel' # <<>> => Links(channel[1], channel'[1])
         /\ \A k \in AnswersIn(channel') : k + 1 \in AnswersIn(channel) /\ k + 1 # 1
         /\ channel[1].t = "SYNC_RES" => 1 \in AnswersIn(channel)
         /\ UNCHANGED <<host, hostEnd, relayed, reads, relay, path, shown>>
<1>1. channel \in Seq(Frames) /\ Chained(channel) /\ Carries(channel, host)
  BY DEF TypeInv, WayInv, Paths
<1>2. /\ path = "dc" /\ channel # <<>> /\ channel' = Tail(channel)
      /\ Receive(Head(channel)) /\ relay' = relay
  BY DEF ReceiveChannel
<1>3. path = "dc" => hostEnd
  BY DEF WayInv, Paths
<1>4. UNCHANGED <<host, hostEnd, relayed, reads, path, shown>>
  BY <1>2 DEF Receive, hostVars
<1>5. /\ Head(channel) = channel[1] /\ channel[1] \in Frames
      /\ Chained(channel') /\ Carries(channel', host)
      /\ channel' = <<>> => Brings(channel[1], host)
      /\ channel' # <<>> => Links(channel[1], channel'[1])
      /\ \A k \in AnswersIn(channel') : k + 1 \in AnswersIn(channel) /\ k + 1 # 1
      /\ channel[1].t = "SYNC_RES" => 1 \in AnswersIn(channel)
  BY <1>1, <1>2, TakesHead
<1> QED
  BY <1>2, <1>3, <1>4, <1>5

LEMMA WayChannel ==
  ASSUME TypeInv, WayInv, ReceiveChannel
  PROVE  WayInv'
<1> DEFINE f == channel[1]
<1>1. /\ path = "dc" /\ hostEnd /\ channel # <<>>
      /\ f \in Frames /\ Receive(f)
      /\ channel' = Tail(channel)
      /\ Chained(channel') /\ Carries(channel', host)
      /\ channel' = <<>> => Brings(f, host)
      /\ channel' # <<>> => Links(f, channel'[1])
      /\ \A k \in AnswersIn(channel') : k + 1 \in AnswersIn(channel) /\ k + 1 # 1
      /\ f.t = "SYNC_RES" => 1 \in AnswersIn(channel)
      /\ UNCHANGED <<host, hostEnd, relayed, reads, relay, path>>
  BY ChannelHead
<1>2. Paths /\ One /\ Firsts
  BY DEF WayInv
<1> HIDE DEF f
<1>3. Paths'
  BY <1>1, <1>2 DEF Paths
<1>4. \A k \in AnswersIn(channel') : k \in Int
  BY DEF AnswersIn
<1>5. /\ \A i, j \in AnswersIn(channel') : i = j
      /\ AnswersIn(channel) = {} => AnswersIn(channel') = {}
  BY <1>1, <1>2, <1>4 DEF One
<1>6. CASE f.t = "STATE_UPDATE"
  <2>1. /\ replica'.view = f.state /\ replica'.inFlight = replica.inFlight
        /\ requests' = requests
    BY <1>1, <1>6, ReceivedState
  <2>2. One'
    BY <1>1, <1>2, <1>5, <2>1 DEF One
  <2>3. channel' # <<>> /\ channel'[1].t = "SYNC_RES" => channel'[1].state = f.state
    BY <1>1, <1>6 DEF Links
  <2>4. channel' = <<>> => f.state = host
    BY <1>1 DEF Brings
  <2>5. Firsts'
    BY <1>1, <2>1, <2>3, <2>4 DEF Firsts
  <2> QED
    BY <1>3, <2>2, <2>5 DEF WayInv
<1>7. CASE f.t = "STROKE_ADDED"
  <2>1. \/ requests' = requests /\ (replica.inFlight => replica'.inFlight)
        \/ /\ ~replica.inFlight /\ replica'.inFlight /\ path = "dc"
           /\ \E q \in Request : /\ requests.dc' = Append(requests.dc, q)
                                 /\ q.t = "SYNC_REQ" /\ q.from = replica'.floor.idx
    BY <1>1, <1>7, ReceivedStroke
  <2>2. One'
    <3>1. CASE requests' = requests /\ (replica.inFlight => replica'.inFlight)
      BY <1>1, <1>2, <1>5, <3>1 DEF One
    <3>2. ASSUME ~replica.inFlight, replica'.inFlight,
                 NEW q \in Request, requests.dc' = Append(requests.dc, q), q.t = "SYNC_REQ"
          PROVE  One'
      <4>1. AsksIn(requests.dc) = {} /\ reads = <<>> /\ AnswersIn(channel) = {}
        BY <1>2, <3>2 DEF One
      <4>2. requests.dc \in Seq(Request)
        BY PostsAre DEF TypeInv, Posts
      <4>3. AsksIn(requests.dc') = {Len(requests.dc) + 1}
        BY <3>2, <4>1, <4>2, AsksAppended
      <4>4. Len(reads') = 0
        BY <1>1, <4>1
      <4> QED
        BY <1>1, <1>5, <3>2, <4>1, <4>3, <4>4 DEF One
    <3> QED
      BY <2>1, <3>1, <3>2
  <2>3. channel' # <<>> /\ channel'[1].t = "STATE_UPDATE"
    BY <1>1, <1>7 DEF Links, Brings
  <2>4. Firsts'
    BY <2>3 DEF Firsts
  <2> QED
    BY <1>3, <2>2, <2>4 DEF WayInv
<1>8. CASE f.t = "SYNC_RES"
  <2>1. replica'.view = f.state /\ requests' = requests
    BY <1>1, <1>8, ReceivedSync
  <2>2. AnswersIn(channel') = {} /\ AsksIn(requests.dc) = {} /\ reads = <<>>
    BY <1>1, <1>2, <1>4, <1>8 DEF One
  <2>3. Len(reads') = 0
    BY <1>1, <2>2
  <2>4. One'
    BY <1>1, <2>1, <2>2, <2>3 DEF One
  <2>5. channel' # <<>> => channel'[1].t # "SYNC_RES"
    <3>1. channel' \in Seq(Frames)
      BY TypeReceive DEF TypeInv
    <3> QED
      BY <2>2, <3>1, NoAnswerFirst
  <2>6. channel' = <<>> => f.state = host
    BY <1>1 DEF Brings
  <2>7. Firsts'
    BY <1>1, <2>1, <2>5, <2>6 DEF Firsts
  <2> QED
    BY <1>3, <2>4, <2>7 DEF WayInv
<1> QED
  BY <1>1, <1>6, <1>7, <1>8, FrameFacts

\* A page on the relay takes the first frame there: never an answer.
LEMMA RelayHead ==
  ASSUME TypeInv, WayInv, ReceiveRelay
  PROVE  /\ path = "relay" /\ relay # <<>>
         /\ relay[1] \in Frames /\ Receive(relay[1])
         /\ relay[1].t # "SYNC_RES"
         /\ relay' = Tail(relay)
         /\ Chained(relay') /\ Carries(relay', host) /\ AnswersIn(relay') = {}
         /\ relay' = <<>> => Brings(relay[1], host)
         /\ relay' # <<>> => Links(relay[1], relay'[1])
         /\ UNCHANGED <<host, hostEnd, relayed, reads, channel, path, shown>>
<1>1. /\ relay \in Seq(Frames) /\ Chained(relay) /\ Carries(relay, host)
      /\ AnswersIn(relay) = {}
  BY DEF TypeInv, WayInv, Paths
<1>2. /\ path = "relay" /\ relay # <<>> /\ relay' = Tail(relay)
      /\ Receive(Head(relay)) /\ channel' = channel
  BY DEF ReceiveRelay
<1>3. UNCHANGED <<host, hostEnd, relayed, reads, path, shown>>
  BY <1>2 DEF Receive, hostVars
<1>4. /\ Head(relay) = relay[1] /\ relay[1] \in Frames
      /\ Chained(relay') /\ Carries(relay', host)
      /\ relay' = <<>> => Brings(relay[1], host)
      /\ relay' # <<>> => Links(relay[1], relay'[1])
      /\ \A k \in AnswersIn(relay') : k + 1 \in AnswersIn(relay)
  BY <1>1, <1>2, TakesHead
<1>5. relay[1].t # "SYNC_RES" /\ AnswersIn(relay') = {}
  BY <1>1, <1>2, <1>4, NoAnswerFirst
<1> QED
  BY <1>2, <1>3, <1>4, <1>5

LEMMA WayRelay ==
  ASSUME TypeInv, WayInv, ReceiveRelay
  PROVE  WayInv'
<1>1. /\ path = "relay" /\ relay # <<>>
      /\ relay[1] \in Frames /\ Receive(relay[1])
      /\ Chained(relay') /\ Carries(relay', host) /\ AnswersIn(relay') = {}
      /\ UNCHANGED <<host, hostEnd, relayed, reads, channel, path>>
  BY RelayHead
<1>2. Paths /\ One /\ Firsts
  BY DEF WayInv
<1>3. requests' = requests
  BY <1>1, Received
<1>4. AsksIn(requests.dc) = {} /\ reads = <<>> /\ AnswersIn(channel) = {}
  BY <1>1, <1>2 DEF One
<1>5. Paths'
  BY <1>1, <1>2 DEF Paths
<1>6. Len(reads') = 0
  BY <1>1, <1>4
<1>7. One'
  BY <1>1, <1>3, <1>4, <1>6 DEF One
<1>8. channel' # <<>> => channel'[1].t # "SYNC_RES"
  BY <1>1, <1>4, NoAnswerFirst DEF TypeInv
<1>9. Firsts'
  BY <1>3, <1>4, <1>6, <1>8 DEF Firsts
<1> QED
  BY <1>5, <1>7, <1>9 DEF WayInv

LEMMA WayLost ==
  ASSUME TypeInv, WayInv, DropFrame \/ LoseFrame \/ Render \/ Reload
  PROVE  WayInv'
<1>1. Paths /\ One /\ Firsts
  BY DEF WayInv
<1>2. CASE DropFrame \/ LoseFrame
  <2>1. /\ path # "dc" /\ relay # <<>> /\ relay' = Tail(relay)
        /\ UNCHANGED <<host, hostEnd, relayed, reads, channel, requests, path, replica>>
    BY <1>2 DEF DropFrame, LoseFrame, hostVars, pageVars
  <2>2. relay \in Seq(Frames)
    BY DEF TypeInv
  <2>3. /\ Chained(relay') /\ Carries(relay', host)
        /\ \A k \in AnswersIn(relay') : k + 1 \in AnswersIn(relay)
    BY <1>1, <2>1, <2>2, TakesHead DEF Paths
  <2>4. Paths'
    BY <1>1, <2>1, <2>3 DEF Paths
  <2>5. One' /\ Firsts'
    BY <1>1, <2>1 DEF One, Firsts
  <2> QED
    BY <2>4, <2>5 DEF WayInv
<1>3. CASE Render
  <2>1. UNCHANGED <<host, hostEnd, relayed, reads, channel, relay, requests, path, replica>>
    BY <1>3 DEF Render, hostVars
  <2>2. Paths' /\ One' /\ Firsts'
    BY <1>1, <2>1 DEF Paths, One, Firsts
  <2> QED
    BY <2>2 DEF WayInv
<1>4. CASE Reload
  <2>1. /\ path' = "none" /\ hostEnd' = FALSE /\ reads' = <<>>
        /\ channel' = <<>> /\ relay' = <<>>
        /\ requests' = [requests EXCEPT !.dc = <<>>]
        /\ UNCHANGED <<host, relayed>>
    BY <1>4 DEF Reload
  <2>2. requests.dc' = <<>>
    BY <2>1, PostsAre DEF TypeInv, Posts
  <2>3. Len(reads') = 0
    BY <2>1
  <2>4. Paths'
    BY <2>1, EmptyWay DEF Paths
  <2>5. One'
    BY <2>1, <2>2, <2>3, EmptyWay DEF One
  <2>6. Firsts'
    BY <2>1, <2>2, <2>3, EmptyWay DEF Firsts
  <2> QED
    BY <2>4, <2>5, <2>6 DEF WayInv
<1> QED
  BY <1>2, <1>3, <1>4

LEMMA WayStep == TypeInv /\ WayInv /\ [Next]_vars => WayInv'
<1> SUFFICES ASSUME TypeInv, WayInv, [Next]_vars
             PROVE  WayInv'
  OBVIOUS
<1>1. CASE UNCHANGED vars
  BY <1>1 DEF WayInv, Paths, One, Firsts, vars, hostVars, pageVars
<1>2. CASE Host \/ HostAsks \/ HostEndOpens
  BY <1>2, WayHost
<1>3. CASE Answers
  BY <1>3, WayJoin, WaySync, WayAnswer, WayFails DEF Answers
<1>4. CASE Page \/ LoseFrame \/ Reload
  BY <1>4, WayPaths, WayChannel, WayRelay, WayLost DEF Page
<1> QED
  BY <1>1, <1>2, <1>3, <1>4 DEF Next

LEMMA WayInit == Init => WayInv
<1> SUFFICES ASSUME Init
             PROVE  WayInv
  OBVIOUS
<1>1. /\ channel = <<>> /\ relay = <<>> /\ reads = <<>> /\ requests.dc = <<>>
      /\ path = "none" /\ Len(reads) = 0
  BY DEF Init
<1> QED
  BY <1>1, EmptyWay DEF WayInv, Paths, One, Firsts
-----------------------------------------------------------------------------
\* The canvas, when React paints a state before the page takes the next frame

\* The strokes on a mounted canvas are in order and below the floor of their round.
Painted ==
  /\ shown.status # "DRAWING" => canvas = <<>>
  /\ Rising(canvas)
  /\ shown.round = replica.view.round => Below(canvas, replica.floor.idx)

LEMMA NothingPainted ==
  Rising(<<>>) /\ (\A n : Below(<<>>, n)) /\ (\A n : Above(<<>>, n))
  BY DEF Rising, Below, Above

LEMMA BelowMore ==
  ASSUME NEW sts \in Seq(Stroke), NEW m \in Int, NEW n \in Int, m <= n, Below(sts, m)
  PROVE  Below(sts, n)
<1>1. \A i \in 1..Len(sts) : sts[i] \in Stroke
  BY ElementOfSeq
<1> QED
  BY <1>1, StrokeFacts DEF Below

LEMMA AllStrokes ==
  ASSUME NEW sts \in Seq(Stroke)
  PROVE  Above(sts, 0) /\ Below(sts, PerRound)
<1>1. \A i \in 1..Len(sts) : sts[i] \in Stroke
  BY ElementOfSeq
<1> QED
  BY <1>1, StrokeFacts DEF Above, Below

\* Strokes from the floor on go behind those below it.
LEMMA PaintsOn ==
  ASSUME NEW a \in Seq(Stroke), NEW b \in Seq(Stroke), NEW n \in 0..PerRound,
         Rising(a), Below(a, n), Rising(b), Above(b, n)
  PROVE  /\ a \o b \in Seq(Stroke) /\ Rising(a \o b)
         /\ \A p \in 0..PerRound : p >= n /\ Below(b, p) => Below(a \o b, p)
<1>1. n \in Int /\ 0 \in Int /\ 0 <= n /\ PerRound \in Int /\ n <= PerRound
  BY StrokeFacts
<1>2. Between(a, 0, n) /\ Between(b, n, PerRound)
  BY AllStrokes DEF Between
<1>3. a \o b \in Seq(Stroke) /\ Between(a \o b, 0, PerRound)
  BY ONLY <1>1, <1>2, ConcatBetween
<1>4. ASSUME NEW p \in 0..PerRound, p >= n, Below(b, p)
      PROVE  Below(a \o b, p)
  <2>1. p \in Int /\ n <= p
    BY <1>1, <1>4
  <2>2. Between(b, n, p)
    BY <1>2, <1>4 DEF Between
  <2>3. Between(a \o b, 0, p)
    BY ONLY <1>1, <1>2, <2>1, <2>2, ConcatBetween
  <2> QED
    BY <2>3 DEF Between
<1> QED
  BY <1>3, <1>4 DEF Between

\* The page's state when it takes a frame and shows a drawing.
LEMMA Drawn ==
  ASSUME TypeInv
  PROVE  /\ replica.view \in Views /\ shown \in Views /\ canvas \in Seq(Stroke)
         /\ replica.floor.idx \in Int /\ replica.floor.idx \in 0..PerRound
         /\ replica.view.round >= 0 => /\ replica.floor.round = replica.view.round
                                       /\ replica.floor.idx >= replica.view.count
         /\ replica.view.round >= 0 => replica.view.round \in 0..MaxRound
         /\ replica.view.count \in 0..PerRound
         /\ shown.status = "DRAWING" => shown.round >= 0
         /\ replica.view.status = "DRAWING" => replica.view.round >= 0
<1>1. replica.view \in Views /\ shown \in Views /\ canvas \in Seq(Stroke) /\ replica.floor \in Floor
  BY DEF TypeInv, Replicas
<1>2. replica.floor.idx \in Int /\ replica.floor.idx \in 0..PerRound
  BY <1>1, FloorFacts, StrokeFacts
<1>3. replica.view.round >= 0 => /\ replica.floor.round = replica.view.round
                                 /\ replica.floor.idx >= replica.view.count
  BY DEF TypeInv, Bookkept
<1>4. /\ replica.view.round >= 0 => replica.view.round \in 0..MaxRound
      /\ replica.view.count \in 0..PerRound
      /\ replica.view.status = "DRAWING" => replica.view.round >= 0
  BY <1>1, ViewFacts, StrokeFacts
<1>5. shown.status = "DRAWING" => shown.round >= 0
  BY <1>1, ViewFacts
<1> QED
  BY <1>1, <1>2, <1>3, <1>4, <1>5

LEMMA PaintedReceive ==
  ASSUME TypeInv, TypeInv', Painted, shown = replica.view, UNCHANGED shown,
         NEW f \in Frames, Receive(f),
         f.t = "SYNC_RES" =>
           replica.view = f.state \/ Above(f.strokes, replica.floor.idx)
  PROVE  Painted'
<1>1. /\ replica.view \in Views /\ shown \in Views /\ canvas \in Seq(Stroke)
      /\ replica.floor.idx \in Int /\ replica.floor.idx \in 0..PerRound
      /\ replica.view.round >= 0 => replica.floor.round = replica.view.round
      /\ shown.status = "DRAWING" => shown.round >= 0
  BY Drawn
<1>2. replica'.floor.idx \in Int /\ replica'.floor.idx \in 0..PerRound
  <2>1. replica'.floor \in Floor
    BY DEF TypeInv, Replicas
  <2> QED
    BY <2>1, FloorFacts, StrokeFacts
<1>3. Rising(canvas) /\ Below(canvas, replica.floor.idx)
  BY DEF Painted
<1>4. CASE shown.status # "DRAWING"
  <2>1. canvas' = <<>>
    BY <1>4, Received DEF Painted
  <2> QED
    BY <2>1, NothingPainted DEF Painted
<1>5. CASE shown.status = "DRAWING"
  <2>1. shown.round >= 0 /\ replica.floor.round = shown.round
    BY <1>1, <1>5
  <2>2. CASE f.t = "STATE_UPDATE"
    <3>1. /\ f.state \in Views /\ replica'.view = f.state /\ canvas' = canvas
          /\ f.state.round >= 0 /\ replica.floor.round = f.state.round =>
               replica'.floor.idx = IF f.state.count > replica.floor.idx
                                    THEN f.state.count ELSE replica.floor.idx
      BY <2>2, ReceivedState
    <3>2. f.state.count \in Int
      BY <3>1, ViewFacts
    <3>3. ASSUME shown.round = f.state.round
          PROVE  Below(canvas, replica'.floor.idx)
      <4>1. replica.floor.idx <= replica'.floor.idx
        BY <1>1, <2>1, <3>1, <3>2, <3>3
      <4> QED
        BY <1>1, <1>2, <1>3, <4>1, BelowMore
    <3> QED
      BY <1>3, <1>5, <3>1, <3>3 DEF Painted
  <2>3. CASE f.t = "STROKE_ADDED"
    <3>1. /\ replica'.view = replica.view
          /\ replica'.floor.idx >= replica.floor.idx
          /\ \E out \in Seq(Stroke) :
               /\ canvas' = IF shown.status = "DRAWING" THEN canvas \o out ELSE canvas
               /\ Between(out, replica.floor.idx, replica'.floor.idx)
      BY <2>3, ReceivedStroke
    <3>2. PICK out \in Seq(Stroke) :
            /\ canvas' = canvas \o out
            /\ Between(out, replica.floor.idx, replica'.floor.idx)
      BY <1>5, <3>1
    <3>3. Rising(out) /\ Above(out, replica.floor.idx) /\ Below(out, replica'.floor.idx)
      BY <3>2 DEF Between
    <3>4. Rising(canvas \o out) /\ Below(canvas \o out, replica'.floor.idx)
      BY <1>1, <1>2, <1>3, <3>1, <3>3, PaintsOn
    <3> QED
      BY <1>5, <3>1, <3>2, <3>4 DEF Painted
  <2>4. CASE f.t = "SYNC_RES"
    <3>1. /\ f.state \in Views /\ replica'.view = f.state
          /\ \E out \in Seq(Stroke) :
               /\ canvas' = IF shown.status = "DRAWING" THEN canvas \o out ELSE canvas
               /\ Rising(out)
               /\ f.state.round >= 0 => Below(out, replica'.floor.idx)
               /\ f.state.round >= 0 /\ replica.floor.round = f.state.round =>
                    replica'.floor.idx >= replica.floor.idx
               /\ replica.floor.round = f.state.round \/ Above(f.strokes, replica.floor.idx) =>
                    Above(out, replica.floor.idx)
      BY <2>4, ReceivedSync
    <3>2. replica.floor.round = f.state.round \/ Above(f.strokes, replica.floor.idx)
      BY <2>1, <2>4
    <3>3. PICK out \in Seq(Stroke) :
            /\ canvas' = canvas \o out
            /\ Rising(out) /\ Above(out, replica.floor.idx)
            /\ f.state.round >= 0 => Below(out, replica'.floor.idx)
            /\ f.state.round >= 0 /\ replica.floor.round = f.state.round =>
                 replica'.floor.idx >= replica.floor.idx
      BY <1>5, <3>1, <3>2
    <3>4. Rising(canvas \o out)
      BY <1>1, <1>3, <3>3, PaintsOn
    <3>5. ASSUME shown.round = f.state.round
          PROVE  Below(canvas \o out, replica'.floor.idx)
      BY <1>1, <1>2, <1>3, <2>1, <3>3, <3>5, PaintsOn
    <3> QED
      BY <1>5, <3>1, <3>3, <3>4, <3>5 DEF Painted
  <2> QED
    BY <2>2, <2>3, <2>4, FrameFacts
<1> QED
  BY <1>4, <1>5

LEMMA PaintedRender ==
  ASSUME TypeInv, Painted, Render
  PROVE  Painted'
<1>1. shown' = replica.view /\ replica' = replica
  BY DEF Render
<1>2. CASE canvas' = <<>>
  BY <1>2, NothingPainted DEF Painted
<1>3. CASE /\ replica.view.status = "DRAWING"
           /\ canvas' = Drawing(replica.view)
  <2> DEFINE v == replica.view
  <2>1. /\ v.round \in 0..MaxRound /\ v.count \in 0..PerRound /\ v.count \in Int
        /\ replica.floor.idx >= v.count /\ replica.floor.idx \in Int
        /\ 0 \in 0..PerRound
    BY <1>3, Drawn, StrokeFacts
  <2> HIDE DEF v
  <2>2. Drawing(v) \in Seq(Stroke) /\ Between(Drawing(v), 0, v.count)
    BY <2>1, SliceIs DEF Drawing
  <2>3. Rising(Drawing(v)) /\ Below(Drawing(v), replica.floor.idx)
    BY <2>1, <2>2, BelowMore DEF Between
  <2> QED
    BY <1>1, <1>3, <2>3 DEF Painted, v
<1>4. CASE /\ replica.view.status = "DRAWING"
           /\ shown.round = replica.view.round /\ canvas' = canvas
  BY <1>1, <1>4 DEF Painted
<1> QED
  BY <1>2, <1>3, <1>4 DEF Render

LEMMA PaintedStep ==
  ASSUME RendersFirst
  PROVE  TypeInv /\ WayInv /\ Painted /\ [Next]_vars => Painted'
<1> SUFFICES ASSUME TypeInv, WayInv, Painted, [Next]_vars
             PROVE  Painted'
  OBVIOUS
<1>1. TypeInv'
  BY TypeStep
<1>2. CASE UNCHANGED <<replica, shown, canvas>>
  BY <1>2 DEF Painted
<1>3. CASE PeerOpen
  <2>1. replica' = [replica EXCEPT !.inFlight = TRUE] /\ UNCHANGED <<shown, canvas>>
    BY <1>3 DEF PeerOpen
  <2>2. replica'.view = replica.view /\ replica'.floor = replica.floor
    BY <2>1 DEF TypeInv, Replicas
  <2> QED
    BY <2>1, <2>2 DEF Painted
<1>4. CASE ReceiveChannel
  <2>1. /\ channel # <<>> /\ channel[1] \in Frames /\ Receive(channel[1])
        /\ UNCHANGED shown
    BY <1>4, ChannelHead
  <2>2. channel[1].t = "SYNC_RES" =>
          replica.view = channel[1].state \/ Above(channel[1].strokes, replica.floor.idx)
    BY <2>1 DEF WayInv, Firsts
  <2>3. shown = replica.view
    BY <2>1 DEF Receive
  <2> QED
    BY <1>1, <2>1, <2>2, <2>3, PaintedReceive
<1>5. CASE ReceiveRelay
  <2>1. /\ relay[1] \in Frames /\ Receive(relay[1]) /\ relay[1].t # "SYNC_RES"
        /\ UNCHANGED shown
    BY <1>5, RelayHead
  <2>2. shown = replica.view
    BY <2>1 DEF Receive
  <2> QED
    BY <1>1, <2>1, <2>2, PaintedReceive
<1>6. CASE Render
  BY <1>6, PaintedRender
<1>7. CASE Reload
  <2>1. canvas' = <<>>
    BY <1>7 DEF Reload
  <2> QED
    BY <2>1, NothingPainted DEF Painted
<1>8. CASE Host
  BY <1>2, <1>8, HostSends DEF pageVars
<1>9. CASE UNCHANGED vars \/ HostAsks \/ HostEndOpens \/ Answers
  BY <1>2, <1>9 DEF vars, pageVars, HostAsks, HostEndOpens, Answers, TakeJoin, TakeSyncReq,
                    AnswerSync, ReadFails
<1>10. CASE FallBack \/ DropFrame \/ LoseFrame
  BY <1>2, <1>10 DEF FallBack, DropFrame, LoseFrame, pageVars
<1> QED
  BY <1>3, <1>4, <1>5, <1>6, <1>7, <1>8, <1>9, <1>10 DEF Next, Page

LEMMA PaintedInit == Init => Painted
<1> SUFFICES ASSUME Init
             PROVE  Painted
  OBVIOUS
<1>1. canvas = <<>>
  BY DEF Init
<1> QED
  BY <1>1, NothingPainted DEF Painted

LEMMA PaintedImplied == TypeInv /\ Painted => PaintedOnce
<1> SUFFICES ASSUME TypeInv, Painted
             PROVE  PaintedOnce
  OBVIOUS
<1>1. DOMAIN canvas = 1..Len(canvas)
  BY DEF TypeInv
<1> QED
  BY <1>1 DEF Painted, PaintedOnce, Rising, Below

\* Whatever path the frames take, however often the page changes path, reloads, loses
\* frames or asks for sync: a page that React repaints between two frames paints no
\* stroke number twice or out of order, and nothing on its canvas is above the floor, so
\* that no later frame can paint it again (replica.ts 116, 171-184, 196; DrawCanvas 31-43).
THEOREM PaintsOnce ==
  ASSUME RendersFirst
  PROVE  Spec => []PaintedOnce
<1>1. TypeInv /\ WayInv /\ Painted /\ [Next]_vars => TypeInv' /\ WayInv' /\ Painted'
  BY TypeStep, WayStep, PaintedStep
<1>2. Init => TypeInv /\ WayInv /\ Painted
  BY TypeInit, WayInit, PaintedInit
<1>3. Spec => [](TypeInv /\ WayInv /\ Painted)
  BY <1>1, <1>2, PTL DEF Spec
<1> QED
  BY <1>3, PaintedImplied, PTL
-----------------------------------------------------------------------------
\* A page nothing disturbed

\* The path the page reads.
Queue == IF path = "dc" THEN channel ELSE relay

\* What comes next for a replica r that has all of the drawing: the floor is at the
\* strokes of its state and the next frame follows that state; or the floor is one
\* stroke ahead, on a canvas that is shown, and the next frame is that stroke's state.
Follows(r, drawn, s, q) ==
  \/ /\ r.floor.idx = r.view.count
     /\ q = <<>> => r.view = s
     /\ q # <<>> => Links(StateUpdate(r.view), q[1])
  \/ /\ r.floor.idx = r.view.count + 1
     /\ drawn = r.view /\ drawn.status = "DRAWING"
     /\ q # <<>>
     /\ Links(StrokeAdded([round |-> r.view.round, idx |-> r.view.count]), q[1])

Settled ==
  settled =>
    /\ path # "none" /\ (path = "relay" => relayed)
    /\ ~replica.inFlight /\ replica.pending = <<>> /\ replica.view.round >= 0
    /\ Follows(replica, shown, host, Queue)
    /\ shown.status = "DRAWING" /\ shown.round = replica.view.round =>
         canvas = Slice(shown.round, 0, replica.floor.idx)

LEMMA LinksTo ==
  ASSUME NEW e, NEW s, NEW f, Brings(e, s), Links(e, f)
  PROVE  Links(StateUpdate(s), f)
<1>1. StateUpdate(s).t = "STATE_UPDATE" /\ StateUpdate(s).state = s
  BY DEF StateUpdate
<1> QED
  BY <1>1 DEF Links, Brings

\* The next stroke of a drawing.
LEMMA SliceGrows ==
  ASSUME NEW round \in 0..MaxRound, NEW n \in 0..PerRound, NEW m \in 0..PerRound,
         m = n + 1, NEW st \in Stroke, st = [round |-> round, idx |-> n]
  PROVE  Slice(round, 0, n) \o <<st>> = Slice(round, 0, m)
<1> DEFINE a == Slice(round, 0, n)
           b == Slice(round, 0, m)
<1>1. 0 \in 0..PerRound /\ n \in Nat
  BY StrokeFacts
<1>2. /\ a \in Seq(Stroke)
      /\ Len(a) = IF n > 0 THEN n - 0 ELSE 0
      /\ \A i \in 1..Len(a) : a[i] = [round |-> round, idx |-> 0 + i - 1]
  BY <1>1, SliceIs
<1>3. /\ b \in Seq(Stroke)
      /\ Len(b) = IF m > 0 THEN m - 0 ELSE 0
      /\ \A i \in 1..Len(b) : b[i] = [round |-> round, idx |-> 0 + i - 1]
  BY <1>1, SliceIs
<1> HIDE DEF a, b
<1>4. Len(a) = n /\ Len(b) = n + 1
  BY <1>1, <1>2, <1>3
<1>5. /\ Append(a, st) \in Seq(Stroke) /\ Len(Append(a, st)) = n + 1
      /\ \A i \in 1..n : Append(a, st)[i] = a[i]
      /\ Append(a, st)[n + 1] = st
  BY <1>1, <1>2, <1>4, AppendProperties
<1>6. ASSUME NEW i \in 1..n + 1
      PROVE  Append(a, st)[i] = b[i]
  <2>1. b[i] = [round |-> round, idx |-> 0 + i - 1]
    BY <1>3, <1>4
  <2>2. CASE i = n + 1
    <3>1. 0 + i - 1 = n
      BY <1>1, <2>2
    <3> QED
      BY <1>5, <2>1, <2>2, <3>1
  <2>3. CASE i # n + 1
    <3>1. i \in 1..n
      BY <1>1, <2>3
    <3>2. a[i] = [round |-> round, idx |-> 0 + i - 1]
      BY <1>2, <1>4, <3>1
    <3> QED
      BY <1>5, <2>1, <3>1, <3>2
  <2> QED
    BY <2>2, <2>3
<1>7. Append(a, st) = b
  BY <1>3, <1>4, <1>5, <1>6, SeqEqual
<1>8. a \o <<st>> = Append(a, st)
  BY <1>2, AppendIsConcat
<1> QED
  BY <1>7, <1>8 DEF a, b

\* A state that brings the page to its count of strokes.
LEMMA FollowsState ==
  ASSUME NEW r, NEW drawn, NEW s, NEW q, NEW f,
         r.view = f.state, r.floor.idx = r.view.count, f.t # "STROKE_ADDED",
         q = <<>> => Brings(f, s), q # <<>> => Links(f, q[1])
  PROVE  Follows(r, drawn, s, q)
<1>1. q = <<>> => r.view = s
  BY DEF Brings
<1>2. q # <<>> => Links(StateUpdate(r.view), q[1])
  BY LinksTo DEF Brings
<1> QED
  BY <1>1, <1>2 DEF Follows

LEMMA SettledReceive ==
  ASSUME TypeInv, Settled, shown = replica.view,
         Queue # <<>>, Queue[1] \in Frames, Receive(Queue[1]),
         settled => Queue[1].t # "SYNC_RES",
         Queue' = <<>> => Brings(Queue[1], host),
         Queue' # <<>> => Links(Queue[1], Queue'[1]),
         path # "none", path = "relay" => relayed,
         UNCHANGED <<host, path, relayed, shown>>
  PROVE  Settled'
<1> DEFINE f == Queue[1]
           q == Queue'
<1>1. /\ f \in Frames /\ Receive(f)
      /\ settled => f.t # "SYNC_RES"
      /\ q = <<>> => Brings(f, host)
      /\ q # <<>> => Links(f, q[1])
  OBVIOUS
<1>2. /\ replica.view \in Views /\ canvas \in Seq(Stroke)
      /\ replica.floor.idx \in Int /\ replica.floor.idx \in 0..PerRound
      /\ replica.view.round >= 0 => replica.floor.round = replica.view.round
      /\ replica.view.round >= 0 => replica.view.round \in 0..MaxRound
      /\ replica.view.count \in 0..PerRound
  BY Drawn
<1>3. settled' = ((settled /\ ~Replaced(f)) \/ SettlesIn(f))
  BY DEF Receive
<1>4. ASSUME f.t = "STATE_UPDATE", f.state.round >= 0,
             ~replica.inFlight, replica'.pending = <<>>,
             replica'.floor.idx = f.state.count,
             shown.status = "DRAWING" /\ shown.round = f.state.round =>
               canvas = Slice(shown.round, 0, f.state.count)
      PROVE  Settled'
  <2>1. /\ replica'.view = f.state /\ replica'.inFlight = replica.inFlight
        /\ canvas' = canvas
    BY <1>1, <1>4, ReceivedState
  <2>2. replica'.floor.idx = replica'.view.count /\ f.t # "STROKE_ADDED"
    BY <1>4, <2>1
  <2> HIDE DEF f, q
  <2>3. Follows(replica', shown', host', q)
    BY <1>1, <2>1, <2>2, FollowsState
  <2>4. Follows(replica, shown, host, Queue)'
    BY <2>3 DEF q
  <2> QED
    BY <1>4, <2>1, <2>4 DEF Settled
<1>5. CASE SettlesIn(f)
  <2>1. /\ f.t = "STATE_UPDATE" /\ f.state.status = "ROUND_ANNOUNCE"
        /\ f.state.round # replica.floor.round /\ ~replica.inFlight
    BY <1>5 DEF SettlesIn
  <2>2. f.state \in Views /\ f.state.round >= 0
    BY <1>1, <2>1, FrameFacts, ViewFacts
  <2>3. replica'.floor.idx = f.state.count /\ replica'.pending = <<>>
    BY <1>1, <2>1, <2>2, ReceivedState
  <2>4. shown.round # f.state.round
    BY <1>2, <2>1, <2>2
  <2> QED
    BY <1>4, <2>1, <2>2, <2>3, <2>4
<1>6. CASE settled /\ ~Replaced(f)
  <2>1. /\ ~replica.inFlight /\ replica.pending = <<>> /\ replica.view.round >= 0
        /\ Follows(replica, shown, host, Queue)
        /\ shown.status = "DRAWING" => canvas = Slice(shown.round, 0, replica.floor.idx)
    BY <1>6 DEF Settled
  <2>2. CASE /\ replica.floor.idx = replica.view.count
             /\ Links(StateUpdate(replica.view), f)
    <3>1. StateUpdate(replica.view).t = "STATE_UPDATE" /\ StateUpdate(replica.view).state = replica.view
      BY <1>2, FramesAre
    <3>2. CASE f.t = "STATE_UPDATE"
      <4>1. \/ f.state.round = replica.view.round /\ f.state.count = replica.view.count
            \/ /\ f.state.round >= 0 /\ f.state.count = 0
               /\ f.state.round # replica.view.round
        <5>1. \/ f.state.status = "ROUND_ANNOUNCE"
              \/ f.state.round = replica.view.round /\ f.state.count = replica.view.count
          BY <2>2, <3>1, <3>2 DEF Links
        <5>2. f.state.status = "ROUND_ANNOUNCE" =>
                /\ f.state.round >= 0 /\ f.state.count = 0
                /\ f.state.round = replica.view.round => ~(replica.floor.idx > 0)
          BY <1>1, <1>2, <1>6, <2>1, <3>2, FrameFacts, ViewFacts DEF Replaced
        <5>3. replica.floor.idx = replica.view.count /\ replica.floor.idx \in Nat
          BY <1>2, <2>2, StrokeFacts
        <5> HIDE DEF f
        <5> QED
          BY <5>1, <5>2, <5>3
      <4>2. replica.view.round \in Int /\ replica.view.count \in Int
        BY <1>2, ViewFacts
      <4>3. replica'.pending = <<>>
        BY <1>1, <2>1, <3>2, ReceivedState
      <4>4. CASE f.state.round = replica.view.round /\ f.state.count = replica.view.count
        <5>1. replica'.floor.idx = f.state.count
          BY <1>1, <1>2, <2>1, <2>2, <3>2, <4>2, <4>4, ReceivedState
        <5>2. shown.status = "DRAWING" => canvas = Slice(shown.round, 0, f.state.count)
          BY <2>1, <2>2, <4>4
        <5> QED
          BY <1>4, <2>1, <3>2, <4>3, <4>4, <5>1, <5>2
      <4>5. CASE /\ f.state.round >= 0 /\ f.state.count = 0
                 /\ f.state.round # replica.view.round
        <5>1. replica'.floor.idx = f.state.count
          BY <1>1, <1>2, <2>1, <3>2, <4>5, ReceivedState
        <5> QED
          BY <1>4, <2>1, <3>2, <4>3, <4>5, <5>1
      <4> QED
        BY <4>1, <4>4, <4>5
    <3>3. CASE f.t = "STROKE_ADDED"
      <4>1. /\ replica.view.status = "DRAWING"
            /\ f.stroke = [round |-> replica.view.round, idx |-> replica.view.count]
        BY <2>2, <3>1, <3>3 DEF Links
      <4>2. f.stroke.idx = replica.floor.idx /\ f.stroke \in Stroke
        BY <1>1, <2>2, <3>3, <4>1, FrameFacts
      <4>3. /\ replica'.view = replica.view
            /\ replica'.floor.idx = f.stroke.idx + 1 /\ replica'.pending = <<>>
            /\ replica'.inFlight = replica.inFlight
            /\ canvas' = IF shown.status = "DRAWING" THEN canvas \o <<f.stroke>> ELSE canvas
        BY <1>1, <2>1, <3>3, <4>2, ReceivedStroke
      <4>4. q # <<>> /\ Links(f, q[1])
        BY <1>1, <3>3 DEF Brings
      <4>5. f = StrokeAdded(f.stroke)
        BY <1>1, <3>3 DEF Frames, StrokeAdded
      <4>6. canvas' = Slice(shown.round, 0, replica'.floor.idx)
        <5>1. canvas' = canvas \o <<f.stroke>> /\ canvas = Slice(shown.round, 0, replica.floor.idx)
          BY <2>1, <4>1, <4>3
        <5>2. f.stroke.idx < PerRound
          BY <4>2, StrokeFacts
        <5>3. /\ replica.floor.idx + 1 \in 0..PerRound
              /\ shown.round \in 0..MaxRound
              /\ replica'.floor.idx = replica.floor.idx + 1
              /\ replica'.floor.idx \in 0..PerRound
          BY <1>2, <2>1, <4>2, <4>3, <5>2, StrokeFacts
        <5>4. f.stroke = [round |-> shown.round, idx |-> replica.floor.idx]
          BY <2>2, <4>1
        <5> QED
          BY <1>2, <4>2, <5>1, <5>3, <5>4, SliceGrows
      <4> HIDE DEF f, q
      <4>7. Follows(replica', shown', host', q)
        <5>1. replica'.floor.idx = replica'.view.count + 1
          BY <2>2, <4>2, <4>3
        <5>2. shown' = replica'.view /\ shown'.status = "DRAWING"
          BY <4>1, <4>3
        <5>3. Links(StrokeAdded([round |-> replica'.view.round, idx |-> replica'.view.count]), q[1])
          BY <4>1, <4>3, <4>4, <4>5
        <5> QED
          BY <4>4, <5>1, <5>2, <5>3 DEF Follows
      <4>8. Follows(replica, shown, host, Queue)'
        BY <4>7 DEF q
      <4> QED
        BY <2>1, <4>3, <4>6, <4>8 DEF Settled
    <3> QED
      BY <1>1, <1>6, <3>2, <3>3, FrameFacts
  <2>3. CASE /\ replica.floor.idx = replica.view.count + 1
             /\ shown.status = "DRAWING"
             /\ Links(StrokeAdded([round |-> replica.view.round, idx |-> replica.view.count]), f)
    <3> DEFINE st == [round |-> replica.view.round, idx |-> replica.view.count]
    <3>1. StrokeAdded(st).t = "STROKE_ADDED" /\ StrokeAdded(st).stroke = st
      BY DEF StrokeAdded
    <3>2. /\ f.t = "STATE_UPDATE" /\ f.state.round = replica.view.round
          /\ f.state.count = replica.view.count + 1
      <4>1. Links(StrokeAdded(st), f) /\ st.round = replica.view.round /\ st.idx = replica.view.count
        BY <2>3
      <4> HIDE DEF st, f
      <4> QED
        BY <3>1, <4>1 DEF Links
    <3>3. replica.view.count \in Int
      BY <1>2, ViewFacts
    <3>4. replica'.floor.idx = f.state.count /\ replica'.pending = <<>>
      BY <1>1, <1>2, <2>1, <2>3, <3>2, <3>3, ReceivedState
    <3>5. shown.status = "DRAWING" => canvas = Slice(shown.round, 0, f.state.count)
      BY <2>1, <2>3, <3>2
    <3> QED
      BY <1>4, <2>1, <3>2, <3>4, <3>5
  <2> QED
    BY <2>1, <2>2, <2>3 DEF Follows
<1> QED
  BY <1>3, <1>5, <1>6 DEF Settled

\* The page reads the same path on, with more frames behind those there are.
LEMMA SettledSends ==
  ASSUME TypeInv, WayInv, Settled, NEW fs, NEW byRelay \in BOOLEAN,
         Batch(host, fs, host'), Broadcast(fs, byRelay),
         relayed => byRelay, relayed' = byRelay,
         UNCHANGED <<hostEnd, path, replica, shown, canvas, settled>>
  PROVE  Settled'
<1> SUFFICES ASSUME settled
             PROVE  Settled'
  BY DEF Settled
<1>1. /\ path # "none" /\ (path = "relay" => relayed)
      /\ Follows(replica, shown, host, Queue)
  BY DEF Settled
<1>2. /\ channel # <<>> => channel' # <<>> /\ channel'[1] = channel[1]
      /\ channel = <<>> /\ hostEnd => channel' # <<>> /\ Links(StateUpdate(host), channel'[1])
      /\ relay # <<>> => relay' # <<>> /\ relay'[1] = relay[1]
      /\ relay = <<>> /\ byRelay /\ path # "dc" =>
           relay' # <<>> /\ Links(StateUpdate(host), relay'[1])
  BY SendsAre DEF WayInv
<1>3. path = "dc" => hostEnd
  BY DEF WayInv, Paths
<1>4. path \in {"none", "relay", "dc"}
  BY DEF TypeInv
<1>5. /\ Queue' # <<>>
      /\ Queue # <<>> => Queue'[1] = Queue[1]
      /\ Queue = <<>> => Links(StateUpdate(host), Queue'[1])
  <2>1. CASE path = "dc"
    <3>1. Queue = channel /\ Queue' = channel'
      BY <2>1 DEF Queue
    <3> QED
      BY <1>2, <1>3, <2>1, <3>1
  <2>2. CASE path = "relay"
    <3>1. Queue = relay /\ Queue' = relay'
      BY <2>2 DEF Queue
    <3> QED
      BY <1>1, <1>2, <2>2, <3>1
  <2> QED
    BY <1>1, <1>4, <2>1, <2>2
<1> DEFINE q == Queue'
           p == Queue
<1>6. Follows(replica, shown, host', q)
  <2>1. /\ q # <<>>
        /\ p # <<>> => q[1] = p[1]
        /\ p = <<>> => Links(StateUpdate(host), q[1])
    BY <1>5
  <2>2. Follows(replica, shown, host, p)
    BY <1>1
  <2> HIDE DEF p, q
  <2> QED
    BY <2>1, <2>2 DEF Follows
<1> HIDE DEF q
<1>7. Follows(replica, shown, host, Queue)'
  BY <1>6 DEF q
<1> QED
  BY <1>1, <1>7 DEF Settled

LEMMA SettledRender ==
  ASSUME TypeInv, Settled, Render
  PROVE  Settled'
<1> SUFFICES ASSUME settled
             PROVE  Settled'
  BY DEF Settled, Render
<1>1. /\ shown # replica.view /\ shown' = replica.view
      /\ canvas' = IF replica.view.status # "DRAWING" THEN <<>>
                   ELSE IF shown.status # "DRAWING" \/ shown.round # replica.view.round
                        THEN Drawing(replica.view)
                        ELSE canvas
      /\ UNCHANGED <<host, relayed, channel, relay, path, replica, settled>>
  BY DEF Render, hostVars
<1>2. /\ path # "none" /\ (path = "relay" => relayed)
      /\ ~replica.inFlight /\ replica.pending = <<>> /\ replica.view.round >= 0
      /\ Follows(replica, shown, host, Queue)
      /\ shown.status = "DRAWING" /\ shown.round = replica.view.round =>
           canvas = Slice(shown.round, 0, replica.floor.idx)
  BY DEF Settled
<1>3. Queue' = Queue
  BY <1>1 DEF Queue
<1>4. /\ replica.floor.idx = replica.view.count
      /\ Queue = <<>> => replica.view = host
      /\ Queue # <<>> => Links(StateUpdate(replica.view), Queue[1])
  BY <1>1, <1>2 DEF Follows
<1>5. Follows(replica, shown, host, Queue)'
  BY <1>1, <1>3, <1>4 DEF Follows
<1>6. replica.view.status = "DRAWING" =>
        canvas' = Slice(replica.view.round, 0, replica.floor.idx)
  BY <1>1, <1>2, <1>4 DEF Drawing
<1> QED
  BY <1>1, <1>2, <1>5, <1>6 DEF Settled

LEMMA SettledStep ==
  ASSUME RendersFirst
  PROVE  TypeInv /\ WayInv /\ Settled /\ [Next]_vars => Settled'
<1> SUFFICES ASSUME TypeInv, WayInv, Settled, [Next]_vars
             PROVE  Settled'
  OBVIOUS
<1>1. CASE UNCHANGED <<host, relayed, path, channel, relay, replica, shown, canvas, settled>>
  <2>1. Queue' = Queue
    BY <1>1 DEF Queue
  <2> QED
    BY <1>1, <2>1 DEF Settled, Follows
<1>2. CASE UNCHANGED vars \/ HostAsks \/ HostEndOpens
  BY <1>1, <1>2 DEF vars, hostVars, pageVars, HostAsks, HostEndOpens
<1>3. CASE Host
  <2>1. PICK fs : /\ Batch(host, fs, host')
                  /\ Broadcast(fs, relayed)
                  /\ UNCHANGED <<member, hostEnd, relayed, reads, requests, pageVars,
                                 settled, losses, reloads>>
    BY <1>3, HostSends
  <2>2. relayed \in BOOLEAN
    BY DEF TypeInv
  <2> QED
    BY <2>1, <2>2, SettledSends DEF pageVars
<1>4. ASSUME NEW via \in {"dc", "relay"}, TakeJoin(via)
      PROVE  Settled'
  <2>1. /\ relayed' = (relayed \/ via = "relay")
        /\ UNCHANGED <<host, hostEnd, path, replica, shown, canvas, settled>>
    BY <1>4 DEF TakeJoin, pageVars
  <2>2. relayed' \in BOOLEAN /\ (relayed => relayed')
    BY <2>1 DEF TypeInv
  <2>3. CASE Broadcast(<<StateUpdate(host)>>, relayed')
    <3>1. Batch(host, <<StateUpdate(host)>>, host')
      BY <2>1, HostRepeats
    <3> QED
      BY <2>1, <2>2, <2>3, <3>1, SettledSends
  <2>4. CASE UNCHANGED <<channel, relay>>
    <3>1. Queue' = Queue
      BY <2>1, <2>4 DEF Queue
    <3> QED
      BY <2>1, <2>2, <3>1 DEF Settled, Follows
  <2> QED
    BY <1>4, <2>3, <2>4 DEF TakeJoin
<1>5. ASSUME NEW via \in {"dc", "relay"}, TakeSyncReq(via)
      PROVE  Settled'
  BY <1>1, <1>5 DEF TakeSyncReq, pageVars
<1>6. CASE AnswerSync \/ ReadFails
  <2>1. replica.inFlight
    BY <1>6 DEF AnswerSync, ReadFails, WayInv, One
  <2>2. ~settled /\ settled' = settled
    BY <1>6, <2>1 DEF Settled, AnswerSync, ReadFails
  <2> QED
    BY <2>2 DEF Settled
<1>7. CASE FallBack \/ PeerOpen \/ LoseFrame \/ Reload
  BY <1>7 DEF FallBack, PeerOpen, LoseFrame, Reload, Settled
<1>8. CASE DropFrame
  BY <1>8 DEF DropFrame, Settled
<1>9. CASE Render
  BY <1>9, SettledRender
<1>10. CASE ReceiveChannel
  <2>1. /\ path = "dc" /\ channel # <<>>
        /\ channel[1] \in Frames /\ Receive(channel[1])
        /\ channel' = <<>> => Brings(channel[1], host)
        /\ channel' # <<>> => Links(channel[1], channel'[1])
        /\ channel[1].t = "SYNC_RES" => 1 \in AnswersIn(channel)
        /\ UNCHANGED <<host, relayed, path, shown>>
    BY <1>10, ChannelHead
  <2>2. Queue = channel /\ Queue' = channel'
    BY <2>1 DEF Queue
  <2>3. settled => channel[1].t # "SYNC_RES"
    BY <2>1 DEF Settled, WayInv, One
  <2>4. shown = replica.view
    BY <2>1 DEF Receive
  <2> QED
    BY <2>1, <2>2, <2>3, <2>4, SettledReceive
<1>11. CASE ReceiveRelay
  <2>1. /\ path = "relay" /\ relay # <<>>
        /\ relay[1] \in Frames /\ Receive(relay[1]) /\ relay[1].t # "SYNC_RES"
        /\ relay' = <<>> => Brings(relay[1], host)
        /\ relay' # <<>> => Links(relay[1], relay'[1])
        /\ UNCHANGED <<host, relayed, path, shown>>
    BY <1>11, RelayHead
  <2>2. Queue = relay /\ Queue' = relay'
    BY <2>1 DEF Queue
  <2>3. relayed
    BY <2>1 DEF WayInv, Paths
  <2>4. shown = replica.view
    BY <2>1 DEF Receive
  <2> QED
    BY <2>1, <2>2, <2>3, <2>4, SettledReceive
<1> QED
  BY <1>2, <1>3, <1>4, <1>5, <1>6, <1>7, <1>8, <1>9, <1>10, <1>11
     DEF Next, Answers, Page

\* A page that was told of the round and has since neither changed path, lost a frame,
\* reloaded nor, with strokes of the round, been told of another of the same number shows
\* exactly the drawing of the round up to its floor and has nothing to ask for, however
\* long the round, however many draws answer late, however far the host is ahead and on
\* whichever path it listens: relayBroadcast leaves no gap (the whole of replica.ts).
THEOREM SettledComplete ==
  ASSUME RendersFirst
  PROVE  Spec => []SettledPageIsComplete
<1>1. TypeInv /\ WayInv /\ Settled /\ [Next]_vars => TypeInv' /\ WayInv' /\ Settled'
  BY TypeStep, WayStep, SettledStep
<1>2. Init => TypeInv /\ WayInv /\ Settled
  <2>1. Init => Settled
    BY DEF Init, Settled
  <2> QED
    BY <2>1, TypeInit, WayInit
<1>3. Settled => SettledPageIsComplete
  BY DEF Settled, SettledPageIsComplete
<1>4. Spec => [](TypeInv /\ WayInv /\ Settled)
  BY <1>1, <1>2, PTL DEF Spec
<1> QED
  BY <1>3, <1>4, PTL
=============================================================================
