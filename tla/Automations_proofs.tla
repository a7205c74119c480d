-------------------------- MODULE Automations_proofs --------------------------
(***************************************************************************)
(* What the scheduler promises of every automation, for any number of      *)
(* automations and dispatchers and any schedule.                           *)
(***************************************************************************)
EXTENDS Automations, FiniteSetTheorems, WellFoundedInduction, TLAPS

-----------------------------------------------------------------------------
(* The order of a batch.                                                   *)

(* A set of numbers has a least one.                                       *)
LEMMA LeastNumber ==
    ASSUME NEW T, T \subseteq Nat, T # {}
    PROVE  \E x \in T : \A y \in T : x <= y
<1>1. PICK x \in T : \A y \in T : ~(<<y, x>> \in OpToRel(<, Nat))
    BY NatLessThanWellFounded, WFMin
<1>2. \A y \in T : ~(y < x)
    BY <1>1 DEF OpToRel
<1> QED
    BY <1>2

(* No row twice, so that the order of the rows decides.                    *)
Distinct(batch) == \A x, y \in batch : x.id = y.id => x = y

(* The numbers of an item of a batch.                                      *)
LEMMA ItemNumbers == \A x \in Item : x.id \in Nat /\ x.next \in Nat
BY SchedulesAssumption DEF Item, Automations

(* First(batch) is a row of the batch.                                     *)
LEMMA FirstIsThere ==
    ASSUME NEW batch, batch \subseteq Item, batch # {}, Distinct(batch)
    PROVE  First(batch) \in batch
<1>1. PICK t \in {x.next : x \in batch} : \A u \in {x.next : x \in batch} : t <= u
    <2>1. {x.next : x \in batch} \subseteq Nat /\ {x.next : x \in batch} # {}
        BY DEF Item
    <2> QED
        BY <2>1, LeastNumber
<1> DEFINE ids == {x.id : x \in {y \in batch : y.next = t}}
<1>2. PICK i \in ids : \A j \in ids : i <= j
    <2>1. ids \subseteq Nat /\ ids # {}
        BY SchedulesAssumption DEF Item, Automations
    <2> HIDE DEF ids
    <2> QED
        BY <2>1, LeastNumber
<1>3. PICK x \in batch : x.next = t /\ x.id = i
    BY <1>2
<1>4. \A y \in batch \ {x} : Before(x, y)
    <2> SUFFICES ASSUME NEW y \in batch \ {x} PROVE Before(x, y)
        OBVIOUS
    <2>1. x.next \in Nat /\ y.next \in Nat /\ x.id \in Nat /\ y.id \in Nat
        <3>1. x \in Item /\ y \in Item
            OBVIOUS
        <3> QED
            BY <3>1, ItemNumbers
    <2>2. x.next <= y.next
        BY <1>1, <1>3
    <2>3. x.id # y.id
        BY DEF Distinct
    <2>4. CASE y.next = t
        <3>1. y.id \in ids
            BY <2>4
        <3>2. x.id <= y.id
            BY <1>2, <1>3, <3>1
        <3> QED
            BY <1>3, <2>1, <2>3, <2>4, <3>2 DEF Before
    <2>5. CASE y.next # t
        BY <1>3, <2>1, <2>2, <2>5 DEF Before
    <2> QED
        BY <2>4, <2>5
<1> QED
    BY <1>4 DEF First

-----------------------------------------------------------------------------
(* Types, and what a sweep holds.                                          *)

(* A sweep holds rows that were due at its time, each once.                *)
SweepSound(s) ==
    \/ s = Resting
    \/ /\ s.step \in {"invoke", "advance"}
       /\ s.batch # {}
       /\ s.current \in 0..now
       /\ Distinct(s.batch)
       /\ \A x \in s.batch : x.next <= s.current

(* Every dispatcher is somewhere in a sweep.                               *)
SweepsSound == \A d \in Dispatchers : SweepSound(sweep[d])

(* The type invariant with the places of the dispatchers.                  *)
TypeInv == TypeOK /\ SweepsSound

(* The next run is an instant or never.                                    *)
LEMMA NextRunType ==
    ASSUME NEW a \in Automations, NEW t \in Int, t >= -1
    PROVE  NextRun(Schedule[a], t) \in Nat \cup {Never}
<1>1. /\ Schedule[a].type \in {"interval", "clock", "once"}
      /\ Schedule[a].period \in Nat /\ Schedule[a].period >= 2
      /\ Schedule[a].at \in Nat
    <2>1. Schedule[a] \in [type : {"interval", "clock", "once"}, period : Nat \ {0, 1}, at : Nat]
        BY SchedulesAssumption
    <2> QED
        BY <2>1
<1> DEFINE p == Schedule[a].period
<1>2. (t - Schedule[a].at) % p \in 0..p - 1
    BY <1>1
<1>3. NextOnClock(Schedule[a], t) \in Nat
    <2> DEFINE m == (t - Schedule[a].at) % p
    <2>1. m \in 0..p - 1
        BY <1>2
    <2>2. NextOnClock(Schedule[a], t) = t + p - m
        BY DEF NextOnClock
    <2> HIDE DEF m
    <2> QED
        BY <1>1, <2>1, <2>2
<1>4. CASE Schedule[a].type = "interval"
    BY <1>1, <1>4 DEF NextRun
<1>5. CASE Schedule[a].type = "clock"
    BY <1>3, <1>5 DEF NextRun
<1>6. CASE Schedule[a].type = "once"
    BY <1>1, <1>6 DEF NextRun
<1> QED
    BY <1>1, <1>4, <1>5, <1>6

(* The row that a working sweep is at.                                     *)
LEMMA AtWork ==
    ASSUME TypeInv, NEW d \in Dispatchers, sweep[d].step # "rest"
    PROVE  /\ First(sweep[d].batch) \in sweep[d].batch
           /\ First(sweep[d].batch) \in Item
           /\ sweep[d].current \in 0..now
           /\ Distinct(sweep[d].batch)
           /\ \A x \in sweep[d].batch : x.next <= sweep[d].current
<1>1. sweep[d] \in Sweep /\ SweepSound(sweep[d]) /\ sweep[d] # Resting
    BY DEF TypeInv, TypeOK, SweepsSound, Resting
<1>2. /\ sweep[d].batch # {} /\ sweep[d].batch \subseteq Item /\ Distinct(sweep[d].batch)
    BY <1>1 DEF Sweep, SweepSound
<1>3. First(sweep[d].batch) \in sweep[d].batch
    BY <1>2, FirstIsThere
<1> QED
    BY <1>1, <1>2, <1>3 DEF SweepSound

(* A row that a request or the end of a dispatch writes.                   *)
LEMMA WrittenRows ==
    ASSUME TypeOK, NEW a \in Automations, NEW b \in BOOLEAN, NEW c \in BOOLEAN, NEW t \in 0..now
    PROVE  /\ Created(a, b, c) \in Row /\ Created(a, b, c).present
           /\ row[a].present =>
                  \A r \in {WithApproval(row[a], b), WithEnabled(a, row[a], b),
                            Advanced(a, row[a], t)} : r \in Row /\ r.present
<1>1. now \in Nat /\ row[a] \in Row /\ t \in Nat
    BY DispatchAssumption DEF TypeOK
<1>2. NextRun(Schedule[a], now - 1) \in Nat \cup {Never} /\ NextRun(Schedule[a], t) \in Nat \cup {Never}
    BY <1>1, NextRunType
<1>3. Created(a, b, c) \in Row /\ Created(a, b, c).present
    <2> DEFINE n == IF b THEN NextRun(Schedule[a], now - 1) ELSE Never
    <2>1. n \in Nat \cup {Never}
        BY <1>2
    <2>2. Created(a, b, c) = [NoRow EXCEPT !.present = TRUE, !.enabled = b, !.approved = c,
                                           !.next = n]
        BY DEF Created
    <2> HIDE DEF n
    <2>3. NoRow \in Row
        BY DEF NoRow, Row
    <2>4. \A r \in Row : [r EXCEPT !.present = TRUE, !.enabled = b] \in Row
        BY DEF Row
    <2>5. \A r \in Row : [r EXCEPT !.approved = c, !.next = n] \in Row
        BY <2>1 DEF Row
    <2>6. Created(a, b, c) = [[NoRow EXCEPT !.present = TRUE, !.enabled = b]
                                     EXCEPT !.approved = c, !.next = n]
        BY <2>2, <2>3 DEF Row
    <2>7. Created(a, b, c) \in Row
        BY <2>3, <2>4, <2>5, <2>6
    <2>8. Created(a, b, c).present
        BY <2>2, <2>3 DEF Row
    <2> QED
        BY <2>7, <2>8
<1>4. ASSUME row[a].present
      PROVE  WithApproval(row[a], b) \in Row /\ WithApproval(row[a], b).present
    BY <1>1, <1>4 DEF WithApproval, Row
<1>5. ASSUME row[a].present
      PROVE  WithEnabled(a, row[a], b) \in Row /\ WithEnabled(a, row[a], b).present
    <2> DEFINE n == IF b THEN NextRun(Schedule[a], now - 1) ELSE Never
    <2>1. n \in Nat \cup {Never}
        BY <1>2
    <2>2. WithEnabled(a, row[a], b) = [row[a] EXCEPT !.enabled = b, !.next = n]
        BY DEF WithEnabled
    <2> HIDE DEF n
    <2> QED
        BY <1>1, <1>5, <2>1, <2>2 DEF Row
<1>6. ASSUME row[a].present
      PROVE  Advanced(a, row[a], t) \in Row /\ Advanced(a, row[a], t).present
    <2> DEFINE n == NextRun(Schedule[a], t)
               on == ~(Schedule[a].type = "once" /\ n = Never)
    <2>1. n \in Nat \cup {Never} /\ on \in BOOLEAN
        BY <1>2
    <2>2. Advanced(a, row[a], t) = [row[a] EXCEPT !.last = t, !.next = n, !.runs = @ + 1, !.enabled = on]
        BY DEF Advanced
    <2> HIDE DEF n, on
    <2>3. \A r \in Row : [r EXCEPT !.last = t, !.next = n, !.runs = @ + 1, !.enabled = on] \in Row
        <3>1. \A r \in Row, k \in Nat : [r EXCEPT !.last = t, !.next = n, !.runs = k, !.enabled = on] \in Row
            BY <1>1, <2>1, ZenonT(30) DEF Row
        <3>2. \A r \in Row : r.runs + 1 \in Nat
            BY DEF Row
        <3> QED
            BY <3>1, <3>2
    <2>4. Advanced(a, row[a], t).present
        BY <1>1, <1>6, <2>2 DEF Row
    <2> QED
        BY <1>1, <2>2, <2>3, <2>4
<1> QED
    BY <1>3, <1>4, <1>5, <1>6

(* What advancing a row writes.                                            *)
LEMMA AdvancedRow ==
    ASSUME NEW a \in Automations, NEW r \in Row, NEW t \in Nat
    PROVE  /\ Advanced(a, r, t).approved = r.approved
           /\ Advanced(a, r, t).next = NextRun(Schedule[a], t)
           /\ Advanced(a, r, t).last = t
           /\ Advanced(a, r, t).runs = r.runs + 1
<1> DEFINE n == NextRun(Schedule[a], t)
           on == ~(Schedule[a].type = "once" /\ n = Never)
<1>1. Advanced(a, r, t) = [r EXCEPT !.last = t, !.next = n, !.runs = @ + 1, !.enabled = on]
    BY DEF Advanced
<1> HIDE DEF n, on
<1>2. /\ Advanced(a, r, t).approved = r.approved /\ Advanced(a, r, t).next = n
      /\ Advanced(a, r, t).last = t /\ Advanced(a, r, t).runs = r.runs + 1
    BY <1>1 DEF Row
<1> QED
    BY <1>2 DEF n

(* What a request leaves.                                                  *)
LEMMA RequestsKeepTypes ==
    ASSUME TypeInv, NEW a \in Automations,
           Create(a) \/ SetApproved(a) \/ SetEnabled(a) \/ Delete(a)
    PROVE  TypeInv'
<1>1. now' = now /\ sweep' = sweep
    BY DEF Create, SetApproved, SetEnabled, Delete
<1>2. SweepsSound'
    BY <1>1 DEF TypeInv, SweepsSound, SweepSound
<1>3. 0 \in 0..now
    BY DispatchAssumption DEF TypeInv, TypeOK
<1>4. \E r \in Row : row' = [row EXCEPT ![a] = r] /\ (r.present \/ r = NoRow)
    <2>1. CASE Create(a)
        BY <1>3, <2>1, WrittenRows DEF Create, TypeInv
    <2>2. CASE SetApproved(a)
        <3>1. PICK b \in BOOLEAN : row' = [row EXCEPT ![a] = WithApproval(row[a], b)]
            BY <2>2 DEF SetApproved, TypeInv, TypeOK
        <3> QED
            BY <1>3, <2>2, <3>1, WrittenRows DEF SetApproved, TypeInv
    <2>3. CASE SetEnabled(a)
        <3>1. PICK b \in BOOLEAN : row' = [row EXCEPT ![a] = WithEnabled(a, row[a], b)]
            BY <2>3 DEF SetEnabled, TypeInv, TypeOK
        <3> QED
            BY <1>3, <2>3, <3>1, WrittenRows DEF SetEnabled, TypeInv
    <2>4. CASE Delete(a)
        <3>1. NoRow \in Row
            BY DEF NoRow, Row
        <3> QED
            BY <2>4, <3>1 DEF Delete
    <2> QED
        BY <2>1, <2>2, <2>3, <2>4
<1>5. \E h \in Past : past' = [past EXCEPT ![a] = h]
    <2>1. past[a] \in Past /\ Held(a) \in BOOLEAN
        BY DEF TypeInv, TypeOK, Held
    <2>2. CASE Create(a)
        <3>1. PICK e \in BOOLEAN, b \in BOOLEAN :
                 past' = [past EXCEPT ![a].born = TRUE, ![a].stopped = ~e, ![a].revoked = ~b]
            BY <2>2 DEF Create
        <3>2. [past[a] EXCEPT !.born = TRUE, !.stopped = ~e, !.revoked = ~b] \in Past
            BY <2>1 DEF Past
        <3>3. past' = [past EXCEPT ![a] = [past[a] EXCEPT !.born = TRUE, !.stopped = ~e, !.revoked = ~b]]
            BY <3>1 DEF TypeInv, TypeOK
        <3> QED
            BY <3>2, <3>3
    <2>3. CASE SetApproved(a)
        <3>1. PICK b \in BOOLEAN :
                 past' = [past EXCEPT ![a].revoked = ~b /\ (past[a].revoked \/ ~Held(a))]
            BY <2>3 DEF SetApproved, TypeInv, TypeOK
        <3> DEFINE g == ~b /\ (past[a].revoked \/ ~Held(a))
        <3>2. [past[a] EXCEPT !.revoked = g] \in Past
            BY <2>1 DEF Past
        <3>3. past' = [past EXCEPT ![a] = [past[a] EXCEPT !.revoked = g]]
            BY <3>1 DEF TypeInv, TypeOK
        <3> QED
            BY <3>2, <3>3
    <2>4. CASE SetEnabled(a)
        <3>1. PICK b \in BOOLEAN :
                 past' = [past EXCEPT ![a].stopped = ~b /\ (past[a].stopped \/ ~Held(a)),
                                      ![a].rearmed = past[a].rearmed \/ b]
            BY <2>4 DEF SetEnabled, TypeInv, TypeOK
        <3> DEFINE g == ~b /\ (past[a].stopped \/ ~Held(a))
                   h == past[a].rearmed \/ b
        <3>2. [past[a] EXCEPT !.stopped = g, !.rearmed = h] \in Past
            BY <2>1 DEF Past
        <3>3. past' = [past EXCEPT ![a] = [past[a] EXCEPT !.stopped = g, !.rearmed = h]]
            BY <3>1 DEF TypeInv, TypeOK
        <3> QED
            BY <3>2, <3>3
    <2>5. CASE Delete(a)
        <3> DEFINE g == past[a].stopped \/ ~Held(a)
        <3>1. past' = [past EXCEPT ![a].stopped = g]
            BY <2>5 DEF Delete, TypeInv, TypeOK
        <3>2. [past[a] EXCEPT !.stopped = g] \in Past
            BY <2>1 DEF Past
        <3>3. past' = [past EXCEPT ![a] = [past[a] EXCEPT !.stopped = g]]
            BY <3>1 DEF TypeInv, TypeOK
        <3> QED
            BY <3>2, <3>3
    <2> QED
        BY <2>2, <2>3, <2>4, <2>5
<1>6. budget' \in [requests : 0..MaxRequests, crashes : 0..MaxCrashes]
    <2>1. CASE Create(a)
        BY <2>1 DEF TypeInv, TypeOK, Create
    <2>2. CASE Request
        <3>1. budget \in [requests : 0..MaxRequests, crashes : 0..MaxCrashes]
            BY DEF TypeInv, TypeOK
        <3>2. budget.requests + 1 \in 0..MaxRequests
            BY <2>2, <3>1, DispatchAssumption DEF Request
        <3> QED
            BY <2>2, <3>1, <3>2 DEF Request
    <2> QED
        BY <2>1, <2>2 DEF SetApproved, SetEnabled, Delete
<1> QED
    BY <1>1, <1>2, <1>4, <1>5, <1>6 DEF TypeInv, TypeOK

(* What a sweep leaves: it holds no more than it did, and writes the row it *)
(* is at.                                                                   *)
Continues(d) == Continue(d) \/ Crash(d)

(* A sweep that continues only takes items from its batch.                 *)
LEMMA SweepsShrink ==
    ASSUME TypeInv, NEW d \in Dispatchers, Continues(d)
    PROVE  /\ now' = now
           /\ sweep[d].step # "rest"
           /\ \E s \in Sweep :
                 /\ sweep' = [sweep EXCEPT ![d] = s]
                 /\ s.batch \subseteq sweep[d].batch
                 /\ SweepSound(s)
<1>1. now' = now /\ sweep[d] \in Sweep /\ SweepSound(sweep[d])
    BY DEF Continues, Continue, Dispatch, Abort, Advance, Crash, TypeInv, TypeOK, SweepsSound
<1>2. Resting \in Sweep /\ SweepSound(Resting) /\ Resting.batch \subseteq sweep[d].batch
    BY DEF Resting, Sweep, SweepSound
<1>3. sweep[d].step # "rest"
    BY <1>1 DEF Continues, Continue, Dispatch, Abort, Advance, Crash, SweepSound
<1>4. CASE Dispatch(d)
    <2>1. [sweep[d] EXCEPT !.step = "advance"] \in Sweep
        BY <1>1 DEF Sweep
    <2>2. SweepSound([sweep[d] EXCEPT !.step = "advance"])
        BY <1>1, <1>3 DEF SweepSound, Resting, Sweep
    <2>3. sweep' = [sweep EXCEPT ![d] = [sweep[d] EXCEPT !.step = "advance"]]
        BY <1>4 DEF Dispatch, TypeInv, TypeOK
    <2>4. [sweep[d] EXCEPT !.step = "advance"].batch = sweep[d].batch
        BY <1>1 DEF Sweep
    <2> QED
        BY <1>1, <1>3, <2>1, <2>2, <2>3, <2>4
<1>5. CASE Abort(d) \/ Crash(d)
    <2>1. sweep' = [sweep EXCEPT ![d] = Resting]
        BY <1>5 DEF Abort, Crash
    <2> QED
        BY <1>1, <1>2, <1>3, <2>1
<1>6. CASE Advance(d)
    <2> DEFINE left == sweep[d].batch \ {First(sweep[d].batch)}
               s == [sweep[d] EXCEPT !.step = "invoke", !.batch = left]
    <2>1. sweep' = [sweep EXCEPT ![d] = IF left = {} THEN Resting ELSE s]
        BY <1>6 DEF Advance, TypeInv, TypeOK
    <2>2. s \in Sweep /\ s.step = "invoke" /\ s.batch = left /\ s.current = sweep[d].current
        BY <1>1 DEF Sweep
    <2>3. /\ sweep[d].current \in 0..now /\ Distinct(sweep[d].batch)
          /\ \A x \in sweep[d].batch : x.next <= sweep[d].current
        BY <1>3, AtWork
    <2>4. left # {} => SweepSound(s)
        BY <2>2, <2>3 DEF SweepSound, Distinct
    <2>5. left \subseteq sweep[d].batch
        OBVIOUS
    <2> HIDE DEF left, s
    <2> QED
        BY <1>1, <1>2, <1>3, <2>1, <2>2, <2>4, <2>5
<1> QED
    BY <1>4, <1>5, <1>6 DEF Continues, Continue

(* Continuing a sweep keeps the types.                                     *)
LEMMA ContinuingKeepsTypes ==
    ASSUME TypeInv, NEW d \in Dispatchers, Continues(d)
    PROVE  TypeInv'
<1>1. PICK s \in Sweep : /\ sweep' = [sweep EXCEPT ![d] = s]
                         /\ SweepSound(s)
    BY SweepsShrink
<1>2. now' = now /\ sweep[d].step # "rest"
    BY SweepsShrink
<1>3. sweep' \in [Dispatchers -> Sweep] /\ SweepsSound'
    BY <1>1, <1>2 DEF TypeInv, TypeOK, SweepsSound, SweepSound
<1> DEFINE item == First(sweep[d].batch)
           a == item.id
<1>4. item \in Item /\ a \in Automations /\ past[a] \in Past /\ sweep[d].current \in 0..now
    BY <1>2, AtWork DEF Item, TypeInv, TypeOK
<1>5. row' \in [Automations -> Row] /\ \A b \in Automations : row'[b].present \/ row'[b] = NoRow
    <2>1. CASE Advance(d)
        <3>1. row' = [row EXCEPT ![a] = IF row[a].present
                                        THEN Advanced(a, row[a], sweep[d].current) ELSE row[a]]
            BY <1>4, <2>1 DEF Advance, Matched, TypeInv, TypeOK
        <3>2. row[a].present => /\ Advanced(a, row[a], sweep[d].current) \in Row
                                /\ Advanced(a, row[a], sweep[d].current).present
            BY <1>4, WrittenRows DEF TypeInv
        <3> HIDE DEF a
        <3> QED
            BY <1>4, <3>1, <3>2 DEF TypeInv, TypeOK
    <2>2. CASE row' = row
        BY <2>2 DEF TypeInv, TypeOK
    <2> QED
        BY <2>1, <2>2 DEF Continues, Continue, Dispatch, Abort, Crash
<1>6. past' \in [Automations -> Past]
    <2>1. CASE Dispatch(d)
        <3> DEFINE more == past[a].acted + (IF Permitted(item) THEN 1 ELSE 0)
                   h == [past[a] EXCEPT !.fired = @ + 1, !.acted = more]
        <3>1. more \in Nat /\ past[a].fired + 1 \in Nat
            BY <1>4 DEF Past
        <3>2. past' = [past EXCEPT ![a] = h]
            BY <1>4, <2>1 DEF Dispatch, TypeInv, TypeOK
        <3> HIDE DEF more, a
        <3>3. h \in Past
            <4>1. \A g \in Past, k, m \in Nat : [g EXCEPT !.fired = k, !.acted = m] \in Past
                BY DEF Past
            <4> QED
                BY <1>4, <3>1, <4>1
        <3> QED
            BY <1>4, <3>2, <3>3 DEF TypeInv, TypeOK
    <2>2. CASE Crash(d)
        <3>1. [past[a] EXCEPT !.lost = @ + 1] \in Past
            BY <1>4 DEF Past
        <3>2. past' = past \/ past' = [past EXCEPT ![a] = [past[a] EXCEPT !.lost = @ + 1]]
            BY <1>4, <2>2 DEF Crash, TypeInv, TypeOK
        <3> QED
            BY <1>4, <3>1, <3>2 DEF TypeInv, TypeOK
    <2>3. CASE past' = past
        BY <2>3 DEF TypeInv, TypeOK
    <2> QED
        BY <2>1, <2>2, <2>3 DEF Continues, Continue, Abort, Advance
<1>7. budget' \in [requests : 0..MaxRequests, crashes : 0..MaxCrashes]
    <2>1. budget \in [requests : 0..MaxRequests, crashes : 0..MaxCrashes]
        BY DEF TypeInv, TypeOK
    <2>2. CASE Crash(d)
        <3>1. budget.crashes + 1 \in 0..MaxCrashes
            BY <2>1, <2>2, DispatchAssumption DEF Crash
        <3> QED
            BY <2>1, <2>2, <3>1 DEF Crash
    <2>3. CASE budget' = budget
        BY <2>1, <2>3
    <2> QED
        BY <2>2, <2>3 DEF Continues, Continue, Dispatch, Abort, Advance
<1>8. now' \in 0..Horizon
    BY <1>2 DEF TypeInv, TypeOK
<1> QED
    BY <1>3, <1>5, <1>6, <1>7, <1>8 DEF TypeInv, TypeOK

(* A sweep begins with some of the rows that are due.                      *)
LEMMA BatchesAreDue ==
    ASSUME TypeInv, NEW backend, Due(backend) # {}, NEW batch \in Batches(Due(backend))
    PROVE  /\ batch # {} /\ batch \subseteq Item /\ Distinct(batch)
           /\ \A x \in batch : /\ x.id \in Automations /\ IsDue(row[x.id])
                               /\ x.next = row[x.id].next /\ x.next <= now
                               /\ x.approved = row[x.id].approved
<1>1. batch \subseteq Due(backend)
    BY DEF Batches
<1>2. \A x \in Due(backend) :
          \E a \in Automations : /\ x = [id |-> a, approved |-> row[a].approved, next |-> row[a].next]
                                 /\ IsDue(row[a])
    BY DEF Due
<1>3. \A a \in Automations : row[a] \in Row /\ now \in Nat
    BY DispatchAssumption DEF TypeInv, TypeOK
<1>4. batch # {}
    <2>1. batch = {} => Cardinality(batch) = 0
        BY FS_EmptySet
    <2> QED
        BY <2>1, DispatchAssumption DEF Batches
<1>5. ASSUME NEW x \in batch
      PROVE  /\ x \in Item
             /\ x.id \in Automations /\ IsDue(row[x.id])
             /\ x.next = row[x.id].next /\ x.next <= now
             /\ x.approved = row[x.id].approved
             /\ x = [id |-> x.id, approved |-> row[x.id].approved, next |-> row[x.id].next]
    <2>1. PICK a \in Automations :
             /\ x = [id |-> a, approved |-> row[a].approved, next |-> row[a].next]
             /\ IsDue(row[a])
        BY <1>1, <1>2
    <2>2. row[a].approved \in BOOLEAN /\ row[a].next \in Nat /\ row[a].next <= now
        BY <1>3, <2>1 DEF IsDue, Row
    <2>3. x \in Item
        BY <2>1, <2>2 DEF Item
    <2> QED
        BY <2>1, <2>2, <2>3
<1>6. Distinct(batch)
    <2> SUFFICES ASSUME NEW x \in batch, NEW y \in batch, x.id = y.id PROVE x = y
        BY DEF Distinct
    <2>1. /\ x = [id |-> x.id, approved |-> row[x.id].approved, next |-> row[x.id].next]
          /\ y = [id |-> y.id, approved |-> row[y.id].approved, next |-> row[y.id].next]
        BY <1>5
    <2> QED
        BY <2>1
<1> QED
    BY <1>4, <1>5, <1>6

(* Beginning a sweep keeps the types.                                      *)
LEMMA BeginningKeepsTypes ==
    ASSUME TypeInv, NEW d \in Dispatchers, NEW backend, BeginSweep(d, backend)
    PROVE  TypeInv'
<1>1. PICK batch \in Batches(Due(backend)) :
          /\ sweep' = [sweep EXCEPT ![d] = [step |-> "invoke", current |-> now, batch |-> batch]]
          /\ past' = [a \in Automations |->
                        [past[a] EXCEPT !.overlapped =
                            past[a].overlapped \/ (Held(a) /\ \E item \in batch : item.id = a)]]
    BY DEF BeginSweep
<1>2. UNCHANGED <<now, row, budget>> /\ Due(backend) # {}
    BY DEF BeginSweep
<1> DEFINE s == [step |-> "invoke", current |-> now, batch |-> batch]
<1>3. /\ batch # {} /\ batch \subseteq Item /\ Distinct(batch)
      /\ \A x \in batch : x.next <= now
    BY <1>2, BatchesAreDue
<1>4. now \in Nat
    BY DispatchAssumption DEF TypeInv, TypeOK
<1>5. s \in Sweep /\ SweepSound(s)
    BY <1>3, <1>4 DEF Sweep, SweepSound
<1>6. sweep' \in [Dispatchers -> Sweep] /\ SweepsSound'
    <2> HIDE DEF s
    <2>1. sweep' = [sweep EXCEPT ![d] = s]
        BY <1>1 DEF s
    <2> QED
        BY <1>2, <1>5, <2>1 DEF TypeInv, TypeOK, SweepsSound, SweepSound
<1>7. past' \in [Automations -> Past]
    <2>1. \A h \in Past : \A b \in BOOLEAN : [h EXCEPT !.overlapped = b] \in Past
        BY DEF Past
    <2>2. \A a \in Automations : past[a] \in Past /\ past[a].overlapped \in BOOLEAN
        BY DEF TypeInv, TypeOK, Past
    <2>3. \A a \in Automations : past'[a] \in Past
        BY <1>1, <2>1, <2>2
    <2> QED
        BY <1>1, <2>3
<1> QED
    BY <1>2, <1>6, <1>7 DEF TypeInv, TypeOK

(* The passing of time keeps the types.                                    *)
LEMMA TickKeepsTypes ==
    ASSUME TypeInv, Tick
    PROVE  TypeInv'
<1>1. now' = now + 1 /\ now' \in 0..Horizon /\ now \in Nat /\ UNCHANGED <<row, sweep, past, budget>>
    BY DispatchAssumption DEF TypeInv, TypeOK, Tick
<1>2. TypeOK'
    BY <1>1 DEF TypeInv, TypeOK
<1>3. SweepsSound'
    BY <1>1 DEF TypeInv, TypeOK, SweepsSound, SweepSound
<1> QED
    BY <1>2, <1>3 DEF TypeInv

(* So does nothing.                                                        *)
LEMMA StutteringKeepsTypes ==
    ASSUME TypeInv, UNCHANGED vars
    PROVE  TypeInv'
BY DEF TypeInv, TypeOK, SweepsSound, SweepSound, vars

(* Every step is a request, the beginning of a sweep, its continuation, or *)
(* a tick.                                                                 *)
Requested(a) == Create(a) \/ SetApproved(a) \/ SetEnabled(a) \/ Delete(a)

(* The kinds of steps there are.                                           *)
LEMMA Steps ==
    ASSUME Next
    PROVE  \/ \E a \in Automations : Requested(a)
           \/ \E d \in Dispatchers : \/ \E backend \in {"local", "hosted"} : BeginSweep(d, backend)
                                     \/ Continues(d)
           \/ Tick
BY DEF Next, Requested, Continues

(* Every step keeps the types.                                             *)
LEMMA TypesKept ==
    ASSUME TypeInv, [Next]_vars
    PROVE  TypeInv'
<1>1. CASE \E a \in Automations : Requested(a)
    BY <1>1, RequestsKeepTypes DEF Requested
<1>2. CASE \E d \in Dispatchers : \E backend \in {"local", "hosted"} : BeginSweep(d, backend)
    BY <1>2, BeginningKeepsTypes
<1>3. CASE \E d \in Dispatchers : Continues(d)
    BY <1>3, ContinuingKeepsTypes
<1>4. CASE Tick
    BY <1>4, TickKeepsTypes
<1>5. CASE UNCHANGED vars
    BY <1>5, StutteringKeepsTypes
<1> QED
    BY <1>1, <1>2, <1>3, <1>4, <1>5, Steps

(* They hold before the first automation.                                  *)
LEMMA TypesInitially == Init => TypeInv
<1> SUFFICES ASSUME Init PROVE TypeInv
    OBVIOUS
<1>1. NoRow \in Row /\ NoPast \in Past /\ Resting \in Sweep
    BY DEF NoRow, Row, NoPast, Past, Resting, Sweep
<1>2. SweepsSound
    BY DEF Init, SweepsSound, SweepSound
<1> QED
    BY <1>1, <1>2, DispatchAssumption DEF Init, TypeInv, TypeOK

(* Every state has its type, and a sweep holds rows that were due at its    *)
(* time, each of them once (AutomationScheduler.due).                       *)
THEOREM TypeInvariant == Spec => []TypeInv
BY TypesInitially, TypesKept, PTL DEF Spec

-----------------------------------------------------------------------------
(* What a step changes.                                                    *)

(* d holds the row of a.                                                   *)
Holds(d, a) == \E x \in sweep[d].batch : x.id = a

(* d has dispatched a and not written its row yet.                         *)
Dispatched(d, a) == sweep[d].step = "advance" /\ First(sweep[d].batch).id = a

(* A request touches one automation and no sweep.                          *)
LEMMA RequestFacts ==
    ASSUME TypeInv, NEW a \in Automations, Requested(a)
    PROVE  /\ UNCHANGED <<now, sweep>>
           /\ \A b \in Automations \ {a} : row'[b] = row[b] /\ past'[b] = past[b]
BY DEF Requested, Create, SetApproved, SetEnabled, Delete, TypeInv, TypeOK

(* What it writes.                                                         *)
RequestCounts(a) ==
    /\ past'[a].fired = past[a].fired /\ past'[a].acted = past[a].acted
    /\ past'[a].lost = past[a].lost
    /\ past'[a].overlapped <=> past[a].overlapped
    /\ past'[a].born
    /\ past[a].rearmed => past'[a].rearmed

(* What a request does to the row: it deletes it, makes it, or leaves its  *)
(* last run,                                                               *)
RequestRow(a) ==
    \/ row'[a] = NoRow
    \/ ~past[a].born /\ row'[a].last = Never
    \/ row[a].present /\ row'[a].last = row[a].last

(* its next run,                                                           *)
RequestNext(a) ==
    \/ row'[a].next = row[a].next
    \/ row'[a].next = Never
    \/ /\ row'[a].next = NextRun(Schedule[a], now - 1)
       /\ ~past[a].born \/ past'[a].rearmed

(* whether it was stopped,                                                 *)
RequestStops(a) ==
    past'[a].stopped => /\ past[a].stopped \/ ~Held(a) \/ ~past[a].born
                        /\ row'[a].enabled => past[a].stopped /\ row[a].enabled

(* and whether its approval was withdrawn.                                 *)
RequestRevokes(a) ==
    past'[a].revoked => /\ past[a].revoked \/ ~Held(a) \/ ~past[a].born
                        /\ row'[a].approved => past[a].revoked /\ row[a].approved

(* All of it.                                                              *)
RequestWrites(a) ==
    /\ RequestCounts(a) /\ RequestRow(a) /\ RequestNext(a) /\ RequestStops(a) /\ RequestRevokes(a)
    /\ row'[a].runs \in {0, row[a].runs}

(* Every request of the API does that and no more.                         *)
LEMMA RequestsWrite ==
    ASSUME TypeInv, NEW a \in Automations, Requested(a), row[a].present => past[a].born
    PROVE  RequestWrites(a)
<1>1. past[a] \in Past /\ row[a] \in Row /\ Held(a) \in BOOLEAN
      /\ row \in [Automations -> Row] /\ past \in [Automations -> Past]
    BY DEF TypeInv, TypeOK, Held
<1> DEFINE held == Held(a)
           next == NextRun(Schedule[a], now - 1)
<1>2. CASE Create(a)
    <2>1. PICK e \in BOOLEAN, b \in BOOLEAN :
             /\ row' = [row EXCEPT ![a] = Created(a, e, b)]
             /\ past' = [past EXCEPT ![a].born = TRUE, ![a].stopped = ~e, ![a].revoked = ~b]
        BY <1>2 DEF Create
    <2>2. past'[a] = [past[a] EXCEPT !.born = TRUE, !.stopped = ~e, !.revoked = ~b]
        BY <1>1, <2>1
    <2>3. row'[a] = [NoRow EXCEPT !.present = TRUE, !.enabled = e, !.approved = b,
                                  !.next = IF e THEN next ELSE Never]
        BY <1>1, <2>1 DEF Created
    <2>4. ~past[a].born
        BY <1>2 DEF Create
    <2> HIDE DEF next
    <2>5. /\ row'[a].runs = 0 /\ row'[a].last = Never /\ row'[a].next \in {next, Never}
          /\ row'[a].enabled = e /\ row'[a].approved = b
        BY <2>3 DEF NoRow
    <2>6. /\ past'[a].fired = past[a].fired /\ past'[a].acted = past[a].acted
          /\ past'[a].lost = past[a].lost /\ past'[a].overlapped = past[a].overlapped
          /\ past'[a].born /\ past'[a].rearmed = past[a].rearmed
          /\ past'[a].stopped = ~e /\ past'[a].revoked = ~b
        BY <1>1, <2>2 DEF Past
    <2>11. RequestCounts(a)
        BY <2>6, Zenon DEF RequestCounts
    <2>12. RequestRow(a)
        BY <2>4, <2>5 DEF RequestRow
    <2>13. RequestNext(a)
        BY <2>4, <2>5, Zenon DEF RequestNext, next
    <2>14. RequestStops(a)
        BY <2>4, <2>5, <2>6, Zenon DEF RequestStops, held
    <2>15. RequestRevokes(a)
        BY <2>4, <2>5, <2>6, Zenon DEF RequestRevokes, held
    <2> QED
        BY <2>11, <2>12, <2>13, <2>14, <2>15, <2>5 DEF RequestWrites
<1>3. CASE SetApproved(a)
    <2>1. PICK b \in BOOLEAN : /\ row' = [row EXCEPT ![a] = WithApproval(row[a], b)]
                               /\ past' = [past EXCEPT ![a].revoked = ~b /\ (past[a].revoked \/ ~held)]
        BY <1>1, <1>3 DEF SetApproved
    <2>2. past'[a] = [past[a] EXCEPT !.revoked = ~b /\ (past[a].revoked \/ ~held)]
          /\ row'[a] = [row[a] EXCEPT !.approved = b]
        BY <1>1, <2>1 DEF WithApproval
    <2>3. row[a].present
        BY <1>3 DEF SetApproved
    <2> HIDE DEF held
    <2>4. /\ row'[a].runs = row[a].runs /\ row'[a].last = row[a].last /\ row'[a].next = row[a].next
          /\ row'[a].enabled = row[a].enabled /\ row'[a].approved = b
        BY <1>1, <2>2 DEF Row
    <2>5. /\ past'[a].fired = past[a].fired /\ past'[a].acted = past[a].acted
          /\ past'[a].lost = past[a].lost /\ past'[a].overlapped = past[a].overlapped
          /\ past'[a].born = past[a].born /\ past'[a].rearmed = past[a].rearmed
          /\ past'[a].stopped = past[a].stopped
          /\ past'[a].revoked = (~b /\ (past[a].revoked \/ ~held))
        BY <1>1, <2>2 DEF Past
    <2>6. past'[a].stopped => past[a].stopped /\ row'[a].enabled = row[a].enabled
        BY <2>4, <2>5, Zenon
    <2>7. past'[a].revoked => (past[a].revoked \/ ~held) /\ ~row'[a].approved
        BY <2>4, <2>5, Zenon
    <2>11. RequestCounts(a)
        BY <2>3, <2>5, Zenon DEF RequestCounts
    <2>12. RequestRow(a)
        BY <2>3, <2>4 DEF RequestRow
    <2>13. RequestNext(a)
        BY <2>4, Zenon DEF RequestNext, next
    <2>14. RequestStops(a)
        BY <2>4, <2>6, Zenon DEF RequestStops, held
    <2>15. RequestRevokes(a)
        BY <2>7, Zenon DEF RequestRevokes, held
    <2> QED
        BY <2>11, <2>12, <2>13, <2>14, <2>15, <2>4 DEF RequestWrites
<1>4. CASE SetEnabled(a)
    <2>1. PICK b \in BOOLEAN : /\ row' = [row EXCEPT ![a] = WithEnabled(a, row[a], b)]
                               /\ past' = [past EXCEPT ![a].stopped = ~b /\ (past[a].stopped \/ ~held),
                                                       ![a].rearmed = past[a].rearmed \/ b]
        BY <1>1, <1>4 DEF SetEnabled
    <2>2. past'[a] = [past[a] EXCEPT !.stopped = ~b /\ (past[a].stopped \/ ~held),
                                     !.rearmed = past[a].rearmed \/ b]
          /\ row'[a] = [row[a] EXCEPT !.enabled = b, !.next = IF b THEN next ELSE Never]
        BY <1>1, <2>1 DEF WithEnabled
    <2>3. row[a].present
        BY <1>4 DEF SetEnabled
    <2> HIDE DEF held, next
    <2>4. /\ row'[a].runs = row[a].runs /\ row'[a].last = row[a].last
          /\ row'[a].next = (IF b THEN next ELSE Never)
          /\ row'[a].enabled = b /\ row'[a].approved = row[a].approved
        BY <1>1, <2>2 DEF Row
    <2>5. /\ past'[a].fired = past[a].fired /\ past'[a].acted = past[a].acted
          /\ past'[a].lost = past[a].lost /\ past'[a].overlapped = past[a].overlapped
          /\ past'[a].born = past[a].born /\ past'[a].rearmed = (past[a].rearmed \/ b)
          /\ past'[a].stopped = (~b /\ (past[a].stopped \/ ~held))
          /\ past'[a].revoked = past[a].revoked
        BY <1>1, <2>2 DEF Past
    <2>6. past'[a].stopped => (past[a].stopped \/ ~held) /\ ~row'[a].enabled
        BY <2>4, <2>5, Zenon
    <2>7. past'[a].revoked => past[a].revoked /\ row'[a].approved = row[a].approved
        BY <2>4, <2>5, Zenon
    <2>11. RequestCounts(a)
        BY <2>3, <2>5, Zenon DEF RequestCounts
    <2>12. RequestRow(a)
        BY <2>3, <2>4 DEF RequestRow
    <2>13. RequestNext(a)
        BY <2>4, <2>5, Zenon DEF RequestNext, next
    <2>14. RequestStops(a)
        BY <2>6, Zenon DEF RequestStops, held
    <2>15. RequestRevokes(a)
        BY <2>4, <2>7, Zenon DEF RequestRevokes, held
    <2> QED
        BY <2>11, <2>12, <2>13, <2>14, <2>15, <2>4 DEF RequestWrites
<1>5. CASE Delete(a)
    <2>1. /\ row'[a] = NoRow /\ row[a].present
          /\ past'[a] = [past[a] EXCEPT !.stopped = past[a].stopped \/ ~held]
        BY <1>1, <1>5 DEF Delete
    <2>2. /\ row'[a].runs = 0 /\ row'[a].next = Never /\ ~row'[a].enabled /\ ~row'[a].approved
        BY <2>1 DEF NoRow
    <2> HIDE DEF held
    <2>3. /\ past'[a].fired = past[a].fired /\ past'[a].acted = past[a].acted
          /\ past'[a].lost = past[a].lost /\ past'[a].overlapped = past[a].overlapped
          /\ past'[a].born = past[a].born /\ past'[a].rearmed = past[a].rearmed
          /\ past'[a].stopped = (past[a].stopped \/ ~held)
          /\ past'[a].revoked = past[a].revoked
        BY <1>1, <2>1 DEF Past
    <2>11. RequestCounts(a)
        BY <2>1, <2>3, Zenon DEF RequestCounts
    <2>12. RequestRow(a)
        BY <2>1 DEF RequestRow
    <2>13. RequestNext(a)
        BY <2>2, Zenon DEF RequestNext, next
    <2>14. RequestStops(a)
        BY <2>2, <2>3, Zenon DEF RequestStops, held
    <2>15. RequestRevokes(a)
        BY <2>2, <2>3, Zenon DEF RequestRevokes, held
    <2> QED
        BY <2>11, <2>12, <2>13, <2>14, <2>15, <2>2 DEF RequestWrites
<1> QED
    BY <1>2, <1>3, <1>4, <1>5 DEF Requested

(* A sweep begins: d held nothing, and now holds rows that are due.        *)
LEMMA BeginningFacts ==
    ASSUME TypeInv, NEW d \in Dispatchers, NEW backend, BeginSweep(d, backend)
    PROVE  /\ UNCHANGED <<now, row>>
           /\ sweep[d].batch = {}
           /\ sweep'[d].step = "invoke" /\ sweep'[d].batch \subseteq Item
           /\ \A e \in Dispatchers \ {d} : sweep'[e] = sweep[e]
           /\ \A x \in sweep'[d].batch :
                 /\ x.id \in Automations /\ IsDue(row[x.id])
                 /\ x.next = row[x.id].next /\ x.approved = row[x.id].approved
           /\ \A a \in Automations :
                 /\ past'[a].overlapped <=> past[a].overlapped \/ (Held(a) /\ Holds(d, a)')
                 /\ past'[a].fired = past[a].fired /\ past'[a].acted = past[a].acted
                 /\ past'[a].lost = past[a].lost
                 /\ past'[a].born <=> past[a].born
                 /\ past'[a].rearmed <=> past[a].rearmed
                 /\ past'[a].stopped <=> past[a].stopped
                 /\ past'[a].revoked <=> past[a].revoked
<1>1. PICK batch \in Batches(Due(backend)) :
          /\ sweep' = [sweep EXCEPT ![d] = [step |-> "invoke", current |-> now, batch |-> batch]]
          /\ past' = [a \in Automations |->
                        [past[a] EXCEPT !.overlapped =
                            past[a].overlapped \/ (Held(a) /\ \E item \in batch : item.id = a)]]
    BY DEF BeginSweep
<1>2. UNCHANGED <<now, row>> /\ Due(backend) # {} /\ sweep[d].batch = {}
    BY DEF BeginSweep, Resting
<1>3. /\ sweep'[d].batch = batch /\ sweep'[d].step = "invoke"
      /\ \A e \in Dispatchers \ {d} : sweep'[e] = sweep[e]
    BY <1>1 DEF TypeInv, TypeOK
<1>4. batch \subseteq Item
      /\ \A x \in batch : /\ x.id \in Automations /\ IsDue(row[x.id])
                          /\ x.next = row[x.id].next /\ x.approved = row[x.id].approved
    BY <1>2, BatchesAreDue
<1>5. ASSUME NEW a \in Automations
      PROVE  /\ past'[a].overlapped <=> past[a].overlapped \/ (Held(a) /\ Holds(d, a)')
             /\ past'[a].fired = past[a].fired /\ past'[a].acted = past[a].acted
             /\ past'[a].lost = past[a].lost
             /\ past'[a].born <=> past[a].born
             /\ past'[a].rearmed <=> past[a].rearmed
             /\ past'[a].stopped <=> past[a].stopped
             /\ past'[a].revoked <=> past[a].revoked
    <2> DEFINE o == past[a].overlapped \/ (Held(a) /\ \E item \in batch : item.id = a)
    <2>1. past'[a] = [past[a] EXCEPT !.overlapped = o] /\ past[a] \in Past
        BY <1>1 DEF TypeInv, TypeOK
    <2>2. o <=> past[a].overlapped \/ (Held(a) /\ Holds(d, a)')
        BY <1>3 DEF Holds
    <2> HIDE DEF o
    <2>3. /\ past'[a].overlapped = o
          /\ past'[a].fired = past[a].fired /\ past'[a].acted = past[a].acted
          /\ past'[a].lost = past[a].lost
          /\ past'[a].born = past[a].born
          /\ past'[a].rearmed = past[a].rearmed
          /\ past'[a].stopped = past[a].stopped
          /\ past'[a].revoked = past[a].revoked
        BY <2>1 DEF Past
    <2> QED
        BY <2>2, <2>3, Zenon
<1> QED
    BY <1>2, <1>3, <1>4, <1>5

(* A sweep goes on or ends: it holds no more than it did, and counts and   *)
(* writes for the row it is at.                                            *)
LEMMA ContinuingFacts ==
    ASSUME TypeInv, NEW d \in Dispatchers, Continues(d)
    PROVE  /\ now' = now
           /\ sweep[d].step # "rest"
           /\ \A e \in Dispatchers : sweep'[e].batch \subseteq sweep[e].batch
           /\ \A e \in Dispatchers \ {d} : sweep'[e] = sweep[e]
           /\ \A a \in Automations :
                 /\ past'[a].overlapped <=> past[a].overlapped
                 /\ past'[a].born <=> past[a].born
                 /\ past'[a].rearmed <=> past[a].rearmed
                 /\ past'[a].stopped <=> past[a].stopped
                 /\ past'[a].revoked <=> past[a].revoked
                 /\ past'[a].lost >= past[a].lost
                 /\ \/ past'[a].fired = past[a].fired /\ past'[a].acted = past[a].acted
                    \/ /\ Dispatch(d) /\ First(sweep[d].batch).id = a
                       /\ past'[a].fired = past[a].fired + 1
                       /\ past'[a].acted = past[a].acted
                             + (IF Permitted(First(sweep[d].batch)) THEN 1 ELSE 0)
                 /\ \/ row'[a] = row[a]
                    \/ /\ Advance(d) /\ First(sweep[d].batch).id = a /\ row[a].present
                       /\ row'[a] = Advanced(a, row[a], sweep[d].current)
<1>1. /\ now' = now /\ sweep[d].step # "rest"
      /\ \A e \in Dispatchers : sweep'[e].batch \subseteq sweep[e].batch
      /\ \A e \in Dispatchers \ {d} : sweep'[e] = sweep[e]
    BY SweepsShrink DEF TypeInv, TypeOK
<1> DEFINE item == First(sweep[d].batch)
<1>2. item.id \in Automations
    BY <1>1, AtWork DEF Item
<1>3. row \in [Automations -> Row] /\ past \in [Automations -> Past]
    BY DEF TypeInv, TypeOK
<1>4. ASSUME NEW a \in Automations
      PROVE  \/ row'[a] = row[a]
             \/ /\ Advance(d) /\ item.id = a /\ row[a].present
                /\ row'[a] = Advanced(a, row[a], sweep[d].current)
    <2>1. CASE Advance(d)
        <3>1. row' = [row EXCEPT ![item.id] = IF row[item.id].present
                                 THEN Advanced(item.id, row[item.id], sweep[d].current)
                                 ELSE row[item.id]]
            BY <1>2, <1>3, <2>1 DEF Advance, Matched
        <3> HIDE DEF item
        <3> QED
            BY <1>2, <1>3, <2>1, <3>1
    <2>2. CASE row' = row
        BY <2>2
    <2> QED
        BY <2>1, <2>2 DEF Continues, Continue, Dispatch, Abort, Crash
<1>5. ASSUME NEW a \in Automations
      PROVE  /\ past'[a].overlapped = past[a].overlapped /\ past'[a].born = past[a].born
             /\ past'[a].rearmed = past[a].rearmed /\ past'[a].stopped = past[a].stopped
             /\ past'[a].revoked = past[a].revoked
             /\ past'[a].lost >= past[a].lost
             /\ \/ past'[a].fired = past[a].fired /\ past'[a].acted = past[a].acted
                \/ /\ Dispatch(d) /\ item.id = a
                   /\ past'[a].fired = past[a].fired + 1
                   /\ past'[a].acted = past[a].acted + (IF Permitted(item) THEN 1 ELSE 0)
    <2>1. past[a] \in Past /\ past[a].lost \in Nat
        BY <1>3 DEF Past
    <2>2. CASE Dispatch(d) /\ item.id = a
        <3> DEFINE more == past[a].acted + (IF Permitted(item) THEN 1 ELSE 0)
        <3>1. past'[a] = [past[a] EXCEPT !.fired = past[a].fired + 1, !.acted = more]
            BY <1>3, <2>2 DEF Dispatch
        <3> HIDE DEF more
        <3>2. /\ past'[a].overlapped = past[a].overlapped /\ past'[a].born = past[a].born
              /\ past'[a].rearmed = past[a].rearmed /\ past'[a].stopped = past[a].stopped
              /\ past'[a].revoked = past[a].revoked /\ past'[a].lost = past[a].lost
              /\ past'[a].fired = past[a].fired + 1 /\ past'[a].acted = more
            BY <2>1, <3>1 DEF Past
        <3> QED
            BY <2>1, <2>2, <3>2 DEF more
    <2>3. CASE Crash(d) /\ past'[a] = [past[a] EXCEPT !.lost = @ + 1]
        BY <2>1, <2>3 DEF Past
    <2>4. CASE past'[a] = past[a]
        BY <2>1, <2>4
    <2>5. \/ Dispatch(d) /\ item.id = a
          \/ Crash(d) /\ past'[a] = [past[a] EXCEPT !.lost = @ + 1]
          \/ past'[a] = past[a]
        <3>1. CASE Dispatch(d)
            BY <1>2, <1>3, <3>1 DEF Dispatch
        <3>2. CASE Crash(d)
            BY <1>2, <1>3, <3>2 DEF Crash
        <3>3. CASE Abort(d) \/ Advance(d)
            BY <3>3 DEF Abort, Advance
        <3> QED
            BY <3>1, <3>2, <3>3 DEF Continues, Continue
    <2> QED
        BY <2>2, <2>3, <2>4, <2>5
<1> QED
    BY <1>1, <1>4, <1>5

-----------------------------------------------------------------------------
(* What was withdrawn.                                                     *)

BornFirst(a) == row[a].present \/ Held(a) \/ past[a].fired # 0 => past[a].born

(* Two dispatchers hold one automation only if their sweeps overlapped.    *)
HeldByOne(a) ==
    \A d, e \in Dispatchers : d # e /\ Holds(d, a) /\ Holds(e, a) => past[a].overlapped

(* An automation stopped while nobody held it is disabled and nobody holds *)
(* it.                                                                     *)
StoppedRests(a) == past[a].stopped => ~row[a].enabled /\ ~Held(a)

(* One whose approval was withdrawn is not approved, neither in its row    *)
(* nor in a batch.                                                         *)
RevokedRests(a) ==
    past[a].revoked => /\ ~row[a].approved
                       /\ \A d \in Dispatchers : \A x \in sweep[d].batch : x.id = a => ~x.approved

(* What is held was created, and by two only if they overlap; what was     *)
(* withdrawn at rest is not enabled, or not approved, in the row or in any *)
(* sweep.                                                                  *)
WithdrawnInv ==
    /\ TypeInv
    /\ \A a \in Automations : BornFirst(a) /\ HeldByOne(a) /\ StoppedRests(a) /\ RevokedRests(a)

(* Who holds an automation is a dispatcher.                                *)
LEMMA HeldBySome == \A a \in Automations : Held(a) <=> \E d \in Dispatchers : Holds(d, a)
BY DEF Held, Holds

(* The requests keep the invariant of what was withdrawn.                  *)
LEMMA RequestsKeepWithdrawn ==
    ASSUME WithdrawnInv, NEW a \in Automations, Requested(a)
    PROVE  WithdrawnInv'
<1>1. TypeInv /\ TypeInv' /\ UNCHANGED <<now, sweep>>
    BY TypesKept, RequestFacts, RequestsKeepTypes DEF WithdrawnInv, Requested
<1>2. \A b \in Automations \ {a} : row'[b] = row[b] /\ past'[b] = past[b]
    BY <1>1, RequestFacts
<1>3. RequestWrites(a)
    BY <1>1, RequestsWrite DEF WithdrawnInv, BornFirst
<1>4. \A b \in Automations : (Held(b)' <=> Held(b)) /\ \A d \in Dispatchers : Holds(d, b)' <=> Holds(d, b)
    BY <1>1 DEF Held, Holds
<1>5. ASSUME NEW b \in Automations, b # a
      PROVE  (BornFirst(b) /\ HeldByOne(b) /\ StoppedRests(b) /\ RevokedRests(b))'
    BY <1>1, <1>2, <1>4, <1>5 DEF WithdrawnInv, BornFirst, HeldByOne, StoppedRests, RevokedRests
<1>6. BornFirst(a)' /\ HeldByOne(a)'
    BY <1>3, <1>4 DEF WithdrawnInv, BornFirst, HeldByOne, RequestWrites, RequestCounts
<1>7. StoppedRests(a)'
    BY <1>3, <1>4 DEF WithdrawnInv, BornFirst, StoppedRests, RequestWrites, RequestStops
<1>8. RevokedRests(a)'
    <2>1. ASSUME past'[a].revoked
          PROVE  /\ ~row'[a].approved
                 /\ past[a].revoked \/ ~Held(a)
        BY <1>3, <2>1 DEF WithdrawnInv, BornFirst, RevokedRests, RequestWrites, RequestRevokes
    <2>2. ~Held(a) => \A d \in Dispatchers : \A x \in sweep[d].batch : x.id # a
        BY DEF Held
    <2> QED
        BY <1>1, <2>1, <2>2 DEF WithdrawnInv, RevokedRests
<1> QED
    BY <1>1, <1>5, <1>6, <1>7, <1>8 DEF WithdrawnInv

(* Beginning a sweep keeps it.                                             *)
LEMMA BeginningKeepsWithdrawn ==
    ASSUME WithdrawnInv, NEW d \in Dispatchers, NEW backend, BeginSweep(d, backend)
    PROVE  WithdrawnInv'
<1>1. TypeInv /\ TypeInv'
    BY BeginningKeepsTypes DEF WithdrawnInv
<1>2. /\ row' = row /\ sweep[d].batch = {}
      /\ \A e \in Dispatchers \ {d} : sweep'[e] = sweep[e]
      /\ \A x \in sweep'[d].batch :
            IsDue(row[x.id]) /\ x.approved = row[x.id].approved
    BY <1>1, BeginningFacts
<1> SUFFICES ASSUME NEW a \in Automations
             PROVE  (BornFirst(a) /\ HeldByOne(a) /\ StoppedRests(a) /\ RevokedRests(a))'
    BY <1>1 DEF WithdrawnInv
<1>3. /\ past'[a].overlapped <=> past[a].overlapped \/ (Held(a) /\ Holds(d, a)')
      /\ past'[a].fired = past[a].fired
      /\ past'[a].born <=> past[a].born
      /\ past'[a].stopped <=> past[a].stopped
      /\ past'[a].revoked <=> past[a].revoked
    BY <1>1, BeginningFacts
<1>4. BornFirst(a) /\ HeldByOne(a) /\ StoppedRests(a) /\ RevokedRests(a)
    BY DEF WithdrawnInv
<1>5. Holds(d, a)' => row[a].enabled /\ row[a].present
    <2>1. Holds(d, a)' => IsDue(row[a])
        BY <1>2 DEF Holds
    <2>2. row[a].enabled => row[a].present
        BY <1>1 DEF TypeInv, TypeOK, NoRow
    <2> QED
        BY <2>1, <2>2 DEF IsDue
<1>6. \A e \in Dispatchers \ {d} : Holds(e, a)' => Holds(e, a)
    BY <1>2 DEF Holds
<1>7. Held(a)' => Held(a) \/ Holds(d, a)'
    BY <1>6, HeldBySome DEF Held, Holds
<1>8. BornFirst(a)'
    BY <1>2, <1>3, <1>4, <1>5, <1>7 DEF BornFirst
<1>9. HeldByOne(a)'
    <2> SUFFICES ASSUME NEW e \in Dispatchers, NEW f \in Dispatchers, e # f,
                        Holds(e, a)', Holds(f, a)'
                 PROVE  past'[a].overlapped
        BY DEF HeldByOne
    <2>1. CASE e = d
        BY <1>3, <1>6, <2>1, HeldBySome
    <2>2. CASE f = d
        BY <1>3, <1>6, <2>2, HeldBySome
    <2>3. CASE e # d /\ f # d
        BY <1>3, <1>4, <1>6, <2>3 DEF HeldByOne
    <2> QED
        BY <2>1, <2>2, <2>3
<1>10. StoppedRests(a)'
    BY <1>2, <1>3, <1>4, <1>5, <1>7 DEF StoppedRests
<1>11. RevokedRests(a)'
    <2> SUFFICES ASSUME past'[a].revoked, NEW e \in Dispatchers, NEW x \in sweep'[e].batch, x.id = a
                 PROVE  ~x.approved
        BY <1>2, <1>3, <1>4 DEF RevokedRests
    <2>1. CASE e = d
        BY <1>2, <1>3, <1>4, <2>1 DEF RevokedRests
    <2>2. CASE e # d
        BY <1>2, <1>3, <1>4, <2>2 DEF RevokedRests
    <2> QED
        BY <2>1, <2>2
<1> QED
    BY <1>8, <1>9, <1>10, <1>11

(* Continuing a sweep keeps it.                                            *)
LEMMA ContinuingKeepsWithdrawn ==
    ASSUME WithdrawnInv, NEW d \in Dispatchers, Continues(d)
    PROVE  WithdrawnInv'
<1>1. TypeInv /\ TypeInv'
    BY ContinuingKeepsTypes DEF WithdrawnInv
<1>2. sweep[d].step # "rest" /\ \A e \in Dispatchers : sweep'[e].batch \subseteq sweep[e].batch
    BY <1>1, ContinuingFacts
<1> SUFFICES ASSUME NEW a \in Automations
             PROVE  (BornFirst(a) /\ HeldByOne(a) /\ StoppedRests(a) /\ RevokedRests(a))'
    BY <1>1 DEF WithdrawnInv
<1>3. /\ past'[a].overlapped <=> past[a].overlapped
      /\ past'[a].born <=> past[a].born
      /\ past'[a].stopped <=> past[a].stopped
      /\ past'[a].revoked <=> past[a].revoked
      /\ past'[a].fired = past[a].fired \/ First(sweep[d].batch).id = a
      /\ \/ row'[a] = row[a]
         \/ /\ Advance(d) /\ First(sweep[d].batch).id = a /\ row[a].present
            /\ row'[a] = Advanced(a, row[a], sweep[d].current)
    BY <1>1, ContinuingFacts
<1>4. BornFirst(a) /\ HeldByOne(a) /\ StoppedRests(a) /\ RevokedRests(a)
    BY DEF WithdrawnInv
<1>5. (Held(a)' => Held(a)) /\ \A e \in Dispatchers : Holds(e, a)' => Holds(e, a)
    BY <1>2 DEF Held, Holds
<1>6. First(sweep[d].batch).id = a => Held(a)
    BY <1>1, <1>2, AtWork DEF Held
<1>7. row'[a] = row[a] \/ (Held(a) /\ row[a].present)
    BY <1>3, <1>6
<1>8. BornFirst(a)'
    BY <1>3, <1>4, <1>5, <1>6, <1>7 DEF BornFirst
<1>9. HeldByOne(a)'
    BY <1>3, <1>4, <1>5 DEF HeldByOne
<1>10. StoppedRests(a)'
    BY <1>3, <1>4, <1>5, <1>7 DEF StoppedRests
<1>11. RevokedRests(a)'
    <2>1. row[a] \in Row /\ sweep[d].current \in Nat
        BY <1>1 DEF TypeInv, TypeOK, Sweep
    <2>2. Advanced(a, row[a], sweep[d].current).approved = row[a].approved
        BY <2>1, AdvancedRow
    <2>3. row'[a].approved = row[a].approved
        BY <1>3, <2>2, Zenon
    <2> QED
        BY <1>2, <1>3, <1>4, <2>3 DEF RevokedRests
<1> QED
    BY <1>8, <1>9, <1>10, <1>11

(* Every step keeps it.                                                    *)
LEMMA WithdrawnKept ==
    ASSUME WithdrawnInv, [Next]_vars
    PROVE  WithdrawnInv'
<1>1. CASE \E a \in Automations : Requested(a)
    BY <1>1, RequestsKeepWithdrawn
<1>2. CASE \E d \in Dispatchers : \E backend \in {"local", "hosted"} : BeginSweep(d, backend)
    BY <1>2, BeginningKeepsWithdrawn
<1>3. CASE \E d \in Dispatchers : Continues(d)
    BY <1>3, ContinuingKeepsWithdrawn
<1>4. CASE UNCHANGED <<row, sweep, past>>
    <2>1. TypeInv'
        BY TypesKept DEF WithdrawnInv
    <2> QED
        BY <1>4, <2>1 DEF WithdrawnInv, BornFirst, HeldByOne, StoppedRests, RevokedRests, Held, Holds
<1> QED
    BY <1>1, <1>2, <1>3, <1>4, Steps DEF Tick, vars

(* It holds before the first automation.                                   *)
LEMMA WithdrawnInitially == Init => WithdrawnInv
<1> SUFFICES ASSUME Init PROVE WithdrawnInv
    OBVIOUS
<1>1. TypeInv
    BY TypesInitially
<1> QED
    BY <1>1 DEF Init, WithdrawnInv, BornFirst, HeldByOne, StoppedRests, RevokedRests, Held, Holds,
                NoRow, NoPast, Resting

(* The invariant of what was withdrawn holds in every state, for any       *)
(* automations, schedules and dispatchers.                                 *)
THEOREM WithdrawnInvariant == Spec => []WithdrawnInv
BY WithdrawnInitially, WithdrawnKept, PTL DEF Spec

(* In a state where it holds, no step fires what was stopped, nor acts for *)
(* what was revoked.                                                       *)
LEMMA WithdrawnStaysQuiet ==
    ASSUME WithdrawnInv, [Next]_vars, NEW a \in Automations
    PROVE  /\ past[a].stopped => past'[a].fired = past[a].fired
           /\ (past[a].revoked /\ a \in Guarded) => past'[a].acted = past[a].acted
<1>1. TypeInv /\ StoppedRests(a) /\ RevokedRests(a) /\ past[a].acted \in Nat
    BY DEF WithdrawnInv, TypeInv, TypeOK, Past
<1>2. CASE \E b \in Automations : Requested(b)
    <2>1. PICK b \in Automations : Requested(b)
        BY <1>2
    <2>2. CASE b = a
        BY <1>1, <2>1, <2>2, RequestsWrite DEF WithdrawnInv, BornFirst, RequestWrites, RequestCounts
    <2>3. CASE b # a
        BY <1>1, <2>1, <2>3, RequestFacts
    <2> QED
        BY <2>2, <2>3
<1>3. CASE \E d \in Dispatchers : \E backend \in {"local", "hosted"} : BeginSweep(d, backend)
    BY <1>1, <1>3, BeginningFacts
<1>4. CASE \E d \in Dispatchers : Continues(d)
    <2>1. PICK d \in Dispatchers : Continues(d)
        BY <1>4
    <2> DEFINE item == First(sweep[d].batch)
    <2>2. item \in sweep[d].batch
        BY <1>1, <2>1, AtWork, ContinuingFacts
    <2>3. \/ past'[a].fired = past[a].fired /\ past'[a].acted = past[a].acted
          \/ /\ item.id = a
             /\ past'[a].acted = past[a].acted + (IF Permitted(item) THEN 1 ELSE 0)
        BY <1>1, <2>1, ContinuingFacts
    <2>4. item.id = a => Held(a)
        BY <2>2 DEF Held
    <2>5. item.id = a /\ past[a].revoked /\ a \in Guarded => ~Permitted(item)
        BY <1>1, <2>2 DEF RevokedRests, Permitted
    <2> QED
        BY <1>1, <2>3, <2>4, <2>5 DEF StoppedRests
<1>5. CASE UNCHANGED past
    BY <1>5
<1> QED
    BY <1>2, <1>3, <1>4, <1>5, Steps DEF Tick, vars

(* What is disabled, deleted or revoked while no sweep holds it stays      *)
(* quiet (AutomationScheduler.set_enabled, set_approved, delete).          *)
THEOREM WithdrawnStays == Spec => WithdrawnIsQuiet
<1>1. WithdrawnInv /\ [Next]_vars =>
          [\A a \in Automations :
              /\ past[a].stopped => past'[a].fired = past[a].fired
              /\ (past[a].revoked /\ a \in Guarded) => past'[a].acted = past[a].acted]_vars
    BY WithdrawnStaysQuiet
<1> QED
    BY <1>1, WithdrawnInvariant, PTL DEF Spec, WithdrawnIsQuiet

-----------------------------------------------------------------------------
(* One-shots.                                                              *)

(* Whoever ends the dispatch of a row that only he held, leaves it unheld. *)
LEMMA NobodyHoldsWhatIsWritten ==
    ASSUME WithdrawnInv, NEW d \in Dispatchers, Advance(d), NEW a \in Automations,
           First(sweep[d].batch).id = a, ~past[a].overlapped
    PROVE  ~Held(a)'
<1>1. TypeInv /\ HeldByOne(a) /\ Continues(d)
    BY DEF WithdrawnInv, Continues, Continue
<1>2. /\ First(sweep[d].batch) \in sweep[d].batch /\ Distinct(sweep[d].batch)
      /\ \A e \in Dispatchers : sweep'[e].batch \subseteq sweep[e].batch
    BY <1>1, AtWork, ContinuingFacts
<1>3. ASSUME NEW e \in Dispatchers, Holds(e, a)'
      PROVE  FALSE
    <2>1. Holds(e, a) /\ Holds(d, a)
        BY <1>2, <1>3 DEF Holds
    <2>2. e = d
        BY <1>1, <2>1 DEF HeldByOne
    <2>3. sweep'[d].batch \subseteq sweep[d].batch \ {First(sweep[d].batch)}
        BY DEF Advance, TypeInv, TypeOK, WithdrawnInv, Sweep, Resting
    <2> QED
        BY <1>2, <1>3, <2>2, <2>3 DEF Holds, Distinct
<1> QED
    BY <1>3 DEF Held, Holds

(* The next run of a one-shot is its time or never, in the row and in the  *)
(* batches.                                                                *)
OnceTimes(a) ==
    /\ row[a].next \in {Never, Schedule[a].at}
    /\ \A d \in Dispatchers : \A x \in sweep[d].batch : x.id = a => x.next = Schedule[a].at

(* What may run a one-shot twice: sweeps that overlapped, a dispatch that  *)
(* a crash left unrecorded, a schedule enabled again.                      *)
Excused(a) == past[a].overlapped \/ past[a].lost > 0 \/ past[a].rearmed

(* A one-shot that has no next run and is held by nobody.                  *)
Spent(a) == row[a].next = Never /\ ~Held(a)

(* Between its dispatch and the write that spends it, the row is held by   *)
(* the sweep that dispatched it.                                           *)
FiredOnce(a) ==
    past[a].fired > 0 /\ ~Excused(a) =>
        past[a].fired = 1 /\ (Spent(a) \/ \E d \in Dispatchers : Dispatched(d, a))

(* The inductive invariant of the one-shots.                               *)
OnceInv ==
    /\ WithdrawnInv
    /\ \A a \in Automations : Schedule[a].type = "once" => OnceTimes(a) /\ FiredOnce(a)

(* A one-shot whose time has come has no next run.                         *)
LEMMA OnceNext ==
    ASSUME NEW a \in Automations, Schedule[a].type = "once", NEW t \in Int
    PROVE  /\ NextRun(Schedule[a], t) \in {Never, Schedule[a].at}
           /\ Schedule[a].at <= t => NextRun(Schedule[a], t) = Never
<1>1. Schedule[a].at \in Nat
    BY SchedulesAssumption
<1> QED
    BY <1>1 DEF NextRun

(* The requests keep what is known of a one-shot.                          *)
LEMMA RequestsKeepOnce ==
    ASSUME OnceInv, NEW b \in Automations, Requested(b), NEW a \in Automations,
           Schedule[a].type = "once"
    PROVE  (OnceTimes(a) /\ FiredOnce(a))'
<1>1. TypeInv /\ WithdrawnInv /\ OnceTimes(a) /\ FiredOnce(a) /\ BornFirst(a)
    BY DEF OnceInv, WithdrawnInv
<1>2. sweep' = sweep /\ (Held(a)' <=> Held(a))
      /\ \A d \in Dispatchers : Dispatched(d, a)' <=> Dispatched(d, a)
    BY <1>1, RequestFacts DEF Held, Dispatched
<1>3. CASE b # a
    <2>1. row'[a] = row[a] /\ past'[a] = past[a]
        BY <1>1, <1>3, RequestFacts
    <2> QED
        BY <1>1, <1>2, <2>1 DEF OnceTimes, FiredOnce, Excused, Spent
<1>4. CASE b = a
    <2>1. RequestCounts(a) /\ RequestNext(a)
        BY <1>1, <1>4, RequestsWrite DEF BornFirst, RequestWrites
    <2>2. NextRun(Schedule[a], now - 1) \in {Never, Schedule[a].at}
        <3>1. now - 1 \in Int
            BY <1>1 DEF TypeInv, TypeOK
        <3> QED
            BY <3>1, OnceNext
    <2>3. OnceTimes(a)'
        BY <1>1, <1>2, <2>1, <2>2 DEF OnceTimes, RequestNext
    <2>4. FiredOnce(a)'
        <3> SUFFICES ASSUME past'[a].fired > 0, ~Excused(a)'
                     PROVE  past'[a].fired = 1 /\ (Spent(a)' \/ \E d \in Dispatchers : Dispatched(d, a)')
            BY DEF FiredOnce
        <3>1. past[a].fired > 0 /\ ~Excused(a) /\ past'[a].fired = past[a].fired
            BY <2>1 DEF RequestCounts, Excused
        <3>2. past[a].born
            BY <1>1, <3>1 DEF BornFirst
        <3>3. row'[a].next = row[a].next \/ row'[a].next = Never
            BY <2>1, <3>2 DEF RequestNext, Excused
        <3> QED
            BY <1>1, <1>2, <3>1, <3>3 DEF FiredOnce, Spent
    <2> QED
        BY <2>3, <2>4
<1> QED
    BY <1>3, <1>4

(* Beginning a sweep keeps it.                                             *)
LEMMA BeginningKeepsOnce ==
    ASSUME OnceInv, NEW d \in Dispatchers, NEW backend, BeginSweep(d, backend), NEW a \in Automations,
           Schedule[a].type = "once"
    PROVE  (OnceTimes(a) /\ FiredOnce(a))'
<1>1. TypeInv /\ OnceTimes(a) /\ FiredOnce(a)
    BY DEF OnceInv, WithdrawnInv
<1>2. /\ row' = row /\ sweep[d].batch = {} /\ sweep'[d].step = "invoke"
      /\ \A e \in Dispatchers \ {d} : sweep'[e] = sweep[e]
      /\ \A x \in sweep'[d].batch : IsDue(row[x.id]) /\ x.next = row[x.id].next
      /\ past'[a].overlapped <=> past[a].overlapped \/ (Held(a) /\ Holds(d, a)')
      /\ past'[a].fired = past[a].fired /\ past'[a].lost = past[a].lost
      /\ past'[a].rearmed <=> past[a].rearmed
    BY <1>1, BeginningFacts
<1>3. OnceTimes(a)'
    <2>1. ASSUME NEW e \in Dispatchers, NEW x \in sweep'[e].batch, x.id = a
          PROVE  x.next = Schedule[a].at
        <3>1. CASE e = d
            BY <1>1, <1>2, <2>1, <3>1 DEF OnceTimes, IsDue
        <3>2. CASE e # d
            BY <1>1, <1>2, <2>1, <3>2 DEF OnceTimes
        <3> QED
            BY <3>1, <3>2
    <2> QED
        BY <1>1, <1>2, <2>1 DEF OnceTimes
<1>4. FiredOnce(a)'
    <2> SUFFICES ASSUME past'[a].fired > 0, ~Excused(a)'
                 PROVE  past'[a].fired = 1 /\ (Spent(a)' \/ \E e \in Dispatchers : Dispatched(e, a)')
        BY DEF FiredOnce
    <2>1. past[a].fired = 1 /\ (Spent(a) \/ \E e \in Dispatchers : Dispatched(e, a))
        BY <1>1, <1>2 DEF FiredOnce, Excused
    <2>2. CASE Spent(a)
        <3>1. ~Holds(d, a)'
            BY <1>2, <2>2 DEF Holds, Spent, IsDue
        <3>2. ~Held(a)'
            BY <1>2, <2>2, <3>1 DEF Holds, Held, Spent
        <3> QED
            BY <1>2, <2>1, <2>2, <3>2 DEF Spent
    <2>3. CASE \E e \in Dispatchers : Dispatched(e, a)
        <3>1. PICK e \in Dispatchers : Dispatched(e, a)
            BY <2>3
        <3>2. First(sweep[e].batch) \in sweep[e].batch
            BY <1>1, <3>1, AtWork DEF Dispatched
        <3>3. e # d
            BY <1>2, <3>2
        <3> QED
            BY <1>2, <2>1, <3>1, <3>3 DEF Dispatched
    <2> QED
        BY <2>1, <2>2, <2>3
<1> QED
    BY <1>3, <1>4

(* Continuing a sweep keeps it.                                            *)
LEMMA ContinuingKeepsOnce ==
    ASSUME OnceInv, NEW d \in Dispatchers, Continues(d), NEW a \in Automations,
           Schedule[a].type = "once"
    PROVE  (OnceTimes(a) /\ FiredOnce(a))'
<1> DEFINE item == First(sweep[d].batch)
<1>1. TypeInv /\ WithdrawnInv /\ OnceTimes(a) /\ FiredOnce(a) /\ HeldByOne(a)
    BY DEF OnceInv, WithdrawnInv
<1>2. /\ past[a].fired \in Nat /\ past[a].lost \in Nat /\ row[a] \in Row
      /\ past'[a].lost \in Nat
    BY <1>1, ContinuingKeepsTypes DEF TypeInv, TypeOK, Past
<1>3. /\ sweep[d].step # "rest"
      /\ \A e \in Dispatchers : sweep'[e].batch \subseteq sweep[e].batch
      /\ \A e \in Dispatchers \ {d} : sweep'[e] = sweep[e]
      /\ past'[a].overlapped <=> past[a].overlapped
      /\ past'[a].rearmed <=> past[a].rearmed
      /\ past'[a].lost >= past[a].lost
      /\ past'[a].fired = past[a].fired
            \/ (Dispatch(d) /\ item.id = a /\ past'[a].fired = past[a].fired + 1)
      /\ \/ row'[a] = row[a]
         \/ /\ Advance(d) /\ item.id = a /\ row[a].present
            /\ row'[a] = Advanced(a, row[a], sweep[d].current)
    BY <1>1, ContinuingFacts
<1>4. /\ item \in sweep[d].batch /\ sweep[d].current \in Nat /\ item.next <= sweep[d].current
    BY <1>1, <1>3, AtWork
<1>5. item.id = a => NextRun(Schedule[a], sweep[d].current) = Never
    BY <1>1, <1>4, OnceNext DEF OnceTimes
<1>6. row'[a] = row[a] \/ row'[a].next = Never
    BY <1>2, <1>3, <1>4, <1>5, AdvancedRow
<1>7. OnceTimes(a)'
    BY <1>1, <1>3, <1>6 DEF OnceTimes
<1>8. FiredOnce(a)'
    <2> SUFFICES ASSUME past'[a].fired > 0, ~Excused(a)'
                 PROVE  past'[a].fired = 1 /\ (Spent(a)' \/ \E e \in Dispatchers : Dispatched(e, a)')
        BY DEF FiredOnce
    <2>1. ~past[a].overlapped /\ ~past[a].rearmed /\ ~(past[a].lost > 0) /\ ~(past'[a].lost > 0)
        BY <1>2, <1>3 DEF Excused
    <2>2. past[a].fired > 0 => past[a].fired = 1 /\ (Spent(a) \/ \E e \in Dispatchers : Dispatched(e, a))
        BY <1>1, <2>1 DEF FiredOnce, Excused
    <2>3. (Held(a)' => Held(a)) /\ (item.id = a => Held(a) /\ Holds(d, a))
        BY <1>3, <1>4 DEF Held, Holds
    <2>4. CASE Spent(a)
        <3>1. item.id # a
            BY <2>3, <2>4 DEF Spent
        <3> QED
            BY <1>2, <1>3, <2>2, <2>3, <2>4, <3>1 DEF Spent
    <2>5. CASE \E e \in Dispatchers \ {d} : Dispatched(e, a)
        <3>1. PICK e \in Dispatchers \ {d} : Dispatched(e, a)
            BY <2>5
        <3>2. Holds(e, a)
            BY <1>1, <3>1, AtWork DEF Dispatched, Holds
        <3>3. item.id # a
            BY <1>1, <2>1, <2>3, <3>1, <3>2 DEF HeldByOne
        <3>4. Dispatched(e, a)'
            BY <1>3, <3>1 DEF Dispatched
        <3>5. past'[a].fired = past[a].fired
            BY <1>3, <3>3
        <3> QED
            BY <2>2, <3>4, <3>5
    <2>6. CASE Dispatched(d, a)
        <3>1. item.id = a /\ sweep[d].step = "advance"
            BY <2>6 DEF Dispatched
        <3>2. ~Crash(d)
            <4>1. Crash(d) => past' = [past EXCEPT ![a].lost = @ + 1]
                BY <3>1 DEF Crash
            <4>2. past' = [past EXCEPT ![a].lost = @ + 1] => past'[a].lost = past[a].lost + 1
                BY <1>1 DEF TypeInv, TypeOK, Past
            <4> QED
                BY <1>2, <2>1, <4>1, <4>2
        <3>3. Advance(d)
            BY <3>1, <3>2 DEF Continues, Continue, Dispatch, Abort
        <3>4. past'[a].fired = past[a].fired
            BY <3>3 DEF Advance
        <3>5. ~Held(a)'
            BY <1>1, <2>1, <3>1, <3>3, NobodyHoldsWhatIsWritten
        <3>6. row'[a].next = Never
            <4>1. row[a].present => row'[a] = Advanced(a, row[a], sweep[d].current)
                BY <1>1, <3>1, <3>3 DEF Advance, Matched, TypeInv, TypeOK
            <4>2. ~row[a].present => row'[a] = NoRow
                BY <1>1, <3>1, <3>3 DEF Advance, Matched, TypeInv, TypeOK
            <4>3. Advanced(a, row[a], sweep[d].current).next = Never
                BY <1>2, <1>4, <1>5, <3>1, AdvancedRow
            <4> QED
                BY <4>1, <4>2, <4>3 DEF NoRow
        <3> QED
            BY <2>2, <3>4, <3>5, <3>6 DEF Spent
    <2>7. CASE past[a].fired = 0
        <3>1. Dispatch(d) /\ item.id = a /\ past'[a].fired = 1
            BY <1>3, <2>7
        <3>2. Dispatched(d, a)'
            <4>1. sweep' = [sweep EXCEPT ![d].step = "advance"]
                BY <3>1 DEF Dispatch
            <4>2. sweep'[d].step = "advance" /\ sweep'[d].batch = sweep[d].batch
                BY <1>1, <4>1 DEF TypeInv, TypeOK, Sweep
            <4> QED
                BY <3>1, <4>2 DEF Dispatched
        <3> QED
            BY <3>1, <3>2
    <2> QED
        BY <1>2, <2>2, <2>4, <2>5, <2>6, <2>7
<1> QED
    BY <1>7, <1>8

(* Every step keeps the invariant of the one-shots.                        *)
LEMMA OnceKept ==
    ASSUME OnceInv, [Next]_vars
    PROVE  OnceInv'
<1>1. WithdrawnInv'
    BY WithdrawnKept DEF OnceInv
<1> SUFFICES ASSUME NEW a \in Automations, Schedule[a].type = "once"
             PROVE  (OnceTimes(a) /\ FiredOnce(a))'
    BY <1>1 DEF OnceInv
<1>2. CASE \E b \in Automations : Requested(b)
    BY <1>2, RequestsKeepOnce
<1>3. CASE \E d \in Dispatchers : \E backend \in {"local", "hosted"} : BeginSweep(d, backend)
    BY <1>3, BeginningKeepsOnce
<1>4. CASE \E d \in Dispatchers : Continues(d)
    BY <1>4, ContinuingKeepsOnce
<1>5. CASE UNCHANGED <<row, sweep, past>>
    BY <1>5 DEF OnceInv, OnceTimes, FiredOnce, Excused, Spent, Held, Dispatched
<1> QED
    BY <1>2, <1>3, <1>4, <1>5, Steps DEF Tick, vars

(* It holds before the first automation.                                   *)
LEMMA OnceInitially == Init => OnceInv
<1> SUFFICES ASSUME Init PROVE OnceInv
    OBVIOUS
<1>1. WithdrawnInv
    BY WithdrawnInitially
<1> QED
    BY <1>1 DEF Init, OnceInv, OnceTimes, FiredOnce, NoRow, NoPast, Resting

(* A one-shot is dispatched at most once, unless two sweeps held it, a     *)
(* crash left its dispatch unrecorded, or it was enabled again             *)
(* (AutomationScheduler.run_due, queue_due_hosted).                        *)
THEOREM OneShotsRunOnce == Spec => []OneShotOnce
<1>1. OnceInv => OneShotOnce
    BY DEF OnceInv, FiredOnce, Excused, OneShotOnce, WithdrawnInv, TypeInv, TypeOK, Past
<1> QED
    BY <1>1, OnceInitially, OnceKept, PTL DEF Spec

-----------------------------------------------------------------------------
(* Intervals.                                                              *)

Spacing(a) == Schedule[a].period - (IF past[a].rearmed THEN 1 ELSE 0)

(* The row, and whoever holds it, will not run before a period is over.    *)
Spaced(a) ==
    row[a].last # Never =>
        /\ row[a].last <= now
        /\ row[a].next # Never => row[a].next >= row[a].last + Spacing(a)
        /\ ~past[a].overlapped =>
              \A d \in Dispatchers : \A x \in sweep[d].batch :
                  x.id = a => x.next >= row[a].last + Spacing(a)

(* The inductive invariant of the intervals.                               *)
SpacingInv ==
    /\ WithdrawnInv
    /\ \A a \in Automations : Schedule[a].type = "interval" => Spaced(a)

(* What the spacing of an interval's runs is computed from.                *)
LEMMA IntervalFacts ==
    ASSUME TypeInv, NEW a \in Automations, Schedule[a].type = "interval"
    PROVE  /\ Schedule[a].period \in Nat /\ now \in Nat
           /\ \A t : NextRun(Schedule[a], t) = t + Schedule[a].period
           /\ row[a] \in Row /\ row[a].next \in Nat \cup {Never}
           /\ row[a].last \in Nat \cup {Never} /\ row[a].runs \in Nat
           /\ Spacing(a) \in Int
           /\ Spacing(a) = IF past[a].rearmed THEN Schedule[a].period - 1 ELSE Schedule[a].period
           /\ \A d \in Dispatchers : \A x \in sweep[d].batch : x.next \in Nat
<1>1. Schedule[a].period \in Nat
    BY SchedulesAssumption
<1>2. now \in Nat /\ row[a] \in Row
    BY DispatchAssumption DEF TypeInv, TypeOK
<1>3. \A d \in Dispatchers : \A x \in sweep[d].batch : x \in Item
    BY DEF TypeInv, TypeOK, Sweep
<1>4. \A t : NextRun(Schedule[a], t) = t + Schedule[a].period
    BY DEF NextRun
<1>5. Spacing(a) = IF past[a].rearmed THEN Schedule[a].period - 1 ELSE Schedule[a].period
    BY <1>1 DEF Spacing
<1>6. Spacing(a) \in Int
    BY <1>1, <1>5
<1> QED
    BY <1>1, <1>2, <1>3, <1>4, <1>5, <1>6, ItemNumbers DEF Row

(* The requests keep what is known of an interval.                         *)
LEMMA RequestsKeepSpacing ==
    ASSUME SpacingInv, NEW b \in Automations, Requested(b), NEW a \in Automations,
           Schedule[a].type = "interval"
    PROVE  Spaced(a)'
<1>1. TypeInv /\ WithdrawnInv /\ Spaced(a) /\ BornFirst(a)
    BY DEF SpacingInv, WithdrawnInv
<1>2. UNCHANGED <<now, sweep>>
    BY <1>1, RequestFacts
<1>3. CASE b # a
    <2>1. row'[a] = row[a] /\ past'[a] = past[a]
        BY <1>1, <1>3, RequestFacts
    <2> QED
        BY <1>1, <1>2, <2>1 DEF Spaced, Spacing
<1>4. CASE b = a
    <2>1. RequestCounts(a) /\ RequestNext(a) /\ RequestRow(a)
        BY <1>1, <1>4, RequestsWrite DEF BornFirst, RequestWrites
    <2> SUFFICES ASSUME row'[a].last # Never
                 PROVE  /\ row'[a].last <= now
                        /\ row'[a].next # Never => row'[a].next >= row'[a].last + Spacing(a)'
                        /\ ~past'[a].overlapped =>
                              \A d \in Dispatchers : \A x \in sweep[d].batch :
                                  x.id = a => x.next >= row'[a].last + Spacing(a)'
        BY <1>2 DEF Spaced
    <2>2. row[a].present /\ row'[a].last = row[a].last /\ past[a].born
        BY <1>1, <2>1 DEF RequestRow, NoRow, BornFirst
    <2> DEFINE p == Schedule[a].period
    <2>3. Spacing(a) = (IF past[a].rearmed THEN p - 1 ELSE p) /\ p \in Nat /\ now \in Nat
          /\ NextRun(Schedule[a], now - 1) = now - 1 + p
          /\ row[a].last \in Nat \cup {Never} /\ row[a].next \in Nat \cup {Never}
          /\ \A d \in Dispatchers : \A x \in sweep[d].batch : x.next \in Nat
        BY <1>1, IntervalFacts
    <2>4. Spacing(a)' = (IF past'[a].rearmed THEN p - 1 ELSE p)
        <3>1. TypeInv'
            BY <1>1, RequestsKeepTypes DEF Requested
        <3> QED
            BY <2>3 DEF Spacing
    <2> HIDE DEF p
    <2>5. Spacing(a)' \in Int /\ Spacing(a) \in Int /\ Spacing(a)' <= Spacing(a)
        BY <2>1, <2>3, <2>4 DEF RequestCounts
    <2>6. row'[a].last <= now
        BY <1>1, <2>2 DEF Spaced
    <2>7. row'[a].next # Never => row'[a].next >= row'[a].last + Spacing(a)'
        <3>1. CASE row'[a].next = row[a].next
            BY <1>1, <2>2, <2>3, <2>5, <3>1 DEF Spaced
        <3>2. CASE row'[a].next = now - 1 + p /\ past'[a].rearmed
            BY <1>1, <2>2, <2>3, <2>4, <2>6, <3>2
        <3> QED
            BY <2>1, <2>2, <2>3, <3>1, <3>2 DEF RequestNext
    <2>8. ASSUME ~past'[a].overlapped, NEW d \in Dispatchers, NEW x \in sweep[d].batch, x.id = a
          PROVE  x.next >= row'[a].last + Spacing(a)'
        <3>1. x.next >= row[a].last + Spacing(a)
            BY <1>1, <2>1, <2>2, <2>8 DEF Spaced, RequestCounts
        <3> QED
            BY <2>2, <2>3, <2>5, <3>1
    <2> QED
        BY <2>6, <2>7, <2>8
<1> QED
    BY <1>3, <1>4

(* Beginning a sweep keeps it.                                             *)
LEMMA BeginningKeepsSpacing ==
    ASSUME SpacingInv, NEW d \in Dispatchers, NEW backend, BeginSweep(d, backend),
           NEW a \in Automations, Schedule[a].type = "interval"
    PROVE  Spaced(a)'
<1>1. TypeInv /\ Spaced(a)
    BY DEF SpacingInv, WithdrawnInv
<1>2. /\ UNCHANGED <<now, row>>
      /\ \A e \in Dispatchers \ {d} : sweep'[e] = sweep[e]
      /\ \A x \in sweep'[d].batch : IsDue(row[x.id]) /\ x.next = row[x.id].next
      /\ past[a].overlapped => past'[a].overlapped
      /\ past'[a].rearmed <=> past[a].rearmed
    BY <1>1, BeginningFacts
<1>3. Spacing(a)' = Spacing(a)
    BY <1>2 DEF Spacing
<1> SUFFICES ASSUME row[a].last # Never, ~past'[a].overlapped,
                    NEW e \in Dispatchers, NEW x \in sweep'[e].batch, x.id = a
             PROVE  x.next >= row[a].last + Spacing(a)
    BY <1>1, <1>2, <1>3 DEF Spaced
<1>4. CASE e = d
    BY <1>1, <1>2, <1>4 DEF Spaced, IsDue
<1>5. CASE e # d
    BY <1>1, <1>2, <1>5 DEF Spaced
<1> QED
    BY <1>4, <1>5

(* The time of a sweep that is about to write a row is a period after the  *)
(* one that the row has.                                                   *)
LEMMA WritesAreSpaced ==
    ASSUME SpacingInv, NEW d \in Dispatchers, Advance(d), NEW a \in Automations,
           Schedule[a].type = "interval", First(sweep[d].batch).id = a,
           ~past[a].overlapped, row[a].last # Never
    PROVE  sweep[d].current - row[a].last >= Spacing(a)
<1> DEFINE item == First(sweep[d].batch)
<1>1. TypeInv /\ Spaced(a) /\ sweep[d].step # "rest"
    BY DEF SpacingInv, WithdrawnInv, Advance
<1>2. item \in sweep[d].batch /\ sweep[d].current \in Nat /\ item.next <= sweep[d].current
    BY <1>1, AtWork
<1>3. item.next >= row[a].last + Spacing(a)
    BY <1>1, <1>2 DEF Spaced
<1>4. Spacing(a) \in Int /\ row[a].last \in Nat /\ item.next \in Nat
    BY <1>1, <1>2, IntervalFacts
<1> HIDE DEF item
<1> QED
    BY <1>2, <1>3, <1>4

(* Continuing a sweep keeps it.                                            *)
LEMMA ContinuingKeepsSpacing ==
    ASSUME SpacingInv, NEW d \in Dispatchers, Continues(d), NEW a \in Automations,
           Schedule[a].type = "interval"
    PROVE  Spaced(a)'
<1> DEFINE item == First(sweep[d].batch)
<1>1. TypeInv /\ WithdrawnInv /\ Spaced(a)
    BY DEF SpacingInv, WithdrawnInv
<1>2. /\ now' = now /\ sweep[d].step # "rest"
      /\ \A e \in Dispatchers : sweep'[e].batch \subseteq sweep[e].batch
      /\ past'[a].overlapped <=> past[a].overlapped
      /\ past'[a].rearmed <=> past[a].rearmed
      /\ \/ row'[a] = row[a]
         \/ /\ Advance(d) /\ item.id = a /\ row[a].present
            /\ row'[a] = Advanced(a, row[a], sweep[d].current)
    BY <1>1, ContinuingFacts
<1>3. Spacing(a)' = Spacing(a)
    BY <1>2 DEF Spacing
<1>4. CASE row'[a] = row[a]
    BY <1>1, <1>2, <1>3, <1>4 DEF Spaced
<1>5. CASE /\ Advance(d) /\ item.id = a
           /\ row'[a] = Advanced(a, row[a], sweep[d].current)
    <2>1. sweep[d].current \in 0..now /\ now \in Nat
        BY <1>1, <1>2, AtWork, IntervalFacts
    <2>2. row'[a].last = sweep[d].current /\ row'[a].next = sweep[d].current + Schedule[a].period
        BY <1>1, <1>5, <2>1, AdvancedRow, IntervalFacts
    <2>3. Spacing(a) \in Int /\ Schedule[a].period \in Nat /\ Spacing(a) <= Schedule[a].period
        BY <1>1, IntervalFacts
    <2>4. ~past'[a].overlapped => ~Held(a)'
        BY <1>1, <1>2, <1>5, NobodyHoldsWhatIsWritten
    <2> QED
        BY <1>2, <1>3, <2>1, <2>2, <2>3, <2>4 DEF Spaced, Held
<1> QED
    BY <1>2, <1>4, <1>5

(* The passing of time keeps it.                                           *)
LEMMA TickKeepsSpacing ==
    ASSUME SpacingInv, Tick, NEW a \in Automations, Schedule[a].type = "interval"
    PROVE  Spaced(a)'
<1>1. TypeInv /\ Spaced(a)
    BY DEF SpacingInv, WithdrawnInv
<1>2. now' = now + 1 /\ UNCHANGED <<row, sweep, past>>
    BY DEF Tick
<1>3. now \in Nat /\ row[a].last \in Nat \cup {Never}
    BY <1>1, IntervalFacts
<1> QED
    BY <1>1, <1>2, <1>3 DEF Spaced, Spacing

(* Every step keeps the invariant of the intervals.                        *)
LEMMA SpacingKept ==
    ASSUME SpacingInv, [Next]_vars
    PROVE  SpacingInv'
<1>1. WithdrawnInv'
    BY WithdrawnKept DEF SpacingInv
<1> SUFFICES ASSUME NEW a \in Automations, Schedule[a].type = "interval"
             PROVE  Spaced(a)'
    BY <1>1 DEF SpacingInv
<1>2. CASE \E b \in Automations : Requested(b)
    BY <1>2, RequestsKeepSpacing
<1>3. CASE \E d \in Dispatchers : \E backend \in {"local", "hosted"} : BeginSweep(d, backend)
    BY <1>3, BeginningKeepsSpacing
<1>4. CASE \E d \in Dispatchers : Continues(d)
    BY <1>4, ContinuingKeepsSpacing
<1>5. CASE Tick
    BY <1>5, TickKeepsSpacing
<1>6. CASE UNCHANGED vars
    BY <1>6 DEF SpacingInv, Spaced, Spacing, vars
<1> QED
    BY <1>2, <1>3, <1>4, <1>5, <1>6, Steps

(* It holds before the first automation.                                   *)
LEMMA SpacingInitially == Init => SpacingInv
<1> SUFFICES ASSUME Init PROVE SpacingInv
    OBVIOUS
<1>1. WithdrawnInv
    BY WithdrawnInitially
<1> QED
    BY <1>1 DEF Init, SpacingInv, Spaced, NoRow

(* In a state where it holds, two runs in a row have the spacing between   *)
(* them.                                                                   *)
LEMMA RunsAreSpaced ==
    ASSUME SpacingInv, [Next]_vars, NEW a \in Automations, Schedule[a].type = "interval",
           row[a].last # Never, row'[a].runs = row[a].runs + 1, ~past[a].overlapped
    PROVE  row'[a].last - row[a].last >= Spacing(a)
<1>1. TypeInv /\ WithdrawnInv /\ BornFirst(a) /\ row[a].runs \in Nat /\ row[a] \in Row
    <2>1. TypeInv /\ WithdrawnInv /\ BornFirst(a)
        BY DEF SpacingInv, WithdrawnInv
    <2> QED
        BY <2>1, IntervalFacts
<1>2. CASE \E b \in Automations : Requested(b)
    <2>1. PICK b \in Automations : Requested(b)
        BY <1>2
    <2>2. row'[a].runs \in {0, row[a].runs}
        BY <1>1, <2>1, RequestFacts, RequestsWrite DEF BornFirst, RequestWrites
    <2> QED
        BY <1>1, <2>2
<1>3. CASE \E d \in Dispatchers : \E backend \in {"local", "hosted"} : BeginSweep(d, backend)
    <2>1. row' = row
        BY <1>1, <1>3, BeginningFacts
    <2> QED
        BY <1>1, <2>1
<1>4. CASE \E d \in Dispatchers : Continues(d)
    <2>1. PICK d \in Dispatchers : Continues(d)
        BY <1>4
    <2>2. /\ Advance(d) /\ First(sweep[d].batch).id = a
          /\ row'[a] = Advanced(a, row[a], sweep[d].current)
          /\ sweep[d].step # "rest"
        BY <1>1, <2>1, ContinuingFacts
    <2>3. sweep[d].current \in 0..now /\ now \in Nat
        BY <1>1, <2>2, AtWork, IntervalFacts
    <2>4. row'[a].last = sweep[d].current
        BY <1>1, <2>2, <2>3, AdvancedRow
    <2> QED
        BY <2>2, <2>4, WritesAreSpaced
<1>5. CASE row' = row
    BY <1>1, <1>5
<1> QED
    BY <1>2, <1>3, <1>4, <1>5, Steps DEF Tick, vars

(* The recorded runs of an interval automation are a period apart, a tick  *)
(* less once it was enabled again, unless two sweeps held it at once       *)
(* (next_run and the UPDATE of AutomationScheduler.run_due).               *)
THEOREM IntervalsAreKept == Spec => IntervalSpacing
<1>1. SpacingInv /\ [Next]_vars =>
          [\A a \in Automations :
              (/\ Schedule[a].type = "interval"
               /\ row[a].last # Never
               /\ row'[a].runs = row[a].runs + 1
               /\ ~past[a].overlapped)
                  => row'[a].last - row[a].last
                        >= Schedule[a].period - (IF past[a].rearmed THEN 1 ELSE 0)]_vars
    BY RunsAreSpaced DEF Spacing
<1> QED
    BY <1>1, SpacingInitially, SpacingKept, PTL DEF Spec, IntervalSpacing
=============================================================================
