------------------------ MODULE DecisionDispatchProofs ------------------------
(***************************************************************************)
(* For every set of packages, every number of publications, retries and     *)
(* faults: what the numbering of decision.json promises to the writer, and  *)
(* what the memory of the executor promises to the account.                 *)
(***************************************************************************)
EXTENDS DecisionDispatch, TLAPS

Documents == [seq : Nat, pub : Nat, payload : {PayloadOf(p) : p \in Packages \union {None}}]

Types ==
  /\ file \in Documents \union {None} /\ snapshot \in Documents \union {None}
  /\ sequence \in Nat /\ latest \in Nat /\ restarted \in BOOLEAN
  /\ published \in Seq([seq : Nat, package : Packages \union {None}])
  /\ processed \in SUBSET Nat /\ life \in Nat
  /\ pending \in [snapshot : Documents, attempts : Nat] \union {None}
  /\ orders \in Seq([snapshot : Documents, life : Nat, outcome : Outcomes])

\* What is open, and what is being submitted, was entered in processed by this life;
\* and no order of the snapshot being submitted may be open.
Accounted ==
  /\ \A i \in Live : /\ orders[i].life <= life
                     /\ orders[i].life = life => orders[i].snapshot.seq \in processed
  /\ pending # None =>
       /\ pending.snapshot.seq \in processed
       /\ \A i \in Live : orders[i].life = life => orders[i].snapshot.seq # pending.snapshot.seq

\* A number in use is the number of a publication.
Issued(n) == \E i \in 1..Len(published) : published[i].seq = n

\* No publication is numbered above n.
Covers(n) == \A i \in 1..Len(published) : published[i].seq <= n

\* The file and the writer hold numbers of publications.  While the numbering has not
\* begun anew, both the publisher and the file, if there is one, hold the highest.
Numbered ==
  /\ file # None => file.seq > 0 /\ Issued(file.seq)
  /\ latest = 0 \/ Issued(latest)
  /\ ~restarted => Covers(sequence) /\ (file # None => Covers(file.seq))

-----------------------------------------------------------------------------
\* Every variable keeps to its set, whatever is published, lost and restarted.
THEOREM TypesHold == Spec => []Types
<1>1. Init => Types
  <2> SUFFICES ASSUME Init PROVE Types
    OBVIOUS
  <2>1. /\ published \in Seq([seq : Nat, package : Packages \union {None}])
        /\ orders \in Seq([snapshot : Documents, life : Nat, outcome : Outcomes])
    BY DEF Init, SubmissionInit
  <2> QED  BY <2>1 DEF Init, SubmissionInit, Types
<1>2. Types /\ [Next]_vars => Types'
  <2> SUFFICES ASSUME Types, [Next]_vars PROVE Types'
    OBVIOUS
  <2>1. ASSUME NEW p \in Packages \union {None}, Publish(p) PROVE Types'
    <3>1. file' \in Documents /\ sequence' \in Nat
      BY <2>1 DEF Publish, Types, Documents, NextSequence
    <3>2. published' \in Seq([seq : Nat, package : Packages \union {None}])
      BY <2>1 DEF Publish, Types, NextSequence
    <3> QED  BY <2>1, <3>1, <3>2 DEF Publish, Types, evars
  <2>2. CASE Read
    BY <2>2 DEF Read, Types, Documents, evars
  <2>3. ASSUME NEW ready \in BOOLEAN, Deliver(ready) PROVE Types'
    <3>1. snapshot \in Documents /\ snapshot.seq \in Nat
      BY <2>3 DEF Deliver, Types, Documents
    <3>2. pending' \in [snapshot : Documents, attempts : Nat] \union {None}
      BY <2>3, <3>1 DEF Deliver, Execute
    <3> QED  BY <2>3, <3>1, <3>2 DEF Deliver, Execute, Types
  <2>4. ASSUME NEW outcome \in Outcomes, Submit(outcome) PROVE Types'
    <3>1. pending \in [snapshot : Documents, attempts : Nat]
      BY <2>4 DEF Submit, Send, Types
    <3>2. pending' \in [snapshot : Documents, attempts : Nat] \union {None}
      BY <2>4, <3>1 DEF Submit, Send
    <3>3. orders' \in Seq([snapshot : Documents, life : Nat, outcome : Outcomes])
      BY <2>4, <3>1 DEF Submit, Send, Types
    <3> QED  BY <2>4, <3>2, <3>3 DEF Submit, Send, Types
  <2>5. CASE Age
    BY <2>5 DEF Age, Types, evars
  <2>6. CASE RestartPublisher
    <3>1. sequence' \in Nat
      BY <2>6 DEF RestartPublisher, ExistingSequence, Types, Documents
    <3> QED  BY <2>6, <3>1 DEF RestartPublisher, Types, evars
  <2>7. CASE RestartConsumer
    BY <2>7 DEF RestartConsumer, RestartExecutor, Types
  <2>8. CASE LoseFile
    BY <2>8 DEF LoseFile, Types, evars
  <2>9. CASE UNCHANGED vars
    BY <2>9 DEF vars, evars, Types
  <2> QED  BY <2>1, <2>2, <2>3, <2>4, <2>5, <2>6, <2>7, <2>8, <2>9 DEF Next
<1> QED  BY <1>1, <1>2, PTL DEF Spec

-----------------------------------------------------------------------------
\* What Append adds to a sequence, and what it keeps.
LEMMA AppendFacts ==
  ASSUME NEW S, NEW s \in Seq(S), NEW e \in S
  PROVE  /\ Len(s) \in Nat /\ Len(Append(s, e)) = Len(s) + 1 /\ Append(s, e)[Len(s) + 1] = e
         /\ \A i \in 1..Len(s) : Append(s, e)[i] = s[i] /\ s[i] \in S
OBVIOUS

\* Publish: the number is above every earlier one, so nothing read before covers it.
LEMMA PublishNumbers ==
  ASSUME Types, Numbered, SequencesIncrease, NEW p \in Packages \union {None}, Publish(p)
  PROVE  Numbered' /\ SequencesIncrease' /\ RefusesOnlyRead'
<1> DEFINE n == sequence + 1
           L == Len(published)
<1>1. /\ L \in Nat /\ Len(published') = L + 1 /\ published'[L + 1].seq = n
      /\ \A i \in 1..L : published'[i] = published[i] /\ published[i].seq \in Nat
      /\ n \in Nat /\ n > 0 /\ sequence' = n /\ file'.seq = n
      /\ restarted' = restarted /\ latest' = latest /\ taken' = taken
  <2>1. /\ published \in Seq([seq : Nat, package : Packages \union {None}]) /\ sequence \in Nat
        /\ published' = Append(published, [seq |-> n, package |-> p])
    BY DEF Publish, Types, NextSequence
  <2>2. /\ L \in Nat /\ Len(published') = L + 1 /\ published'[L + 1].seq = n
        /\ \A i \in 1..L : published'[i] = published[i] /\ published[i].seq \in Nat
    <3>1. [seq |-> n, package |-> p] \in [seq : Nat, package : Packages \union {None}]
      BY <2>1
    <3>2. \A r \in [seq : Nat, package : Packages \union {None}] : r.seq \in Nat
      OBVIOUS
    <3>3. /\ L \in Nat /\ Len(published') = L + 1
          /\ published'[L + 1] = [seq |-> n, package |-> p]
          /\ \A i \in 1..L : published'[i] = published[i]
                            /\ published[i] \in [seq : Nat, package : Packages \union {None}]
      <4> DEFINE e == [seq |-> n, package |-> p]
                 R == [seq : Nat, package : Packages \union {None}]
      <4>1. e \in R /\ published \in Seq(R) /\ published' = Append(published, e)
        BY <2>1, <3>1
      <4> HIDE DEF e, R
      <4>2. /\ Len(published) \in Nat /\ Len(published') = Len(published) + 1
            /\ published'[Len(published) + 1] = e
            /\ \A i \in 1..Len(published) : published'[i] = published[i] /\ published[i] \in R
        BY <4>1, AppendFacts
      <4> QED  BY <4>2 DEF e, R
    <3> QED  BY <3>2, <3>3
  <2>3. file'.seq = n /\ UNCHANGED <<restarted, latest, taken>> /\ sequence' = n
    BY DEF Publish, NextSequence
  <2> QED  BY <2>1, <2>2, <2>3
<1>2. Issued(file.seq)' /\ (latest = 0 \/ Issued(latest)')
  <2>1. L + 1 \in 1..(L + 1)
    BY <1>1
  <2>2. Issued(file.seq)'
    BY <1>1, <2>1 DEF Issued
  <2>3. ASSUME latest # 0 PROVE Issued(latest)'
    <3>1. PICK i \in 1..L : published[i].seq = latest
      BY <2>3 DEF Numbered, Issued
    <3>2. i \in 1..(L + 1) /\ published'[i].seq = latest'
      BY <1>1, <3>1
    <3> QED  BY <1>1, <3>2 DEF Issued
  <2> QED  BY <2>2, <2>3
<1>3. ~restarted => Covers(sequence)
  BY DEF Numbered
<1>4. ~restarted => Covers(sequence)' /\ Covers(file.seq)'
  <2>1. ASSUME ~restarted, NEW i \in 1..(L + 1) PROVE published'[i].seq <= n
    <3>1. CASE i = L + 1
      BY <1>1, <3>1
    <3>2. CASE i \in 1..L
      <4>1. published[i].seq <= sequence
        BY <1>3, <2>1, <3>2 DEF Covers
      <4> QED  BY <1>1, <3>2, <4>1 DEF Types
    <3> QED  BY <1>1, <3>1, <3>2
  <2> QED  BY <1>1, <2>1 DEF Covers
<1>5. SequencesIncrease'
  <2> SUFFICES ASSUME ~restarted', NEW i \in 1..(L + 1), NEW j \in 1..(L + 1), i < j
               PROVE  published'[i].seq < published'[j].seq
    BY <1>1 DEF SequencesIncrease
  <2>1. CASE j = L + 1
    <3>1. i \in 1..L /\ published[i].seq <= sequence
      BY <1>1, <1>3, <2>1 DEF Covers
    <3> QED  BY <1>1, <2>1, <3>1 DEF Types
  <2>2. CASE j \in 1..L
    BY <1>1, <2>2 DEF SequencesIncrease
  <2> QED  BY <1>1, <2>1, <2>2
<1>6. RefusesOnlyRead'
  <2>1. ~restarted /\ latest # 0 => latest <= sequence
    BY <1>3 DEF Numbered, Issued, Covers
  <2>2. ~restarted => latest < n
    BY <2>1 DEF Types
  <2> QED  BY <1>1, <2>2 DEF RefusesOnlyRead, Newer, Types
<1> QED  BY <1>1, <1>2, <1>4, <1>5, <1>6 DEF Numbered

\* What was published and what the writer and the file hold keep their numbers in every
\* step but Publish; the publisher's own number moves only to that of the file.
LEMMA NextNumbers ==
  ASSUME Types, Numbered, SequencesIncrease, RefusesOnlyRead, [Next]_vars
  PROVE  Numbered' /\ SequencesIncrease' /\ RefusesOnlyRead'
<1>1. ASSUME NEW p \in Packages \union {None}, Publish(p)
      PROVE  Numbered' /\ SequencesIncrease' /\ RefusesOnlyRead'
  BY <1>1, PublishNumbers
<1>2. CASE Read
  <2>1. /\ file # None /\ latest' = file.seq /\ taken' = taken \union {file.pub}
        /\ UNCHANGED <<file, sequence, published, restarted>>
    BY <1>2 DEF Read
  <2> QED  BY <2>1 DEF Numbered, Issued, Covers, SequencesIncrease, RefusesOnlyRead, Newer
<1>3. ASSUME UNCHANGED <<file, sequence, latest, published, restarted, taken>>
      PROVE  Numbered' /\ SequencesIncrease' /\ RefusesOnlyRead'
  BY <1>3 DEF Numbered, Issued, Covers, SequencesIncrease, RefusesOnlyRead, Newer
<1>4. CASE RestartPublisher
  <2>1. /\ UNCHANGED <<file, latest, published, taken>>
        /\ restarted' = (restarted \/ (file = None /\ published # <<>>))
        /\ sequence' = IF file = None THEN 0 ELSE file.seq
    BY <1>4 DEF RestartPublisher, ExistingSequence
  <2>2. ~restarted' => Covers(sequence)'
    <3>1. CASE file = None
      <4>1. restarted \in BOOLEAN
        BY DEF Types
      <4>2. ~restarted' => published = <<>>
        BY <2>1, <3>1, <4>1, Zenon
      <4> QED  BY <2>1, <4>2 DEF Covers
    <3>2. CASE file # None
      BY <2>1, <3>2 DEF Numbered, Covers
    <3> QED  BY <3>1, <3>2
  <2> QED  BY <2>1, <2>2 DEF Numbered, Issued, Covers, SequencesIncrease, RefusesOnlyRead, Newer
<1>5. CASE RestartConsumer
  <2>1. /\ UNCHANGED <<file, sequence, published, restarted>> /\ latest' = 0 /\ taken' = {}
    BY <1>5 DEF RestartConsumer
  <2>2. file # None => file.seq > 0
    BY DEF Numbered
  <2>3. RefusesOnlyRead'
    BY <2>1, <2>2 DEF RefusesOnlyRead, Newer
  <2> QED  BY <2>1, <2>3 DEF Numbered, Issued, Covers, SequencesIncrease
<1>6. CASE LoseFile
  BY <1>6 DEF LoseFile, Numbered, Issued, Covers, SequencesIncrease, RefusesOnlyRead, Newer
<1> QED
  <2>1. CASE Age \/ UNCHANGED vars
    BY <1>3, <2>1 DEF Age, vars
  <2>2. ASSUME NEW ready \in BOOLEAN, Deliver(ready)
        PROVE  Numbered' /\ SequencesIncrease' /\ RefusesOnlyRead'
    BY <1>3, <2>2 DEF Deliver
  <2>3. ASSUME NEW outcome \in Outcomes, Submit(outcome)
        PROVE  Numbered' /\ SequencesIncrease' /\ RefusesOnlyRead'
    BY <1>3, <2>3 DEF Submit
  <2> QED  BY <1>1, <1>2, <1>4, <1>5, <1>6, <2>1, <2>2, <2>3 DEF Next

-----------------------------------------------------------------------------
\* Send: a request whose answer leaves the order open ends the submission.
LEMMA SendAccounts ==
  ASSUME Types, Accounted, OneLiveOrderPerSequence, NEW outcome \in Outcomes, Send(outcome)
  PROVE  Accounted' /\ OneLiveOrderPerSequence'
<1> DEFINE L == Len(orders)
           s == pending.snapshot
           order == [snapshot |-> s, life |-> life, outcome |-> outcome]
<1>1. pending \in [snapshot : Documents, attempts : Nat] /\ s \in Documents /\ pending # None
      /\ orders' = Append(orders, order) /\ UNCHANGED <<processed, life>>
  BY DEF Send, Types
<1>2. /\ L \in Nat /\ Len(orders') = L + 1 /\ orders'[L + 1] = order
      /\ \A i \in 1..L : orders'[i] = orders[i]
  <2>1. order \in [snapshot : Documents, life : Nat, outcome : Outcomes]
    BY <1>1 DEF Types
  <2>2. orders \in Seq([snapshot : Documents, life : Nat, outcome : Outcomes])
    BY DEF Types
  <2> HIDE DEF order
  <2> QED  BY <1>1, <2>1, <2>2, AppendFacts
<1>3. DOMAIN orders = 1..L /\ DOMAIN orders' = 1..(L + 1)
  BY <1>1, <1>2 DEF Types
<1>4. /\ order.life = life /\ order.snapshot = s /\ order.outcome = outcome
  OBVIOUS
<1> HIDE DEF order, L
<1>5. \A i \in Live' : \/ i \in Live /\ orders'[i] = orders[i]
                       \/ i = L + 1 /\ outcome \in {"ACCEPTED", "AMBIGUOUS"}
  BY <1>2, <1>3, <1>4 DEF Live
<1>6. outcome \in {"ACCEPTED", "AMBIGUOUS"} => pending' = None
  BY DEF Send, Retries
<1>7. pending' # None => pending'.snapshot = s
  BY <1>1 DEF Send
<1>8. s.seq \in processed /\ \A i \in Live : orders[i].life = life => orders[i].snapshot.seq # s.seq
  BY <1>1 DEF Accounted
<1>9. \A i \in Live' : /\ orders'[i].life <= life
                       /\ orders'[i].life = life => orders'[i].snapshot.seq \in processed
  BY <1>2, <1>4, <1>5, <1>8 DEF Accounted, Types
<1>10. ASSUME pending' # None, NEW i \in Live', orders'[i].life = life
       PROVE  orders'[i].snapshot.seq # pending'.snapshot.seq
  BY <1>5, <1>6, <1>7, <1>8, <1>10
<1>11. OneLiveOrderPerSequence'
  BY <1>2, <1>4, <1>5, <1>8 DEF OneLiveOrderPerSequence
<1> QED  BY <1>1, <1>7, <1>8, <1>9, <1>10, <1>11 DEF Accounted

\* A restart empties processed together with the snapshot being submitted, and no order
\* of an earlier life is one of the new.
LEMMA NextAccounts ==
  ASSUME Types, Accounted, OneLiveOrderPerSequence, [Next]_vars
  PROVE  Accounted' /\ OneLiveOrderPerSequence'
<1>1. ASSUME UNCHANGED evars PROVE Accounted' /\ OneLiveOrderPerSequence'
  BY <1>1 DEF evars, Accounted, OneLiveOrderPerSequence, Live
<1>2. ASSUME NEW ready \in BOOLEAN, Deliver(ready)
      PROVE  Accounted' /\ OneLiveOrderPerSequence'
  <2>1. /\ UNCHANGED <<life, orders>> /\ processed' = processed \union {snapshot.seq}
        /\ pending' # None => snapshot.seq \notin processed /\ pending'.snapshot = snapshot
    BY <1>2 DEF Deliver, Execute
  <2>2. Live' = Live /\ OneLiveOrderPerSequence'
    BY <2>1 DEF Live, OneLiveOrderPerSequence
  <2> QED  BY <2>1, <2>2 DEF Accounted
<1>3. ASSUME NEW outcome \in Outcomes, Submit(outcome)
      PROVE  Accounted' /\ OneLiveOrderPerSequence'
  BY <1>3, SendAccounts DEF Submit
<1>4. CASE RestartConsumer
  <2>1. UNCHANGED orders /\ life' = life + 1 /\ pending' = None /\ life \in Nat
    BY <1>4 DEF RestartConsumer, RestartExecutor, Types
  <2>2. Live' = Live /\ OneLiveOrderPerSequence'
    BY <2>1 DEF Live, OneLiveOrderPerSequence
  <2>3. \A i \in Live : orders[i].life \in Nat /\ orders[i].life <= life
    <3>1. \A i \in DOMAIN orders : orders[i].life \in Nat
      <4> DEFINE R == [snapshot : Documents, life : Nat, outcome : Outcomes]
      <4>1. orders \in Seq(R) /\ \A r \in R : r.life \in Nat
        BY DEF Types
      <4> HIDE DEF R
      <4>2. \A i \in DOMAIN orders : orders[i] \in R
        BY <4>1
      <4> QED  BY <4>1, <4>2
    <3> QED  BY <3>1 DEF Accounted, Live
  <2> QED  BY <2>1, <2>2, <2>3 DEF Accounted
<1> QED
  BY <1>1, <1>2, <1>3, <1>4
     DEF Next, Publish, Read, Age, RestartPublisher, LoseFile, vars

-----------------------------------------------------------------------------
\* Executor: in one life at most one order of a sequence may be open, for any packages,
\* restarts, losses of the file, retries and answers of the broker.
THEOREM OrdersAreSingle == Spec => []OneLiveOrderPerSequence
<1>1. Init => Accounted /\ OneLiveOrderPerSequence
  BY DEF Init, SubmissionInit, Accounted, OneLiveOrderPerSequence, Live
<1>2. Types /\ Accounted /\ OneLiveOrderPerSequence /\ [Next]_vars
        => Accounted' /\ OneLiveOrderPerSequence'
  BY NextAccounts
<1> QED  BY <1>1, <1>2, TypesHold, PTL DEF Spec

\* The numbers at the start.
LEMMA InitNumbers == Init => Numbered /\ SequencesIncrease /\ RefusesOnlyRead
<1> SUFFICES ASSUME Init PROVE Numbered /\ SequencesIncrease /\ RefusesOnlyRead
  OBVIOUS
<1>1. file = None /\ latest = 0 /\ Len(published) = 0
  BY DEF Init
<1> QED  BY <1>1 DEF Numbered, Covers, SequencesIncrease, RefusesOnlyRead

\* DecisionPublisher: publications are numbered in increasing order through any restarts,
\* until one finds no readable decision.json.
THEOREM NumbersIncrease == Spec => []SequencesIncrease
<1>1. Types /\ Numbered /\ SequencesIncrease /\ RefusesOnlyRead /\ [Next]_vars
        => Numbered' /\ SequencesIncrease' /\ RefusesOnlyRead'
  BY NextNumbers
<1> QED  BY <1>1, InitNumbers, TypesHold, PTL DEF Spec

\* DecisionWriter: while the numbering has not begun anew, what it refuses for its number
\* it has accepted before, through any restarts of its own.
THEOREM NothingUnreadRefused == Spec => []RefusesOnlyRead
<1>1. Types /\ Numbered /\ SequencesIncrease /\ RefusesOnlyRead /\ [Next]_vars
        => Numbered' /\ SequencesIncrease' /\ RefusesOnlyRead'
  BY NextNumbers
<1> QED  BY <1>1, InitNumbers, TypesHold, PTL DEF Spec
===============================================================================
