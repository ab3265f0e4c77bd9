--------------------------- MODULE GalleryProofs ---------------------------
(***************************************************************************)
(* Theorems about Gallery, for any connections, any number and dates of    *)
(* thumbnails and any size of a page.                                      *)
(***************************************************************************)
EXTENDS Gallery, SseBrokerProofs, FiniteSetTheorems, FunctionTheorems, SequenceTheorems

-----------------------------------------------------------------------------
(* The gallery uses the broker                                             *)

LEMMA GalleryStepsBroker == [GalleryNext]_galleryVars => [Next]_vars
<1> SUFFICES ASSUME [GalleryNext]_galleryVars PROVE [Next]_vars
  OBVIOUS
<1>v. \A v \in Viewers : v \in Clients
  BY GalleryAssumption
<1>1. CASE Record
  BY <1>1 DEF Record
<1>2. CASE Announce
  BY <1>2 DEF Announce, Next
<1>3. CASE Unseen
  BY <1>3 DEF Unseen, Next, Listen, Serve
<1>4. ASSUME NEW v \in Viewers, OpenPage(v) \/ ReadPage(v) \/ StreamRefused(v) \/ TimerFires(v)
      PROVE  UNCHANGED vars
  BY <1>4 DEF OpenPage, ReadPage, StreamRefused, TimerFires
<1>5. ASSUME NEW v \in Viewers, ClosePage(v)
      PROVE  [Next]_vars
  <2>1. CASE handler[v] = "closed"
    BY <1>5, <2>1 DEF ClosePage, vars
  <2>2. CASE handler[v] # "closed"
    <3>1. Disconnect(v)
      BY <1>5, <2>2 DEF ClosePage, Disconnect
    <3> QED
      BY <1>v, <3>1 DEF Next
  <2> QED
    BY <2>1, <2>2
<1>6. ASSUME NEW v \in Viewers, Expire(v) \/ Receive(v) \/ StreamEnds(v) \/ StreamOpens(v)
      PROVE  Next
  <2>1. Disconnect(v) \/ Written(v) \/ Unregister(v) \/ Connect(v)
    BY <1>6 DEF Expire, Receive, StreamEnds, StreamOpens
  <2> QED
    BY <1>v, <2>1 DEF Next, Listen, Serve
<1>7. CASE UNCHANGED galleryVars
  BY <1>7 DEF galleryVars
<1> QED
  BY <1>1, <1>2, <1>3, <1>4, <1>5, <1>6, <1>7 DEF GalleryNext

\* Whatever the pages do, the broker they talk to is the broker of SseBroker,
\* with its registry and its accounts.
THEOREM GalleryUsesTheBroker == GallerySpec => Spec
<1>1. GalleryInit => Init
  BY DEF GalleryInit
<1> QED
  BY <1>1, GalleryStepsBroker, PTL DEF GallerySpec, Spec

-----------------------------------------------------------------------------
(* Listings and their slices                                               *)

Newer(n) == {m \in 1..recorded : CreatedAt[m] > CreatedAt[n]}

\* A listing is a permutation of the rows.
LEMMA ListingShape ==
    ASSUME recorded \in Nat, NEW s \in Listings
    PROVE  /\ s \in [1..recorded -> 1..recorded] /\ Len(s) = recorded
           /\ \A i, j \in 1..recorded : i # j => s[i] # s[j]
           /\ \A n \in 1..recorded : \E i \in 1..recorded : s[i] = n
           /\ \A i, j \in 1..recorded : i < j => CreatedAt[s[i]] >= CreatedAt[s[j]]
<1>1. IsFiniteSet(1..recorded) /\ Cardinality(1..recorded) = recorded
  BY FS_Interval
<1>2. /\ s \in [1..recorded -> 1..recorded]
      /\ \A i, j \in 1..recorded : i # j => s[i] # s[j]
      /\ \A i, j \in 1..recorded : i < j => CreatedAt[s[i]] >= CreatedAt[s[j]]
  BY <1>1 DEF Listings, SetToSeqs
<1>3. s \in Injection(1..recorded, 1..recorded)
  BY <1>2 DEF Injection, IsInjective
<1>4. s \in Surjection(1..recorded, 1..recorded)
  BY <1>1, <1>3, FS_Injection
<1>5. s \in Seq(1..recorded)
  BY <1>2, SeqDef
<1>6. Len(s) = recorded
  BY <1>2, <1>5
<1> QED
  BY <1>2, <1>4, <1>6 DEF Surjection

\* A row no other is tied with comes after exactly those that are newer.
LEMMA PlaceInListing ==
    ASSUME recorded \in 0..MaxEvents, NEW s \in Listings, NEW i \in 1..recorded, ~Tied(s[i])
    PROVE  Cardinality(Newer(s[i])) = i - 1
<1> DEFINE n == s[i]
           before == 1..(i - 1)
           r == [j \in before |-> s[j]]
<1>0. recorded \in Nat /\ i - 1 \in Nat /\ before \subseteq 1..recorded /\ i \notin before
  BY BrokerAssumption
<1>1. /\ s \in [1..recorded -> 1..recorded]
      /\ \A j, k \in 1..recorded : j # k => s[j] # s[k]
      /\ \A m \in 1..recorded : \E j \in 1..recorded : s[j] = m
      /\ \A j, k \in 1..recorded : j < k => CreatedAt[s[j]] >= CreatedAt[s[k]]
  BY <1>0, ListingShape
<1>2. \A m \in 1..recorded : CreatedAt[m] \in Nat
  BY GalleryAssumption, BrokerAssumption
<1>3. n \in 1..recorded
  BY <1>1
<1>4. ASSUME NEW j \in before PROVE s[j] \in Newer(n)
  <2>1. j \in 1..recorded /\ j < i
    BY <1>0
  <2>2. s[j] # n /\ CreatedAt[s[j]] >= CreatedAt[n] /\ s[j] \in 1..recorded
    BY <1>1, <2>1
  <2>3. CreatedAt[s[j]] # CreatedAt[n]
    BY <2>2 DEF Tied
  <2> QED
    BY <1>2, <1>3, <2>2, <2>3 DEF Newer
<1>5. ASSUME NEW m \in Newer(n) PROVE \E j \in before : s[j] = m
  <2>1. m \in 1..recorded /\ CreatedAt[m] > CreatedAt[n]
    BY DEF Newer
  <2>2. PICK j \in 1..recorded : s[j] = m
    BY <1>1, <2>1
  <2>3. ~(i < j)
    <3> SUFFICES ASSUME i < j PROVE FALSE
      OBVIOUS
    <3>1. CreatedAt[n] >= CreatedAt[m]
      BY <1>1, <2>2
    <3> QED
      BY <1>2, <1>3, <2>1, <3>1
  <2>4. i # j
    BY <1>2, <1>3, <2>1, <2>2
  <2>5. j \in before
    BY <2>3, <2>4
  <2> QED
    BY <2>2, <2>5
<1> HIDE DEF n
<1>6. r \in [before -> Newer(n)]
  BY <1>4
<1>7. r \in Injection(before, Newer(n))
  <2>1. ASSUME NEW a \in before, NEW b \in before, r[a] = r[b] PROVE a = b
    BY <1>0, <1>1, <2>1
  <2> QED
    BY <1>6, <2>1 DEF Injection, IsInjective
<1>8. r \in Surjection(before, Newer(n))
  <2>1. ASSUME NEW m \in Newer(n) PROVE \E j \in before : r[j] = m
    BY <1>5
  <2> QED
    BY <1>6, <2>1 DEF Surjection
<1>9. ExistsBijection(before, Newer(n))
  BY <1>7, <1>8 DEF ExistsBijection, Bijection
<1>10. IsFiniteSet(before) /\ Cardinality(before) = i - 1
  BY <1>0, FS_Interval
<1>11. Cardinality(Newer(n)) = i - 1
  BY <1>9, <1>10, FS_Bijection
<1> QED
  BY <1>11 DEF n

\* So it is on the page that counts those fall on, and on no other.
LEMMA OnItsPage ==
    ASSUME recorded \in 0..MaxEvents, NEW k \in Nat, NEW answer \in GetThumbnails(k),
           NEW n \in 1..recorded, ~Tied(n)
    PROVE  /\ Cardinality(Newer(n)) \in Nat /\ Cardinality(Newer(n)) < recorded
           /\ n \in answer <=> Limit * k <= Cardinality(Newer(n)) /\ Cardinality(Newer(n)) < Limit * (k + 1)
<1>1. PICK s \in Listings : answer = Slice(s, Limit * k)
  BY DEF GetThumbnails
<1>0. recorded \in Nat /\ Limit \in Nat /\ Limit * k \in Nat /\ Limit * (k + 1) = Limit * k + Limit
  BY BrokerAssumption, GalleryAssumption
<1>2. /\ Len(s) = recorded
      /\ \A i, j \in 1..recorded : i # j => s[i] # s[j]
  BY <1>0, ListingShape
<1>3. PICK i \in 1..recorded : s[i] = n
  BY <1>0, ListingShape
<1>4. Cardinality(Newer(n)) = i - 1
  BY <1>3, PlaceInListing
<1>5. n \in answer <=> Limit * k < i /\ i <= Limit * k + Limit
  <2>1. n \in answer <=> \E j \in 1..recorded : Limit * k < j /\ j <= Limit * k + Limit /\ s[j] = n
    BY <1>1, <1>2 DEF Slice
  <2> QED
    BY <1>2, <1>3, <2>1
<1> DEFINE a == Limit * k
<1> QED
  <2> HIDE DEF a
  <2>1. a \in Nat /\ Limit * (k + 1) = a + Limit /\ (n \in answer <=> a < i /\ i <= a + Limit)
    BY <1>0, <1>5 DEF a
  <2>2. n \in answer <=> a <= i - 1 /\ i - 1 < a + Limit
    BY <1>0, <2>1
  <2>3. n \in answer <=> a <= Cardinality(Newer(n)) /\ Cardinality(Newer(n)) < Limit * (k + 1)
    BY <1>4, <2>1, <2>2
  <2> QED
    BY <1>0, <1>4, <2>3 DEF a

\* A page is of rows there are, and it is empty only past the last of them.
LEMMA PageOfRows ==
    ASSUME recorded \in 0..MaxEvents, NEW k \in Nat, NEW answer \in GetThumbnails(k)
    PROVE  /\ answer \subseteq 1..recorded
           /\ answer = {} <=> recorded <= Limit * k
<1>1. PICK s \in Listings : answer = Slice(s, Limit * k)
  BY DEF GetThumbnails
<1>0. recorded \in Nat /\ Limit \in Nat \ {0} /\ Limit * k \in Nat
  BY BrokerAssumption, GalleryAssumption
<1>2. Len(s) = recorded /\ s \in [1..recorded -> 1..recorded]
  BY <1>0, ListingShape
<1> DEFINE a == Limit * k
<1> HIDE DEF a
<1>3. answer = {s[i] : i \in {j \in 1..recorded : a < j /\ j <= a + Limit}}
  BY <1>1, <1>2 DEF Slice, a
<1>4. answer \subseteq 1..recorded
  BY <1>2, <1>3
<1>5. ASSUME a < recorded PROVE answer # {}
  <2>1. a + 1 \in {j \in 1..recorded : a < j /\ j <= a + Limit}
    BY <1>0, <1>5 DEF a
  <2> QED
    BY <1>3, <2>1
<1>6. ASSUME recorded <= a PROVE answer = {}
  BY <1>0, <1>3, <1>6 DEF a
<1>7. a < recorded \/ recorded <= a
  BY <1>0 DEF a
<1> QED
  BY <1>4, <1>5, <1>6, <1>7 DEF a

-----------------------------------------------------------------------------
(* The inductive invariant of the reading                                  *)

\* What page p has and may still have: a row of the first page's time that is
\* not shown is on a page still to come; one that is shown, if none was added,
\* is on no page still to come.
Reads(p) ==
    /\ p.first <= recorded
    /\ p.chain = "none" => p = NoPage
    /\ p.next = 0 => p.first = 0
    /\ \A n \in Thumbnails : p.paged[n] <= p.next /\ (p.paged[n] > 0 => n <= recorded)
    /\ p.chain = "reading" => Limit * p.next < recorded + Limit
    /\ p.chain = "reading" =>
          \A n \in 1..p.first : p.paged[n] > 0 \/ Tied(n) \/ Limit * p.next <= Cardinality(Newer(n))
    /\ p.chain = "end" => \A n \in 1..p.first : p.paged[n] > 0 \/ Tied(n)
    /\ p.first = recorded => \A n \in Thumbnails : ~Tied(n) /\ p.paged[n] > 0 =>
          p.paged[n] = 1 /\ Cardinality(Newer(n)) < Limit * p.next

\* The source is connected exactly while a handler serves it, and a handler that
\* serves nobody is for a page that has gone.
Sourced(v) ==
    /\ page[v].source = "connected" <=> Open(v) /\ handler[v] # "closed"
    /\ handler[v] # "closed" /\ v \notin gone => Open(v)

\* What the handler of an open page has been handed is on the page, but for what
\* it is writing.
Delivered(v) ==
    /\ handler[v] = "writing" => got[v] # <<>>
    /\ v \in clients \ gone => \A k \in 1..Len(got[v]) :
          got[v][k] \in page[v].live \/ (handler[v] = "writing" /\ k = Len(got[v]))

GalleryInv ==
    /\ recorded \in 0..MaxEvents /\ published <= recorded
    /\ page \in [Viewers -> Pages]
    /\ \A v \in Viewers : Reads(page[v]) /\ Sourced(v) /\ Delivered(v)

LEMMA FewPages ==
    ASSUME recorded \in 0..MaxEvents, NEW k \in Nat, Limit * k < recorded + Limit
    PROVE  k <= MaxEvents
<1> USE BrokerAssumption, GalleryAssumption
<1> SUFFICES ASSUME k >= MaxEvents + 1 PROVE FALSE
  OBVIOUS
<1> DEFINE l == Limit - 1
           j == k - 1
<1>1. l \in Nat /\ j \in Nat /\ j >= MaxEvents /\ Limit = l + 1 /\ k = j + 1
  OBVIOUS
<1> HIDE DEF l, j
<1>2. l * j \in Nat /\ (l + 1) * (j + 1) = l * j + l + j + 1
  BY <1>1
<1>3. Limit * k = l * j + l + j + 1
  BY <1>1, <1>2
<1> QED
  BY <1>1, <1>2, <1>3

LEMMA NoPageReads ==
    ASSUME recorded \in 0..MaxEvents
    PROVE  Reads(NoPage) /\ Reads([NoPage EXCEPT !.chain = "reading", !.source = "connecting"])
           /\ NoPage \in Pages /\ [NoPage EXCEPT !.chain = "reading", !.source = "connecting"] \in Pages
<1> USE BrokerAssumption, GalleryAssumption
<1> DEFINE q == [NoPage EXCEPT !.chain = "reading", !.source = "connecting"]
<1>1. /\ NoPage.first = 0 /\ NoPage.chain = "none" /\ NoPage.next = 0 /\ \A n \in Thumbnails : NoPage.paged[n] = 0
      /\ q.first = 0 /\ q.chain = "reading" /\ q.next = 0 /\ \A n \in Thumbnails : q.paged[n] = 0
  BY DEF NoPage
<1>2. NoPage \in Pages /\ q \in Pages
  <2>1. [n \in Thumbnails |-> 0] \in [Thumbnails -> 0..MaxEvents + 1] /\ 0 \in 0..MaxEvents /\ 0 \in 0..MaxEvents + 1
    OBVIOUS
  <2>2. NoPage \in Pages
    BY <2>1 DEF NoPage, Pages
  <2> QED
    BY <2>2 DEF Pages
<1>3. Limit * 0 = 0 /\ 1..0 = {}
  OBVIOUS
<1> HIDE DEF q
<1>4. Reads(NoPage)
  BY <1>1, <1>3 DEF Reads
<1>5. Reads(q)
  BY <1>1, <1>3 DEF Reads
<1> QED
  BY <1>2, <1>4, <1>5 DEF q

LEMMA GalleryInitInv == GalleryInit => GalleryInv
<1> SUFFICES ASSUME GalleryInit PROVE GalleryInv
  OBVIOUS
<1>1. recorded \in 0..MaxEvents /\ published <= recorded
  BY BrokerAssumption DEF GalleryInit, Init
<1>2. page \in [Viewers -> Pages]
  BY <1>1, NoPageReads DEF GalleryInit
<1>3. \A v \in Viewers : Reads(page[v])
  BY <1>1, NoPageReads DEF GalleryInit
<1>4. \A v \in Viewers : Sourced(v)
  BY GalleryAssumption DEF GalleryInit, Init, Sourced, Open, NoPage
<1>5. \A v \in Viewers : Delivered(v)
  BY GalleryAssumption DEF GalleryInit, Init, Delivered
<1> QED
  BY <1>1, <1>2, <1>3, <1>4, <1>5 DEF GalleryInv

\* A page whose reading is as it was still reads well when rows are added.
LEMMA ReadsKept ==
    ASSUME recorded \in 0..MaxEvents, recorded' \in 0..MaxEvents, recorded <= recorded',
           NEW p \in Pages, Reads(p)
    PROVE  Reads(p)'
<1> USE BrokerAssumption, GalleryAssumption
<1>1. /\ p.first \in Nat /\ p.next \in Nat /\ p.paged \in [Thumbnails -> Nat]
      /\ p.first <= recorded /\ p.first \in 0..MaxEvents
  BY DEF Pages, Reads
<1>2. \A n : Tied(n) => Tied(n)'
  BY DEF Tied
<1>3. ASSUME NEW n
      PROVE  /\ Cardinality(Newer(n)) \in Nat /\ Cardinality(Newer(n))' \in Nat
             /\ Cardinality(Newer(n)) <= Cardinality(Newer(n))'
             /\ recorded' = recorded => Cardinality(Newer(n))' = Cardinality(Newer(n))
  <2>1. IsFiniteSet(1..recorded')
    BY FS_Interval
  <2>2. Newer(n)' \in SUBSET (1..recorded') /\ Newer(n) \in SUBSET Newer(n)'
    BY DEF Newer
  <2>3. IsFiniteSet(Newer(n)')
    BY <2>1, <2>2, FS_Subset
  <2>4. IsFiniteSet(Newer(n)) /\ Cardinality(Newer(n)) <= Cardinality(Newer(n)')
    BY <2>2, <2>3, FS_Subset
  <2>5. Cardinality(Newer(n)) \in Nat /\ Cardinality(Newer(n)') \in Nat
    BY <2>3, <2>4, FS_CardinalityType
  <2>6. recorded' = recorded => Newer(n)' = Newer(n)
    BY DEF Newer
  <2> QED
    BY <2>4, <2>5, <2>6
<1> DEFINE a == Limit * p.next
<1>4. a \in Nat
  BY <1>1
<1> HIDE DEF a
<1>5. p.chain = "reading" => a < recorded' + Limit
  BY <1>4 DEF Reads, a
<1>6. ASSUME p.chain = "reading", NEW n \in 1..p.first
      PROVE  p.paged[n] > 0 \/ Tied(n)' \/ a <= Cardinality(Newer(n))'
  BY <1>2, <1>3, <1>4, <1>6 DEF Reads, a
<1>7. ASSUME p.first = recorded', NEW n \in Thumbnails, ~Tied(n)', p.paged[n] > 0
      PROVE  p.paged[n] = 1 /\ Cardinality(Newer(n))' < a
  <2>1. recorded' = recorded
    BY <1>1, <1>7
  <2> QED
    BY <1>2, <1>3, <1>7, <2>1 DEF Reads, a
<1>8. \A n \in Thumbnails : p.paged[n] <= p.next /\ (p.paged[n] > 0 => n <= recorded')
  BY <1>1 DEF Reads, Thumbnails
<1> QED
  BY <1>1, <1>2, <1>5, <1>6, <1>7, <1>8 DEF Reads, a

\* Reading a page keeps the promise.
LEMMA ReadsPage ==
    ASSUME recorded \in 0..MaxEvents, page \in [Viewers -> Pages],
           NEW v \in Viewers, page[v].chain = "reading", Reads(page[v]),
           NEW answer \in GetThumbnails(page[v].next)
    PROVE  WithPage(v, answer) \in Pages /\ Reads(WithPage(v, answer))
<1> USE BrokerAssumption, GalleryAssumption
<1> DEFINE p == page[v]
           q == WithPage(v, answer)
           a == Limit * p.next
<1>1. /\ p \in Pages /\ p.next \in 0..MaxEvents + 1 /\ p.paged \in [Thumbnails -> 0..MaxEvents + 1]
      /\ p.first \in 0..MaxEvents
  BY DEF Pages
<1>2. /\ a \in Nat /\ Limit * (p.next + 1) = a + Limit
      /\ Limit \in Nat \ {0}
  BY <1>1
<1>3. p.next <= MaxEvents
  <2>1. Limit * p.next < recorded + Limit
    BY DEF Reads
  <2>2. p.next \in Nat
    BY <1>1, BrokerAssumption
  <2>3. recorded \in 0..MaxEvents
    OBVIOUS
  <2> QED
    BY <2>1, <2>2, <2>3, FewPages, Zenon
<1>4. /\ q.next = p.next + 1
      /\ q.paged = [n \in Thumbnails |-> IF n \in answer THEN p.paged[n] + 1 ELSE p.paged[n]]
      /\ q.first = (IF p.next = 0 THEN recorded ELSE p.first)
      /\ q.chain = (IF answer = {} THEN "end" ELSE "reading")
      /\ q.live = p.live /\ q.source = p.source
      /\ q = [chain |-> q.chain, next |-> q.next, paged |-> q.paged, live |-> q.live,
              source |-> q.source, first |-> q.first]
  <2> DEFINE paged == [n \in Thumbnails |-> IF n \in answer THEN p.paged[n] + 1 ELSE p.paged[n]]
  <2>1. q = [chain |-> IF answer = {} THEN "end" ELSE p.chain, next |-> p.next + 1, paged |-> paged,
             live |-> p.live, source |-> p.source,
             first |-> IF p.next = 0 THEN recorded ELSE p.first]
    <3>1. q = [p EXCEPT !.paged = paged, !.next = p.next + 1,
                        !.first = IF p.next = 0 THEN recorded ELSE p.first,
                        !.chain = IF answer = {} THEN "end" ELSE p.chain]
      BY DEF WithPage
    <3> HIDE DEF p, q, paged
    <3> QED
      BY <1>1, <3>1 DEF Pages
  <2> HIDE DEF paged, q
  <2>2. p.chain = "reading"
    OBVIOUS
  <2> QED
    BY <2>1, <2>2 DEF paged
<1>5. /\ answer \subseteq 1..recorded
      /\ answer = {} <=> recorded <= a
  BY <1>1, PageOfRows
<1>6. \A n \in 1..recorded : ~Tied(n) =>
          /\ Cardinality(Newer(n)) \in Nat /\ Cardinality(Newer(n)) < recorded
          /\ n \in answer <=> a <= Cardinality(Newer(n)) /\ Cardinality(Newer(n)) < a + Limit
  BY SMTT(30), <1>1, <1>2, OnItsPage
<1> HIDE DEF p, q, a
<1>7. /\ p.first <= recorded
      /\ p.next = 0 => p.first = 0
      /\ \A n \in Thumbnails : p.paged[n] <= p.next /\ (p.paged[n] > 0 => n <= recorded)
      /\ \A n \in 1..p.first : p.paged[n] > 0 \/ Tied(n) \/ a <= Cardinality(Newer(n))
      /\ p.first = recorded => \A n \in Thumbnails : ~Tied(n) /\ p.paged[n] > 0 =>
          p.paged[n] = 1 /\ Cardinality(Newer(n)) < a
  BY DEF Reads, p, a
<1>8. q \in Pages
  <2>1. q.paged \in [Thumbnails -> 0..MaxEvents + 1]
    BY <1>1, <1>3, <1>4, <1>7
  <2>2. q.next \in 0..MaxEvents + 1 /\ q.first \in 0..MaxEvents
    BY <1>1, <1>3, <1>4
  <2> QED
    BY <1>1, <1>4, <2>1, <2>2 DEF Pages
<1>9. q.first \in 0..recorded /\ q.next # 0 /\ q.chain # "none"
  BY <1>1, <1>4, <1>7
<1>10. \A n \in Thumbnails : q.paged[n] <= q.next /\ (q.paged[n] > 0 => n <= recorded)
  BY SMTT(30), <1>1, <1>4, <1>5, <1>7 DEF Thumbnails
<1>11. q.chain = "reading" => Limit * q.next < recorded + Limit
  BY <1>2, <1>4, <1>5
<1>12. ASSUME NEW n \in 1..q.first, ~Tied(n)
       PROVE  q.paged[n] > 0 \/ (answer # {} /\ a + Limit <= Cardinality(Newer(n)))
  <2>1. n \in 1..recorded /\ n \in Thumbnails
    BY <1>9 DEF Thumbnails
  <2>2. CASE n \in answer
    BY <1>1, <1>4, <2>1, <2>2
  <2>3. CASE n \notin answer /\ p.next # 0 /\ p.paged[n] > 0
    BY <1>4, <2>1, <2>3
  <2>4. CASE n \notin answer /\ a <= Cardinality(Newer(n))
    BY <1>2, <1>5, <1>6, <1>12, <2>1, <2>4
  <2>5. CASE p.next = 0
    <3>1. a = 0
      BY <2>5, <1>2 DEF a
    <3> QED
      BY <1>6, <1>12, <2>1, <2>2, <2>4, <3>1
  <2>6. CASE p.next # 0 /\ p.paged[n] = 0
    <3>1. n \in 1..p.first
      BY <1>4, <2>6
    <3>2. a <= Cardinality(Newer(n))
      BY <1>7, <1>12, <2>6, <3>1
    <3> QED
      BY <2>2, <2>4, <3>2
  <2>7. p.paged[n] \in Nat
    BY <1>1, <2>1
  <2> QED
    BY <2>2, <2>3, <2>5, <2>6, <2>7
<1>13. ASSUME q.first = recorded, NEW n \in Thumbnails, ~Tied(n), q.paged[n] > 0
       PROVE  q.paged[n] = 1 /\ Cardinality(Newer(n)) < Limit * q.next
  <2>1. n \in 1..recorded
    BY <1>10, <1>13 DEF Thumbnails
  <2>2. Limit * q.next = a + Limit
    BY <1>2, <1>4
  <2>3. p.first = recorded \/ p.paged[n] = 0
    BY <1>1, <1>4, <1>7, <1>13
  <2>4. CASE p.paged[n] = 0
    BY <1>4, <1>6, <1>13, <2>1, <2>2, <2>4
  <2>5. CASE p.paged[n] > 0
    <3>1. p.paged[n] = 1 /\ Cardinality(Newer(n)) < a
      BY <1>7, <1>13, <2>3, <2>5
    <3>2. n \notin answer
      BY <1>2, <1>6, <1>13, <2>1, <3>1
    <3> QED
      BY <1>2, <1>4, <1>6, <1>13, <2>1, <2>2, <3>1, <3>2
  <2>6. p.paged[n] \in Nat
    BY <1>1
  <2> QED
    BY <2>4, <2>5, <2>6
<1>14. Limit * q.next = a + Limit
  BY <1>2, <1>4
<1>15. Reads(q)
  <2>1. q.chain = "reading" =>
          \A n \in 1..q.first : q.paged[n] > 0 \/ Tied(n) \/ Limit * q.next <= Cardinality(Newer(n))
    BY <1>12, <1>14
  <2>2. q.chain = "end" => \A n \in 1..q.first : q.paged[n] > 0 \/ Tied(n)
    BY <1>4, <1>12
  <2>3. q.first <= recorded
    BY <1>9
  <2> QED
    BY <1>9, <1>10, <1>11, <1>13, <2>1, <2>2, <2>3 DEF Reads
<1> QED
  BY <1>8, <1>15 DEF q

\* What the stream does to a page is none of the reading's business.
LEMMA StreamKeepsReads ==
    ASSUME NEW p \in Pages, Reads(p), p.chain # "none",
           NEW l \in SUBSET Thumbnails, NEW c \in {"none", "connecting", "connected", "waiting"}
    PROVE  /\ [p EXCEPT !.live = l] \in Pages /\ Reads([p EXCEPT !.live = l])
           /\ [p EXCEPT !.source = c] \in Pages /\ Reads([p EXCEPT !.source = c])
<1> DEFINE q == [p EXCEPT !.live = l]
           r == [p EXCEPT !.source = c]
<1>1. q \in Pages /\ r \in Pages
  BY DEF Pages
<1>2. /\ q.first = p.first /\ q.chain = p.chain /\ q.next = p.next /\ q.paged = p.paged
      /\ r.first = p.first /\ r.chain = p.chain /\ r.next = p.next /\ r.paged = p.paged
  BY DEF Pages
<1> HIDE DEF q, r
<1>3. Reads(q)
  BY <1>2 DEF Reads
<1>4. Reads(r)
  BY <1>2 DEF Reads
<1> QED
  BY <1>1, <1>3, <1>4 DEF q, r

-----------------------------------------------------------------------------
(* Steps                                                                   *)

\* What the steps leave alone.
LEMMA RowsNext ==
    ASSUME BrokerInv, GalleryInv, [GalleryNext]_galleryVars
    PROVE  /\ recorded' \in 0..MaxEvents /\ published' <= recorded' /\ recorded <= recorded'
           /\ recorded' = recorded \/ page' = page
<1> USE BrokerAssumption DEF GalleryInv
<1>0. published \in Nat /\ recorded \in Nat
  BY DEF BrokerInv, BrokerTypeOK
<1>1. CASE Record
  BY <1>0, <1>1 DEF Record, vars
<1>2. CASE Announce
  BY <1>0, <1>2 DEF Announce, Notify
<1>3. CASE Unseen
  <2>1. published' = published /\ recorded' = recorded
    BY <1>3 DEF Unseen, Take, RoundDone, Register, Hand, Skip, CheckGone, Connect, Disconnect, Written, Unregister
  <2> QED
    BY <1>0, <2>1
<1>4. ASSUME NEW v \in Viewers,
             \/ OpenPage(v) \/ ClosePage(v) \/ ReadPage(v)
             \/ Expire(v) \/ Receive(v) \/ StreamEnds(v)
             \/ StreamOpens(v) \/ StreamRefused(v) \/ TimerFires(v)
      PROVE  published' = published /\ recorded' = recorded
  BY <1>4 DEF OpenPage, ClosePage, ReadPage, Expire, Receive, StreamEnds, StreamOpens, StreamRefused,
              TimerFires, Disconnect, Written, Unregister, Connect, vars
<1>5. CASE UNCHANGED galleryVars
  BY <1>0, <1>5 DEF galleryVars, vars
<1> QED
  BY <1>0, <1>1, <1>2, <1>3, <1>4, <1>5 DEF GalleryNext

LEMMA ReadsNext ==
    ASSUME BrokerInv, GalleryInv, [GalleryNext]_galleryVars
    PROVE  page' \in [Viewers -> Pages] /\ \A v \in Viewers : Reads(page[v])'
<1> USE BrokerAssumption DEF GalleryInv
<1>0. /\ recorded' \in 0..MaxEvents /\ recorded <= recorded'
      /\ page \in [Viewers -> Pages] /\ \A v \in Viewers : page[v] \in Pages /\ Reads(page[v])
  BY RowsNext
<1>a. \A v \in Viewers : page[v].chain = "none" => page[v].source = "none"
  BY <1>0 DEF Reads, NoPage
<1>b. ASSUME NEW v \in Viewers, NEW q \in Pages, Reads(q), page'[v] = q PROVE Reads(page[v])'
  <2>1. Reads(q)'
    BY <1>0, <1>b, ReadsKept
  <2> QED
    BY <1>b, <2>1 DEF Reads
<1>c. ASSUME NEW v \in Viewers, page'[v] = page[v] PROVE Reads(page[v])'
  <2>1. PICK q \in Pages : q = page[v]
    BY <1>0
  <2>2. Reads(q)
    BY <1>0, <2>1
  <2> QED
    BY <1>b, <1>c, <2>1, <2>2
\* One page changes, and the new one reads well.
<1>d. ASSUME NEW v \in Viewers, NEW q \in Pages, Reads(q), page' = [page EXCEPT ![v] = q]
      PROVE  page' \in [Viewers -> Pages] /\ \A w \in Viewers : Reads(page[w])'
  <2>1. page' \in [Viewers -> Pages] /\ page'[v] = q
    BY <1>0, <1>d
  <2>2. ASSUME NEW w \in Viewers PROVE Reads(page[w])'
    <3>1. CASE w = v
      BY <1>b, <1>d, <2>1, <3>1
    <3>2. CASE w # v
      BY <1>0, <1>c, <1>d, <3>2
    <3> QED
      BY <3>1, <3>2
  <2> QED
    BY <2>1, <2>2
<1>e. ASSUME page' = page
      PROVE  page' \in [Viewers -> Pages] /\ \A w \in Viewers : Reads(page[w])'
  BY <1>0, <1>c, <1>e
<1>1. CASE Record \/ Announce \/ Unseen \/ UNCHANGED galleryVars
  <2>1. page' = page
    BY <1>1 DEF Record, Announce, Unseen, galleryVars
  <2> QED
    BY <1>e, <2>1
<1> DEFINE Goal == page' \in [Viewers -> Pages] /\ \A w \in Viewers : Reads(page[w])'
<1>2. ASSUME NEW v \in Viewers, OpenPage(v) PROVE Goal
  BY <1>2, <1>d, NoPageReads DEF OpenPage
<1>3. ASSUME NEW v \in Viewers, ClosePage(v) PROVE Goal
  BY <1>3, <1>d, NoPageReads DEF ClosePage
<1>4. ASSUME NEW v \in Viewers, ReadPage(v) PROVE Goal
  <2>1. PICK answer \in GetThumbnails(page[v].next) : page' = [page EXCEPT ![v] = WithPage(v, answer)]
    BY <1>4 DEF ReadPage
  <2>2. WithPage(v, answer) \in Pages /\ Reads(WithPage(v, answer))
    BY <1>0, <1>4, ReadsPage DEF ReadPage
  <2>3. PICK q \in Pages : q = WithPage(v, answer)
    BY <2>2
  <2>4. Reads(q)
    BY <2>2, <2>3
  <2> QED
    BY <1>d, <2>1, <2>3, <2>4
\* The stream changes live or source of a page that is open.
<1>5. ASSUME NEW v \in Viewers, Open(v),
             NEW l \in SUBSET Thumbnails, NEW c \in {"none", "connecting", "connected", "waiting"},
             \/ page' = [page EXCEPT ![v].live = l]
             \/ page' = [page EXCEPT ![v].source = c]
      PROVE  Goal
  <2>1. PICK p \in Pages : p = page[v]
    BY <1>0
  <2>2. Reads(p) /\ p.chain # "none"
    BY <1>0, <1>5, <2>1 DEF Open
  <2>3. /\ [p EXCEPT !.live = l] \in Pages /\ Reads([p EXCEPT !.live = l])
        /\ [p EXCEPT !.source = c] \in Pages /\ Reads([p EXCEPT !.source = c])
    BY <2>2, StreamKeepsReads
  <2>4. CASE page' = [page EXCEPT ![v].live = l]
    <3>1. page' = [page EXCEPT ![v] = [p EXCEPT !.live = l]]
      BY <2>1, <2>4
    <3> HIDE DEF Goal
    <3> QED
      BY <1>d, <2>3, <3>1 DEF Goal
  <2>5. CASE page' = [page EXCEPT ![v].source = c]
    <3>1. page' = [page EXCEPT ![v] = [p EXCEPT !.source = c]]
      BY <2>1, <2>5
    <3> HIDE DEF Goal
    <3> QED
      BY <1>d, <2>3, <3>1 DEF Goal
  <2> QED
    BY <1>5, <2>4, <2>5
<1>6. ASSUME NEW v \in Viewers, Expire(v) \/ Receive(v) PROVE Goal
  <2>1. CASE page' = page
    BY <1>e, <2>1
  <2>2. CASE Receive(v) /\ page' # page
    <3>1. /\ handler[v] = "writing" /\ v \notin gone
          /\ page' = [page EXCEPT ![v].live = @ \cup {got[v][Len(got[v])]}]
      BY <2>2 DEF Receive, Written
    <3>2. Open(v) /\ got[v] # <<>>
      BY <3>1 DEF Sourced, Delivered
    <3>3. got[v] \in Seq(1..MaxEvents)
      BY GalleryAssumption DEF BrokerInv, BrokerTypeOK
    <3>4. got[v][Len(got[v])] \in Thumbnails
      BY <3>2, <3>3 DEF Thumbnails
    <3>5. page[v].live \in SUBSET Thumbnails
      BY <1>0 DEF Pages
    <3>6. PICK l \in SUBSET Thumbnails : l = page[v].live \cup {got[v][Len(got[v])]}
      BY <3>4, <3>5
    <3>7. page' = [page EXCEPT ![v].live = l]
      BY <3>1, <3>6
    <3> HIDE DEF Goal
    <3> QED
      BY <1>5, <3>2, <3>7
  <2> QED
    BY <1>6, <2>1, <2>2 DEF Expire
<1>7. ASSUME NEW v \in Viewers, StreamEnds(v) \/ StreamOpens(v) \/ StreamRefused(v) \/ TimerFires(v)
      PROVE  Goal
  <2>1. CASE page' = page
    BY <1>e, <2>1
  <2>2. CASE page' # page
    <3>1. Open(v)
      BY <1>7, <1>a, <2>2 DEF StreamEnds, StreamOpens, StreamRefused, TimerFires, Open
    <3>2. \E c \in {"none", "connecting", "connected", "waiting"} : page' = [page EXCEPT ![v].source = c]
      BY <1>7, <2>2 DEF StreamEnds, StreamOpens, StreamRefused, TimerFires
    <3> HIDE DEF Goal
    <3> QED
      BY <1>5, <3>1, <3>2
  <2> QED
    BY <2>1, <2>2
<1> QED
  BY <1>1, <1>2, <1>3, <1>4, <1>6, <1>7 DEF GalleryNext

\* What one connection's part of a broker's step is for the others.
LEMMA OtherHandlers ==
    ASSUME BrokerInv, NEW w \in Clients, NEW v \in Clients \ {w},
           \/ Register(w) \/ Unregister(w) \/ Hand(w) \/ Skip(w)
           \/ Connect(w) \/ Disconnect(w) \/ CheckGone(w) \/ Written(w)
    PROVE  /\ handler'[v] = handler[v] /\ got'[v] = got[v]
           /\ v \in gone' <=> v \in gone
           /\ v \in clients' <=> v \in clients
<1>1. handler \in [Clients -> HandlerStates] /\ got \in [Clients -> Seq(1..MaxEvents)]
  BY DEF BrokerInv, BrokerTypeOK
<1> QED
  BY <1>1 DEF Register, Unregister, Hand, Skip, Connect, Disconnect, CheckGone, Written, Move

LEMMA SourcedNext ==
    ASSUME BrokerInv, GalleryInv, [GalleryNext]_galleryVars
    PROVE  \A v \in Viewers : Sourced(v)'
<1> SUFFICES ASSUME NEW v \in Viewers PROVE Sourced(v)'
  OBVIOUS
<1> USE DEF GalleryInv, Sourced, Open
<1>0. /\ v \in Clients /\ handler \in [Clients -> HandlerStates] /\ page \in [Viewers -> Pages]
      /\ \A w \in Viewers : w \in Clients
      /\ \A w \in Viewers : page[w] \in Pages
      /\ page[v].chain = "none" => page[v].source = "none"
  BY GalleryAssumption DEF BrokerInv, BrokerTypeOK, Reads, NoPage
<1>1. CASE Record \/ Announce \/ (Take /\ UNCHANGED page) \/ (RoundDone /\ UNCHANGED page) \/ UNCHANGED galleryVars
  BY <1>1 DEF Record, Announce, Notify, Take, RoundDone, galleryVars, vars
\* A step of another connection.
<1>2. ASSUME NEW w \in Clients \ {v}, page'[v] = page[v],
             \/ Register(w) \/ Unregister(w) \/ Hand(w) \/ Skip(w)
             \/ Connect(w) \/ Disconnect(w) \/ CheckGone(w) \/ Written(w)
      PROVE  Sourced(v)'
  BY <1>0, <1>2, OtherHandlers
\* A step of the broker with this connection, which does not close it.
<1>3. ASSUME page'[v] = page[v], Register(v) \/ Hand(v) \/ Skip(v) \/ CheckGone(v) \/ Written(v) \/ Disconnect(v)
      PROVE  Sourced(v)'
  BY <1>0, <1>3 DEF Register, Hand, Skip, CheckGone, Written, Disconnect, Move
<1>4. CASE Unseen
  <2>1. page' = page
    BY <1>4 DEF Unseen
  <2>2. CASE Take \/ RoundDone
    BY <1>1, <2>1, <2>2
  <2>3. ASSUME NEW c \in Clients, Register(c) \/ Hand(c) \/ Skip(c) \/ CheckGone(c) PROVE Sourced(v)'
    BY <1>2, <1>3, <2>1, <2>3
  <2>4. ASSUME NEW c \in Clients \ Viewers, Connect(c) \/ Disconnect(c) \/ Written(c) \/ Unregister(c)
        PROVE  Sourced(v)'
    BY <1>2, <2>1, <2>4
  <2> QED
    BY <1>4, <2>2, <2>3, <2>4 DEF Unseen
\* A step of the browser alone, with another page.
<1>5. ASSUME NEW w \in Viewers \ {v},
             \/ OpenPage(w) \/ ClosePage(w) \/ ReadPage(w) \/ StreamRefused(w) \/ TimerFires(w)
      PROVE  Sourced(v)'
  <2>1. page'[v] = page[v] /\ handler' = handler /\ (v \in gone' <=> v \in gone)
    BY <1>0, <1>5 DEF OpenPage, ClosePage, ReadPage, StreamRefused, TimerFires, vars
  <2> QED
    BY <2>1
<1>6. ASSUME NEW w \in Viewers \ {v}, Expire(w) \/ Receive(w) \/ StreamEnds(w) \/ StreamOpens(w)
      PROVE  Sourced(v)'
  <2>1. page'[v] = page[v]
    BY <1>0, <1>6 DEF Expire, Receive, StreamEnds, StreamOpens
  <2> QED
    BY <1>0, <1>2, <1>6, <2>1 DEF Expire, Receive, StreamEnds, StreamOpens
<1>7. CASE OpenPage(v)
  <2>1. page'[v].source = "connecting" /\ page'[v].chain = "reading" /\ handler'[v] = "closed"
    BY <1>0, <1>7 DEF OpenPage, NoPage, vars
  <2> QED
    BY <2>1
<1>8. CASE ClosePage(v)
  <2>1. page'[v].source = "none" /\ page'[v].chain = "none" /\ handler' = handler
        /\ (handler[v] # "closed" => v \in gone')
    BY <1>0, <1>8 DEF ClosePage, NoPage
  <2> QED
    BY <2>1
<1>9. CASE ReadPage(v)
  <2>1. PICK answer \in GetThumbnails(page[v].next) : page'[v] = WithPage(v, answer)
    BY <1>0, <1>9 DEF ReadPage
  <2>2. page'[v].source = page[v].source /\ page'[v].chain # "none" /\ page[v].chain # "none"
    BY <1>0, <1>9, <2>1 DEF WithPage, Pages, ReadPage
  <2> QED
    BY <1>9, <2>2 DEF ReadPage, vars
<1>10. CASE StreamRefused(v) \/ TimerFires(v)
  <2>1. page'[v].chain = page[v].chain /\ page'[v].source # "connected" /\ page[v].source # "connected"
        /\ page[v].source # "none"
    BY <1>0, <1>10 DEF StreamRefused, TimerFires, Pages
  <2> QED
    BY <1>0, <1>10, <2>1 DEF StreamRefused, TimerFires, vars
<1>11. CASE Expire(v)
  BY <1>0, <1>3, <1>11 DEF Expire
<1>12. CASE Receive(v)
  <2>1. page'[v].chain = page[v].chain /\ page'[v].source = page[v].source
    BY <1>0, <1>12 DEF Receive, Pages
  <2> QED
    BY <1>0, <1>12, <2>1 DEF Receive, Written, Move
<1>13. CASE StreamEnds(v)
  <2>1. handler'[v] = "closed"
    BY <1>0, <1>13 DEF StreamEnds, Unregister, Move
  <2>2. page'[v].source # "connected"
    BY <1>0, <1>13 DEF StreamEnds, Pages
  <2> QED
    BY <2>1, <2>2
<1>14. CASE StreamOpens(v)
  <2>1. handler'[v] = "registering"
    BY <1>0, <1>14 DEF StreamOpens, Connect, Move
  <2>2. page'[v].source = "connected" /\ page'[v].chain = page[v].chain /\ page[v].chain # "none"
    BY <1>0, <1>14 DEF StreamOpens, Pages
  <2> QED
    BY <2>1, <2>2
<1> HIDE DEF GalleryInv, Sourced, Open
<1>15. ASSUME NEW w \in Viewers,
              \/ OpenPage(w) \/ ClosePage(w) \/ ReadPage(w)
              \/ Expire(w) \/ Receive(w) \/ StreamEnds(w)
              \/ StreamOpens(w) \/ StreamRefused(w) \/ TimerFires(w)
       PROVE  Sourced(v)'
  <2>1. CASE w = v
    BY <1>7, <1>8, <1>9, <1>10, <1>11, <1>12, <1>13, <1>14, <1>15, <2>1
  <2>2. CASE w # v
    BY <1>5, <1>6, <1>15, <2>2
  <2> QED
    BY <2>1, <2>2
<1> QED
  BY <1>1, <1>4, <1>15 DEF GalleryNext

LEMMA DeliveredNext ==
    ASSUME BrokerInv, GalleryInv, [GalleryNext]_galleryVars
    PROVE  \A v \in Viewers : Delivered(v)'
<1> SUFFICES ASSUME NEW v \in Viewers PROVE Delivered(v)'
  OBVIOUS
<1> USE DEF GalleryInv, Delivered
<1>0. /\ v \in Clients /\ handler \in [Clients -> HandlerStates] /\ page \in [Viewers -> Pages]
      /\ got \in [Clients -> Seq(1..MaxEvents)] /\ got[v] \in Seq(1..MaxEvents)
      /\ \A w \in Viewers : w \in Clients
      /\ \A w \in Viewers : page[w] \in Pages
      /\ clients = {c \in Clients : handler[c] \notin {"closed", "registering"}}
  BY GalleryAssumption DEF BrokerInv, BrokerTypeOK, RegistryIsExact
\* Nothing of v moves.
<1>a. ASSUME handler'[v] = handler[v], got'[v] = got[v], v \in gone => v \in gone',
             v \in clients' => v \in clients, page'[v].live = page[v].live
      PROVE  Delivered(v)'
  BY <1>a
<1>1. CASE Record \/ Announce \/ (Take /\ UNCHANGED page) \/ (RoundDone /\ UNCHANGED page) \/ UNCHANGED galleryVars
  BY <1>1 DEF Record, Announce, Notify, Take, RoundDone, galleryVars, vars
<1>2. ASSUME NEW w \in Clients \ {v}, page'[v] = page[v],
             \/ Register(w) \/ Unregister(w) \/ Hand(w) \/ Skip(w)
             \/ Connect(w) \/ Disconnect(w) \/ CheckGone(w) \/ Written(w)
      PROVE  Delivered(v)'
  BY <1>0, <1>2, <1>a, OtherHandlers
<1>3. ASSUME page'[v] = page[v], Register(v) PROVE Delivered(v)'
  <2>1. got[v] = <<>> /\ got'[v] = <<>> /\ handler'[v] = "checking"
    BY <1>0, <1>3 DEF Register, Move, BrokerInv, Unused
  <2> QED
    BY <2>1
<1>4. ASSUME page'[v] = page[v], Hand(v) PROVE Delivered(v)'
  <2>1. /\ handler[v] = "receiving" /\ handler'[v] = "writing" /\ v \in clients
        /\ got'[v] = Append(got[v], sending) /\ gone' = gone /\ clients' = clients
    BY <1>0, <1>4 DEF Hand, Move, BrokerInv, BrokerTypeOK
  <2>2. sending \in 1..MaxEvents
    BY <1>4, BrokerAssumption DEF Hand, BrokerInv, Numbered, BrokerTypeOK
  <2>3. /\ got'[v] # <<>> /\ Len(got'[v]) = Len(got[v]) + 1 /\ Len(got[v]) \in Nat
        /\ \A k \in 1..Len(got[v]) : got'[v][k] = got[v][k]
    <3>1. PICK g \in Seq(1..MaxEvents) : g = got[v]
      BY <1>0
    <3>2. Append(g, sending) # <<>> /\ Len(Append(g, sending)) = Len(g) + 1 /\ Len(g) \in Nat
      BY <2>2
    <3>3. \A k \in 1..Len(g) : Append(g, sending)[k] = g[k]
      BY <2>2
    <3> QED
      BY <2>1, <3>1, <3>2, <3>3
  <2>4. ASSUME v \in clients' \ gone', NEW k \in 1..Len(got'[v])
        PROVE  got'[v][k] \in page'[v].live \/ k = Len(got'[v])
    <3>1. CASE k \in 1..Len(got[v])
      <4>1. got[v][k] \in page[v].live
        BY <2>1, <2>4, <3>1
      <4> QED
        BY <1>4, <2>3, <3>1, <4>1
    <3>2. k \in Nat /\ 1 <= k /\ k <= Len(got[v]) + 1
      BY <2>3
    <3>3. CASE k \notin 1..Len(got[v])
      BY <2>3, <3>2, <3>3
    <3> QED
      BY <3>1, <3>3
  <2> QED
    BY <2>1, <2>3, <2>4
<1>5. ASSUME page'[v] = page[v], Skip(v) \/ CheckGone(v) \/ Disconnect(v) PROVE Delivered(v)'
  <2>1. CASE Skip(v)
    BY <1>5, <1>a, <2>1 DEF Skip
  <2>2. CASE CheckGone(v)
    BY <1>0, <1>5, <2>2 DEF CheckGone, Move
  <2>3. CASE Disconnect(v)
    BY <1>5, <1>a, <2>3 DEF Disconnect
  <2> QED
    BY <1>5, <2>1, <2>2, <2>3
<1>6. CASE Unseen
  <2>1. page' = page
    BY <1>6 DEF Unseen
  <2>2. CASE Take \/ RoundDone
    BY <1>1, <2>1, <2>2
  <2>3. ASSUME NEW c \in Clients, Register(c) \/ Hand(c) \/ Skip(c) \/ CheckGone(c) PROVE Delivered(v)'
    BY <1>2, <1>3, <1>4, <1>5, <2>1, <2>3
  <2>4. ASSUME NEW c \in Clients \ Viewers, Connect(c) \/ Disconnect(c) \/ Written(c) \/ Unregister(c)
        PROVE  Delivered(v)'
    BY <1>2, <2>1, <2>4
  <2> QED
    BY <1>6, <2>2, <2>3, <2>4 DEF Unseen
<1>7. ASSUME NEW w \in Viewers,
             \/ ReadPage(w) \/ StreamRefused(w) \/ TimerFires(w)
      PROVE  Delivered(v)'
  <2>1. handler' = handler /\ got' = got /\ gone' = gone /\ clients' = clients
    BY <1>7 DEF ReadPage, StreamRefused, TimerFires, vars
  <2>2. page'[v].live = page[v].live
    <3>1. CASE w = v /\ ReadPage(v)
      <4>1. PICK answer \in GetThumbnails(page[v].next) : page'[v] = WithPage(v, answer)
        BY <1>0, <3>1 DEF ReadPage
      <4> QED
        BY <1>0, <4>1 DEF WithPage, Pages
    <3>2. CASE w # v
      BY <1>0, <1>7, <3>2 DEF ReadPage, StreamRefused, TimerFires
    <3>3. CASE w = v /\ (StreamRefused(v) \/ TimerFires(v))
      BY <1>0, <3>3 DEF StreamRefused, TimerFires, Pages
    <3> QED
      BY <1>7, <3>1, <3>2, <3>3
  <2> QED
    BY <1>a, <2>1, <2>2
<1>8. ASSUME NEW w \in Viewers, OpenPage(w) \/ ClosePage(w) PROVE Delivered(v)'
  <2>1. handler' = handler /\ got' = got /\ clients' = clients /\ (v \in gone => v \in gone')
    BY <1>8 DEF OpenPage, ClosePage, vars
  <2>2. CASE w # v
    <3>1. page'[v] = page[v]
      BY <1>0, <1>8, <2>2 DEF OpenPage, ClosePage
    <3> QED
      BY <1>a, <2>1, <3>1
  <2>3. CASE w = v
    <3>1. v \notin clients' \ gone'
      BY <1>0, <1>8, <2>1, <2>3 DEF OpenPage, ClosePage
    <3> QED
      BY <2>1, <3>1
  <2> QED
    BY <2>2, <2>3
<1>9. ASSUME NEW w \in Viewers \ {v}, Expire(w) \/ Receive(w) \/ StreamEnds(w) \/ StreamOpens(w)
      PROVE  Delivered(v)'
  <2>1. page'[v] = page[v]
    BY <1>0, <1>9 DEF Expire, Receive, StreamEnds, StreamOpens
  <2> QED
    BY <1>0, <1>2, <1>9, <2>1 DEF Expire, Receive, StreamEnds, StreamOpens
<1>10. CASE Expire(v)
  BY <1>5, <1>10 DEF Expire
<1>11. CASE Receive(v)
  <2>1. /\ handler[v] = "writing" /\ handler'[v] = "checking" /\ got' = got /\ gone' = gone /\ clients' = clients
    BY <1>0, <1>11 DEF Receive, Written, Move
  <2>2. CASE v \in gone
    BY <2>1, <2>2
  <2>3. CASE v \notin gone
    <3>1. page'[v].live = page[v].live \cup {got[v][Len(got[v])]}
      BY <1>0, <1>11, <2>3 DEF Receive, Pages
    <3> QED
      BY <2>1, <2>3, <3>1
  <2> QED
    BY <2>2, <2>3
<1>12. CASE StreamEnds(v) \/ StreamOpens(v)
  <2>1. handler'[v] \in {"closed", "registering"} /\ v \notin clients'
    BY <1>0, <1>12 DEF StreamEnds, StreamOpens, Unregister, Connect, Move
  <2> QED
    BY <2>1
<1> QED
  BY <1>1, <1>6, <1>7, <1>8, <1>9, <1>10, <1>11, <1>12 DEF GalleryNext

-----------------------------------------------------------------------------
(* Theorems                                                                *)

LEMMA GalleryInvariant == GallerySpec => [](BrokerInv /\ GalleryInv)
<1>1. GalleryInit => GalleryInv
  BY GalleryInitInv
<1>2. BrokerInv /\ GalleryInv /\ [GalleryNext]_galleryVars => GalleryInv'
  BY RowsNext, ReadsNext, SourcedNext, DeliveredNext DEF GalleryInv
<1>3. GallerySpec => []BrokerInv
  BY GalleryUsesTheBroker, BrokerInvariant, PTL
<1> QED
  BY <1>1, <1>2, <1>3, PTL DEF GallerySpec

\* The rows, the announcements and the pages are well-typed.
THEOREM GalleryTypeCorrect == GallerySpec => []GalleryTypeOK
<1>1. GalleryInv => GalleryTypeOK
  BY DEF GalleryInv, GalleryTypeOK, Sourced
<1> QED
  BY <1>1, GalleryInvariant, PTL

LEMMA NoGap == GalleryInv => PagingLeavesNoGap
  BY DEF GalleryInv, Reads, PagingLeavesNoGap

\* Reading to the end leaves nothing out, whatever the size of a page and
\* however many thumbnails arrive meanwhile (getThumbnails, GetThumbnails).
THEOREM PagesLeaveNoGap == GallerySpec => []PagingLeavesNoGap
  BY NoGap, GalleryInvariant, PTL

\* A thumbnail is shown twice only when others were recorded meanwhile.
THEOREM RepeatsComeFromArrivals == GallerySpec => []RepeatsNeedArrivals
<1>1. GalleryInv => RepeatsNeedArrivals
  <2> SUFFICES ASSUME GalleryInv, NEW v \in Viewers, NEW n \in Thumbnails, page[v].paged[n] > 1, ~Tied(n)
               PROVE  recorded > page[v].first
    BY DEF RepeatsNeedArrivals
  <2>0. page[v].paged[n] \in Nat
    BY BrokerAssumption DEF GalleryInv, Pages
  <2>1. page[v].first <= recorded /\ page[v].first # recorded
    BY <2>0 DEF GalleryInv, Reads
  <2>2. page[v].first \in Nat /\ recorded \in Nat
    BY BrokerAssumption DEF GalleryInv, Pages
  <2> QED
    BY <2>1, <2>2
<1> QED
  BY <1>1, GalleryInvariant, PTL

\* What was announced is on a page read to its end: the pages have what there
\* was before, and the broker has accounted for the rest.
THEOREM OnlyTheGapIsLost == GallerySpec => []NothingElseIsLost
<1>1. BrokerInv /\ GalleryInv => NothingElseIsLost
  <2> SUFFICES ASSUME BrokerInv, GalleryInv, NEW v \in Viewers, page[v].chain = "end", v \in clients \ gone,
                      NEW n \in 1..Settled(v)
               PROVE  \/ OnThePage(v, n)
                      \/ n <= page[v].first /\ Tied(n)
                      \/ n > page[v].first /\ (n <= from[v] \/ n \in skipped[v])
                      \/ handler[v] = "writing" /\ n = got[v][Len(got[v])]
    BY DEF NothingElseIsLost
  <2>1. /\ from[v] \in Nat /\ Settled(v) \in Nat
        /\ {got[v][k] : k \in 1..Len(got[v])} \cup skipped[v] = (from[v] + 1)..Settled(v)
    BY AccountTypes DEF Accounts
  <2>2. n <= from[v] \/ n \in skipped[v] \/ \E k \in 1..Len(got[v]) : n = got[v][k]
    BY <2>1
  <2>3. ASSUME NEW k \in 1..Len(got[v]), n = got[v][k]
        PROVE  OnThePage(v, n) \/ (handler[v] = "writing" /\ n = got[v][Len(got[v])])
    BY <2>3 DEF GalleryInv, Delivered, OnThePage
  <2>4. ASSUME n <= page[v].first PROVE OnThePage(v, n) \/ Tied(n)
    BY <2>1, <2>4, NoGap DEF PagingLeavesNoGap, OnThePage
  <2>5. page[v].first \in Nat
    BY BrokerAssumption DEF GalleryInv, Pages
  <2> QED
    BY <2>1, <2>2, <2>3, <2>4, <2>5
<1> QED
  BY <1>1, GalleryInvariant, PTL
=============================================================================
