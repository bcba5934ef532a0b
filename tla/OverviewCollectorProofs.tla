------------------------ MODULE OverviewCollectorProofs ------------------------
(***************************************************************************)
(* Of the collector, for every set of events and every order of the log:   *)
(* the pairing of web requests joins no response to the request of another *)
(* exchange as long as every response of its lane has its request there;   *)
(* the lists that are cut after every event, the samples of the analyzers  *)
(* and the longest events, are what sorting the whole log and cutting it   *)
(* once would give; the percentiles of every row are those of its values;  *)
(* and the books balance, tables, counters and samples accounting for the  *)
(* same events.                                                            *)
(***************************************************************************)
EXTENDS OverviewCollector, FiniteSetTheorems, SequenceTheorems, WellFoundedInduction, TLAPS

-------------------------------------------------------------------------------
(* Requests wait, matches join a request to a response, all from the log.   *)
Sorted ==
  /\ IsFiniteSet(pending)
  /\ consumed \subseteq WebEvents
  /\ \A r \in pending : r \in consumed /\ IsRequest(r)
  /\ matches \in Seq(WebEvents \X WebEvents)
  /\ \A m \in Range(matches) : m[2] \in consumed /\ IsResponse(m[2])

Unanswered(r) ==
  \A f \in consumed : ~(IsResponse(f) /\ f.exchange = r.exchange /\ Lane(f) = Lane(r))

(* On a lane without a stray response, a request waits until its response   *)
(* comes there.                                                             *)
AwaitsAnswer ==
  \A r \in consumed : IsRequest(r) /\ ~StrayOn(Lane(r)) /\ Unanswered(r) => r \in pending

PInv == Sorted /\ AwaitsAnswer /\ NeverGuessed

(* A list with one more entry holds that entry and those it held. *)
LEMMA RangeGrows ==
  ASSUME NEW S, NEW list \in Seq(S), NEW x
  PROVE  Range(Append(list, x)) = Range(list) \cup {x}
<1>1. Len(list) \in Nat /\ DOMAIN list = 1..Len(list)
  BY LenProperties
<1>2. /\ DOMAIN Append(list, x) = 1..(Len(list) + 1)
      /\ Append(list, x)[Len(list) + 1] = x
      /\ \A i \in 1..Len(list) : Append(list, x)[i] = list[i]
  BY <1>1
<1>3. \A i \in 1..(Len(list) + 1) : i \in 1..Len(list) \/ i = Len(list) + 1
  BY <1>1
<1>4. \A i \in 1..Len(list) : i \in 1..(Len(list) + 1)
  BY <1>1
<1>5. Len(list) + 1 \in 1..(Len(list) + 1)
  BY <1>1
<1> DEFINE longer == Append(list, x)
           n == Len(list)
<1> HIDE DEF longer, n
<1>6. Range(longer) = Range(list) \cup {x}
  BY <1>1, <1>2, <1>3, <1>4, <1>5 DEF Range, longer, n
<1>7. QED
  BY <1>6 DEF longer

(* An event has one kind. *)
LEMMA Kinds == \A e : /\ ~(IsRequest(e) /\ IsResponse(e))
                      /\ ~(IsRequest(e) /\ IsCache(e)) /\ ~(IsResponse(e) /\ IsCache(e))
  BY DEF IsRequest, IsResponse, IsCache

(* The events of an exchange are compatible. *)
LEMMA SameExchange ==
  \A e, f \in WebEvents : e.exchange = f.exchange => IdentityCompatible(e, f)
  BY WebAssumption

(* A stray response stays stray: its request can no longer be logged. *)
LEMMA StrayStays ==
  ASSUME NEW e \in WebEvents, MayCome(e), consumed' = consumed \cup {e}
  PROVE  \A l : StrayOn(l) => StrayOn(l)'
<1> TAKE l
<1> HAVE StrayOn(l)
<1>1. PICK f \in consumed : IsResponse(f) /\ Lane(f) = l /\ Stray(f)
  BY DEF StrayOn
<1>2. ~(IsRequest(e) /\ e.exchange = f.exchange /\ Lane(e) = Lane(f))
  BY <1>1, Kinds DEF MayCome
<1>3. Stray(f)'
  BY <1>1, <1>2 DEF Stray
<1> QED
  BY <1>1, <1>3 DEF StrayOn

(* On a lane without a stray response, a response is matched to its request.*)
LEMMA OwnRequest ==
  ASSUME PInv, NEW e \in WebEvents, MayCome(e), consumed' = consumed \cup {e},
         IsResponse(e), OnlyOne(MatchPending(e)), NEW r \in MatchPending(e),
         ~StrayOn(Lane(e))'
  PROVE  r.exchange = e.exchange
<1>1. PICK g \in consumed : IsRequest(g) /\ g.exchange = e.exchange /\ Lane(g) = Lane(e)
  <2>1. e \in consumed' /\ ~IsRequest(e)
    BY Kinds
  <2>2. ~Stray(e)'
    BY <2>1 DEF StrayOn
  <2> QED
    BY <2>1, <2>2 DEF Stray
<1>2. g \in WebEvents
  BY <1>1 DEF PInv, Sorted
<1>3. Unanswered(g)
  BY <1>1, Kinds DEF Unanswered, MayCome, IsResponse
<1>4. ~StrayOn(Lane(g))
  BY <1>1, StrayStays
<1>5. g \in MatchPending(e)
  BY <1>1, <1>2, <1>3, <1>4, SameExchange DEF PInv, AwaitsAnswer, MatchPending
<1>6. IsFiniteSet(MatchPending(e))
  BY FS_Subset DEF PInv, Sorted, MatchPending
<1>7. PICK x : MatchPending(e) = {x}
  BY <1>6, FS_Singleton DEF OnlyOne
<1> QED
  BY <1>1, <1>5, <1>7

(* An event of the web service keeps the invariant ... *)
LEMMA WebStep ==
  ASSUME PInv, NEW e \in WebEvents, MayCome(e), WebConsume(e)
  PROVE  PInv'
<1>1. consumed' = consumed \cup {e}
  BY DEF WebConsume
<1>2. \A l : StrayOn(l) => StrayOn(l)'
  BY <1>1, StrayStays
<1>3. ASSUME NEW r \in consumed, Unanswered(r)' PROVE Unanswered(r)
  BY <1>1, <1>3 DEF Unanswered
<1>4. CASE ConsumeRequest(e)
  <2>1. pending' = pending \cup {e} /\ matches' = matches /\ IsRequest(e)
    BY <1>4 DEF ConsumeRequest, UnchangedMatches
  <2>2. Sorted'
    BY <1>1, <2>1, FS_AddElement DEF PInv, Sorted
  <2>3. AwaitsAnswer'
    BY <1>1, <1>2, <1>3, <2>1 DEF PInv, AwaitsAnswer
  <2>4. NeverGuessed'
    BY <1>2, <2>1 DEF PInv, NeverGuessed
  <2> QED
    BY <2>2, <2>3, <2>4 DEF PInv
<1>5. CASE MatchResponse(e)
  <2>1. /\ IsResponse(e) /\ OnlyOne(MatchPending(e))
        /\ \E r \in MatchPending(e) : pending' = pending \ {r} /\ matches' = Append(matches, <<r, e>>)
    BY <1>5 DEF MatchResponse, RemovePending
  <2>2. PICK r \in MatchPending(e) : pending' = pending \ {r} /\ matches' = Append(matches, <<r, e>>)
    BY <2>1
  <2>3. r \in pending /\ r \in WebEvents /\ Lane(r) = Lane(e)
    BY <2>2 DEF MatchPending, PInv, Sorted
  <2>4. ~StrayOn(Lane(e))' => r.exchange = e.exchange
    BY <1>1, <2>1, <2>2, OwnRequest
  <2>5. /\ matches' \in Seq(WebEvents \X WebEvents)
        /\ Range(matches') = Range(matches) \cup {<<r, e>>}
    BY <2>2, <2>3, AppendProperties, RangeGrows DEF PInv, Sorted
  <2>6. Sorted'
    <3>1. IsFiniteSet(pending') /\ pending' \subseteq pending
      BY <2>2, FS_RemoveElement DEF PInv, Sorted
    <3>2. \A m \in Range(matches') : m[2] \in consumed' /\ IsResponse(m[2])
      BY <1>1, <2>1, <2>5 DEF PInv, Sorted
    <3> QED
      BY <1>1, <2>5, <3>1, <3>2 DEF PInv, Sorted
  <2>7. AwaitsAnswer'
    <3> SUFFICES ASSUME NEW s \in consumed', IsRequest(s), ~StrayOn(Lane(s))', Unanswered(s)'
                 PROVE  s \in pending'
      BY DEF AwaitsAnswer, IsRequest, Lane, TextOr, Has
    <3>1. s \in consumed
      BY <1>1, <2>1, Kinds
    <3>2. s \in pending
      BY <1>2, <1>3, <3>1 DEF PInv, AwaitsAnswer
    <3>3. s # r
      BY <1>1, <2>1, <2>3, <2>4 DEF Unanswered
    <3> QED
      BY <2>2, <3>2, <3>3
  <2>8. NeverGuessed'
    <3> SUFFICES ASSUME NEW m \in Range(matches'), ~StrayOn(Lane(m[2]))'
                 PROVE  m[1].exchange = m[2].exchange
      BY DEF NeverGuessed
    <3>1. CASE m \in Range(matches)
      BY <1>2, <3>1 DEF PInv, NeverGuessed
    <3>2. CASE m = <<r, e>>
      BY <2>4, <3>2
    <3> QED
      BY <2>5, <3>1, <3>2
  <2> QED
    BY <2>6, <2>7, <2>8 DEF PInv
<1>6. CASE OrphanResponse(e) \/ ConsumeCache(e)
  <2>1. pending' = pending /\ matches' = matches /\ ~IsRequest(e)
    BY <1>6, Kinds DEF OrphanResponse, ConsumeCache, UnchangedMatches
  <2>2. Sorted'
    BY <1>1, <2>1 DEF PInv, Sorted
  <2>3. AwaitsAnswer'
    BY <1>1, <1>2, <1>3, <2>1 DEF PInv, AwaitsAnswer
  <2>4. NeverGuessed'
    BY <1>2, <2>1 DEF PInv, NeverGuessed
  <2> QED
    BY <2>2, <2>3, <2>4 DEF PInv
<1> QED
  BY <1>4, <1>5, <1>6 DEF WebConsume

(* ... and so does everything that leaves these variables alone. *)
LEMMA OtherStep ==
  ASSUME PInv, UNCHANGED <<pending, consumed, matches>>
  PROVE  PInv'
  BY DEF PInv, Sorted, AwaitsAnswer, NeverGuessed, Unanswered, StrayOn, Stray

(* The log starts empty. *)
LEMMA InitPInv == Init => PInv
  BY FS_EmptySet, EmptySeq DEF Init, WebInit, PInv, Sorted, AwaitsAnswer, NeverGuessed, Range

(* Every step keeps the invariant. *)
LEMMA NextPInv == PInv /\ [Next]_vars => PInv'
<1> SUFFICES ASSUME PInv, [Next]_vars PROVE PInv'
  OBVIOUS
<1>1. CASE AddWebEvent
  BY <1>1, WebStep DEF AddWebEvent
<1>2. CASE AddOtherEvent
  BY <1>2, OtherStep DEF AddOtherEvent, WebIgnore, UnchangedMatches
<1>3. CASE UNCHANGED vars
  BY <1>3, OtherStep DEF vars, webVars
<1> QED
  BY <1>1, <1>2, <1>3 DEF Next

(* Interleaved traffic is never guessed at: whatever the configuration of   *)
(* the log, the identities and the interleaving of its events, a response is*)
(* only matched to the request of another exchange on a lane where some     *)
(* response is without its request, be it missing or in the previous file.  *)
THEOREM ResponsesNeverGuessed == Spec => []NeverGuessed
<1>1. Init => PInv
  BY InitPInv
<1>2. PInv /\ [Next]_vars => PInv'
  BY NextPInv
<1>3. PInv => NeverGuessed
  BY DEF PInv
<1> QED
  BY <1>1, <1>2, <1>3, PTL DEF Spec

-------------------------------------------------------------------------------
(* A sorting by the pairs R puts in order: which of two entries of a list    *)
(* comes first, the place an entry has, and the list in order.               *)
Ahead(list, R, j, i) == <<list[j], list[i]>> \in R \/ (<<list[i], list[j]>> \notin R /\ j < i)

PlaceOf(list, R, i) == 1 + Cardinality({j \in 1..Len(list) : Ahead(list, R, j, i)})

SortBy(list, R) == [m \in 1..Len(list) |-> list[CHOOSE i \in 1..Len(list) : PlaceOf(list, R, i) = m]]

(* R orders E but for ties: what is before one of two values that tie is     *)
(* before the other.                                                         *)
Orders(R, E) ==
  /\ \A a \in E : <<a, a>> \notin R
  /\ \A a, b, c \in E : <<a, b>> \in R /\ <<b, c>> \in R => <<a, c>> \in R
  /\ \A a, b, c \in E : <<a, c>> \in R => <<a, b>> \in R \/ <<b, c>> \in R

(* The entries of a list stand in one line, ... *)
LEMMA AheadIsOrder ==
  ASSUME NEW E, NEW R, Orders(R, E), NEW L \in Seq(E)
  PROVE  /\ \A i \in 1..Len(L) : ~Ahead(L, R, i, i)
         /\ \A i, j \in 1..Len(L) : i # j => Ahead(L, R, i, j) \/ Ahead(L, R, j, i)
         /\ \A i, j, k \in 1..Len(L) : Ahead(L, R, i, j) /\ Ahead(L, R, j, k) => Ahead(L, R, i, k)
<1>1. Len(L) \in Nat /\ \A i \in 1..Len(L) : L[i] \in E
  BY ElementOfSeq
<1>2. \A i \in 1..Len(L) : ~Ahead(L, R, i, i)
  BY <1>1 DEF Ahead, Orders
<1>3. \A i, j \in 1..Len(L) : i # j => Ahead(L, R, i, j) \/ Ahead(L, R, j, i)
  BY <1>1 DEF Ahead, Orders
<1>4. ASSUME NEW i \in 1..Len(L), NEW j \in 1..Len(L), NEW k \in 1..Len(L),
             Ahead(L, R, i, j), Ahead(L, R, j, k)
      PROVE  Ahead(L, R, i, k)
  <2>1. /\ \A a, b, c \in {L[i], L[j], L[k]} : <<a, b>> \in R /\ <<b, c>> \in R => <<a, c>> \in R
        /\ \A a, b, c \in {L[i], L[j], L[k]} : <<a, c>> \in R => <<a, b>> \in R \/ <<b, c>> \in R
    BY <1>1 DEF Orders
  <2>2. CASE <<L[i], L[j]>> \in R
    <3>1. CASE <<L[j], L[k]>> \in R
      BY <2>1, <2>2, <3>1 DEF Ahead
    <3>2. CASE <<L[j], L[k]>> \notin R
      BY <1>4, <2>1, <2>2, <3>2 DEF Ahead
    <3>3. QED
      BY <3>1, <3>2
  <2>3. CASE <<L[i], L[j]>> \notin R
    <3>1. <<L[j], L[i]>> \notin R /\ i < j
      BY <1>4, <2>3 DEF Ahead
    <3>2. CASE <<L[j], L[k]>> \in R
      BY <2>1, <3>1, <3>2 DEF Ahead
    <3>3. CASE <<L[j], L[k]>> \notin R
      <4>1. <<L[k], L[j]>> \notin R /\ j < k
        BY <1>4, <3>3 DEF Ahead
      <4>2. i < k
        BY <3>1, <4>1
      <4>3. <<L[k], L[i]>> \notin R
        BY <2>1, <3>1, <4>1
      <4>4. QED
        BY <4>2, <4>3 DEF Ahead
    <3>4. QED
      BY <3>2, <3>3
  <2>4. QED
    BY <2>2, <2>3
<1>5. QED
  BY <1>2, <1>3, <1>4

(* ... each at a place of its own, in the order of the places. *)
LEMMA PlacesInOrder ==
  ASSUME NEW E, NEW R, Orders(R, E), NEW L \in Seq(E)
  PROVE  /\ \A i \in 1..Len(L) : PlaceOf(L, R, i) \in 1..Len(L)
         /\ \A i, j \in 1..Len(L) : Ahead(L, R, i, j) <=> PlaceOf(L, R, i) < PlaceOf(L, R, j)
         /\ \A i, j \in 1..Len(L) : PlaceOf(L, R, i) = PlaceOf(L, R, j) => i = j
         /\ \A m \in 1..Len(L) : \E i \in 1..Len(L) : PlaceOf(L, R, i) = m
<1> DEFINE n == Len(L)
           D == 1..n
           Pre(i) == {j \in D : Ahead(L, R, j, i)}
<1>1. n \in Nat /\ IsFiniteSet(D) /\ Cardinality(D) = n
  <2>1. n \in Nat
    OBVIOUS
  <2>2. QED
    BY <2>1, FS_Interval
<1>2. \A i : PlaceOf(L, R, i) = 1 + Cardinality(Pre(i)) /\ Pre(i) \in SUBSET D
  BY DEF PlaceOf
<1>o. /\ \A i \in D : i \notin Pre(i)
      /\ \A i, j \in D : i # j => i \in Pre(j) \/ j \in Pre(i)
      /\ \A i, j \in D : i \in Pre(j) => Pre(i) \in SUBSET Pre(j)
      /\ \A i, j \in D : i \in Pre(j) <=> Ahead(L, R, i, j)
  BY AheadIsOrder
<1> HIDE DEF D, Pre
<1>3. \A i : IsFiniteSet(Pre(i)) /\ Cardinality(Pre(i)) \in Nat
  BY <1>1, <1>2, FS_Subset, FS_CardinalityType
<1>4. ASSUME NEW i \in D
      PROVE  PlaceOf(L, R, i) \in D
  <2>1. Cardinality(Pre(i)) <= n /\ Cardinality(Pre(i)) # n
    BY <1>1, <1>2, <1>o, FS_Subset
  <2>2. QED
    BY <1>1, <1>2, <1>3, <2>1 DEF D
<1>5. ASSUME NEW i \in D, NEW j \in D, i \in Pre(j)
      PROVE  PlaceOf(L, R, i) < PlaceOf(L, R, j)
  <2>1. /\ Cardinality(Pre(i)) <= Cardinality(Pre(j))
        /\ Cardinality(Pre(i)) # Cardinality(Pre(j))
    BY <1>3, <1>5, <1>o, FS_Subset
  <2>2. QED
    BY <1>2, <1>3, <2>1
<1>6. \A i, j \in D : i \in Pre(j) <=> PlaceOf(L, R, i) < PlaceOf(L, R, j)
  <2> TAKE i, j \in D
  <2>1. PlaceOf(L, R, i) \in Nat /\ PlaceOf(L, R, j) \in Nat
    BY <1>2, <1>3
  <2>2. i \notin Pre(j) => j \in Pre(i) \/ i = j
    BY <1>o
  <2>3. QED
    BY <1>5, <2>1, <2>2
<1>7. \A i, j \in D : PlaceOf(L, R, i) = PlaceOf(L, R, j) => i = j
  <2> TAKE i, j \in D
  <2>1. PlaceOf(L, R, i) \in Nat /\ PlaceOf(L, R, j) \in Nat
    BY <1>2, <1>3
  <2>2. QED
    BY <1>5, <1>o, <2>1
<1>8. \A m \in D : \E i \in D : PlaceOf(L, R, i) = m
  <2> DEFINE f == [i \in D |-> PlaceOf(L, R, i)]
  <2>1. f \in Injection(D, D)
    BY <1>4, <1>7 DEF Injection, IsInjective
  <2>2. f \in Surjection(D, D)
    <3> HIDE DEF f
    <3>1. QED
      BY <1>1, <2>1, FS_Injection
  <2>3. QED
    BY <2>2 DEF Surjection
<1>9. QED
  BY <1>4, <1>6, <1>7, <1>8, <1>o DEF D

(* The sorted list has every entry, at its place. *)
LEMMA SortByLook ==
  ASSUME NEW E, NEW R, Orders(R, E), NEW L \in Seq(E)
  PROVE  /\ Len(SortBy(L, R)) = Len(L) /\ SortBy(L, R) \in Seq(E)
         /\ \A i \in 1..Len(L) : SortBy(L, R)[PlaceOf(L, R, i)] = L[i]
<1> DEFINE n == Len(L)
           At(m) == CHOOSE i \in 1..n : PlaceOf(L, R, i) = m
<1>1. n \in Nat /\ \A i \in 1..n : L[i] \in E
  BY ElementOfSeq
<1>2. \A m \in 1..n : At(m) \in 1..n /\ PlaceOf(L, R, At(m)) = m
  BY PlacesInOrder
<1>3. \A i \in 1..n : At(PlaceOf(L, R, i)) = i
  BY <1>2, PlacesInOrder
<1>4. SortBy(L, R) = [m \in 1..n |-> L[At(m)]]
  BY DEF SortBy
<1> HIDE DEF At
<1>5. SortBy(L, R) \in [1..n -> E]
  BY <1>1, <1>2, <1>4
<1>6. SortBy(L, R) \in Seq(E) /\ Len(SortBy(L, R)) = n
  BY <1>1, <1>5
<1>7. \A i \in 1..n : SortBy(L, R)[PlaceOf(L, R, i)] = L[i]
  BY <1>3, <1>4, PlacesInOrder
<1>8. QED
  BY <1>6, <1>7

(* StableSort, written with R. *)
LEMMA PlacedIsSorted ==
  ASSUME NEW E, NEW R, Orders(R, E), NEW L \in Seq(E)
  PROVE  [m \in 1..Len(L) |-> (CHOOSE p \in {<<PlaceOf(L, R, i), L[i]>> : i \in 1..Len(L)} : p[1] = m)[2]]
           = SortBy(L, R)
<1> DEFINE n == Len(L)
           placed == {<<PlaceOf(L, R, i), L[i]>> : i \in 1..n}
<1>1. ASSUME NEW m \in 1..n
      PROVE  (CHOOSE p \in placed : p[1] = m)[2] = SortBy(L, R)[m]
  <2> DEFINE chosen == CHOOSE p \in placed : p[1] = m
  <2>1. PICK i \in 1..n : PlaceOf(L, R, i) = m
    BY PlacesInOrder
  <2>2. ASSUME NEW p \in placed, p[1] = m
        PROVE  p = <<m, L[i]>>
    <3>1. PICK j \in 1..n : p = <<PlaceOf(L, R, j), L[j]>>
      OBVIOUS
    <3>2. PlaceOf(L, R, j) = m
      BY <2>2, <3>1
    <3>3. j = i
      BY <2>1, <3>2, PlacesInOrder
    <3>4. QED
      BY <3>1, <3>2, <3>3
  <2>3. <<m, L[i]>> \in placed
    BY <2>1
  <2>4. chosen = <<m, L[i]>>
    BY <2>2, <2>3
  <2>5. SortBy(L, R)[m] = L[i]
    BY <2>1, SortByLook
  <2> HIDE DEF chosen
  <2>6. chosen[2] = SortBy(L, R)[m]
    BY <2>4, <2>5
  <2>7. QED
    BY <2>6 DEF chosen
<1>2. SortBy(L, R) = [m \in 1..n |-> SortBy(L, R)[m]]
  BY DEF SortBy
<1> HIDE DEF placed
<1>3. [m \in 1..n |-> (CHOOSE p \in placed : p[1] = m)[2]] = [m \in 1..n |-> SortBy(L, R)[m]]
  BY <1>1
<1>4. QED
  BY <1>2, <1>3 DEF placed

(* A sorted list is in order. *)
LEMMA SortByInOrder ==
  ASSUME NEW E, NEW R, Orders(R, E), NEW L \in Seq(E)
  PROVE  \A k, m \in 1..Len(L) : k < m => <<SortBy(L, R)[m], SortBy(L, R)[k]>> \notin R
<1> TAKE k, m \in 1..Len(L)
<1> HAVE k < m
<1>1. PICK i \in 1..Len(L) : PlaceOf(L, R, i) = k
  BY PlacesInOrder
<1>2. PICK j \in 1..Len(L) : PlaceOf(L, R, j) = m
  BY PlacesInOrder
<1>3. Ahead(L, R, i, j)
  BY <1>1, <1>2, PlacesInOrder
<1>4. SortBy(L, R)[k] = L[i] /\ SortBy(L, R)[m] = L[j]
  BY <1>1, <1>2, SortByLook
<1>5. ~Ahead(L, R, j, i)
  BY <1>1, <1>2, PlacesInOrder
<1>6. QED
  BY <1>4, <1>5 DEF Ahead

(* A list in order stays as it is. *)
LEMMA InOrderStays ==
  ASSUME NEW E, NEW R, Orders(R, E), NEW L \in Seq(E),
         \A k, m \in 1..Len(L) : k < m => <<L[m], L[k]>> \notin R
  PROVE  SortBy(L, R) = L
<1> DEFINE n == Len(L)
<1>1. n \in Nat /\ L = [m \in 1..n |-> L[m]]
  OBVIOUS
<1>2. ASSUME NEW i \in 1..n
      PROVE  PlaceOf(L, R, i) = i
  <2>1. \A j \in 1..n : Ahead(L, R, j, i) <=> j < i
    <3> TAKE j \in 1..n
    <3>1. CASE j < i
      BY <3>1 DEF Ahead
    <3>2. CASE i < j
      BY <3>2 DEF Ahead
    <3>3. CASE i = j
      BY <3>3, AheadIsOrder
    <3>4. QED
      BY <1>1, <3>1, <3>2, <3>3
  <2>2. {j \in 1..n : Ahead(L, R, j, i)} = 1..(i - 1)
    BY <1>1, <2>1
  <2>3. Cardinality(1..(i - 1)) = i - 1
    BY FS_Interval
  <2>4. PlaceOf(L, R, i) = 1 + (i - 1)
    BY <2>2, <2>3, Zenon DEF PlaceOf
  <2>5. QED
    BY <2>4
<1>3. \A i \in 1..n : SortBy(L, R)[i] = L[i]
  BY <1>2, SortByLook
<1>4. SortBy(L, R) = [m \in 1..n |-> SortBy(L, R)[m]]
  BY DEF SortBy
<1>5. QED
  BY <1>1, <1>3, <1>4

(* Where a further entry goes: behind those it is not before, and every      *)
(* entry it is before moves on by one place.                                 *)
LEMMA AppendPlaces ==
  ASSUME NEW E, NEW R, Orders(R, E), NEW L \in Seq(E), NEW x \in E
  PROVE  \E pos \in 0..Len(L) :
           /\ PlaceOf(Append(L, x), R, Len(L) + 1) = pos + 1
           /\ \A i \in 1..Len(L) : <<x, L[i]>> \notin R =>
                /\ PlaceOf(Append(L, x), R, i) = PlaceOf(L, R, i)
                /\ PlaceOf(L, R, i) <= pos
           /\ \A i \in 1..Len(L) : <<x, L[i]>> \in R =>
                /\ PlaceOf(Append(L, x), R, i) = PlaceOf(L, R, i) + 1
                /\ PlaceOf(L, R, i) > pos
<1> DEFINE n == Len(L)
           N == Append(L, x)
           Pre(i) == {j \in 1..n : Ahead(L, R, j, i)}
           New(i) == {j \in 1..(n + 1) : Ahead(N, R, j, i)}
           Passed == {j \in 1..n : <<x, L[j]>> \notin R}
           pos == Cardinality(Passed)
<1>1. /\ n \in Nat /\ Len(N) = n + 1 /\ N[n + 1] = x
      /\ \A i \in 1..n : N[i] = L[i] /\ L[i] \in E
  BY ElementOfSeq, AppendProperties
<1>2. IsFiniteSet(1..n) /\ Cardinality(1..n) = n
  <2>1. n \in Nat
    BY <1>1
  <2> HIDE DEF n
  <2>2. QED
    BY <2>1, FS_Interval
<1>3. /\ \A i : PlaceOf(L, R, i) = 1 + Cardinality(Pre(i)) /\ Pre(i) \in SUBSET (1..n)
      /\ \A i : PlaceOf(N, R, i) = 1 + Cardinality(New(i))
      /\ Passed \in SUBSET (1..n)
  BY <1>1 DEF PlaceOf
<1>4. /\ \A i : IsFiniteSet(Pre(i)) /\ Cardinality(Pre(i)) \in Nat
      /\ IsFiniteSet(Passed) /\ pos \in Nat /\ pos <= n
  <2>1. ASSUME NEW S \in SUBSET (1..n)
        PROVE  IsFiniteSet(S) /\ Cardinality(S) \in Nat /\ Cardinality(S) <= n
    BY <1>2, FS_Subset, FS_CardinalityType
  <2> HIDE DEF Pre, Passed
  <2>2. QED
    BY <1>3, <2>1
<1>5. \A a, b, c \in E : /\ <<a, b>> \in R => <<b, a>> \notin R
                         /\ <<a, c>> \in R => <<a, b>> \in R \/ <<b, c>> \in R
  BY DEF Orders
<1>6. ASSUME NEW i \in 1..n
      PROVE  \A j \in 1..n : Ahead(N, R, j, i) <=> Ahead(L, R, j, i)
  <2> TAKE j \in 1..n
  <2>1. N[i] = L[i] /\ N[j] = L[j]
    BY <1>1
  <2> HIDE DEF N
  <2>2. QED
    BY <2>1 DEF Ahead
<1>7. \A i \in 1..n : Ahead(N, R, n + 1, i) <=> <<x, L[i]>> \in R
  <2> TAKE i \in 1..n
  <2>1. N[i] = L[i] /\ N[n + 1] = x /\ ~(n + 1 < i)
    BY <1>1
  <2> HIDE DEF N
  <2>2. QED
    BY <2>1 DEF Ahead
<1>8. \A j \in 1..n : Ahead(N, R, j, n + 1) <=> <<x, L[j]>> \notin R
  <2> TAKE j \in 1..n
  <2>1. N[j] = L[j] /\ N[n + 1] = x /\ j < n + 1 /\ L[j] \in E
    BY <1>1
  <2>2. <<L[j], x>> \in R => <<x, L[j]>> \notin R
    BY <1>5, <2>1
  <2> HIDE DEF N
  <2>3. QED
    BY <2>1, <2>2 DEF Ahead
<1>9. ~Ahead(N, R, n + 1, n + 1)
  <2>1. N[n + 1] = x /\ <<x, x>> \notin R /\ ~(n + 1 < n + 1)
    BY <1>1 DEF Orders
  <2> HIDE DEF N
  <2>2. QED
    BY <2>1 DEF Ahead
<1>10. PlaceOf(N, R, n + 1) = pos + 1
  <2>1. \A j \in 1..(n + 1) : j \in 1..n \/ j = n + 1
    BY <1>1
  <2>2. New(n + 1) = Passed
    BY <1>8, <1>9, <2>1
  <2> HIDE DEF N, New, Passed
  <2>3. PlaceOf(N, R, n + 1) = 1 + pos
    BY <1>3, <2>2
  <2>4. QED
    BY <1>4, <2>3
<1>11. ASSUME NEW i \in 1..n, <<x, L[i]>> \notin R
       PROVE  PlaceOf(N, R, i) = PlaceOf(L, R, i) /\ PlaceOf(L, R, i) <= pos
  <2>1. \A j \in 1..(n + 1) : j \in 1..n \/ j = n + 1
    BY <1>1
  <2>2. New(i) = Pre(i)
    BY <1>6, <1>7, <1>11, <2>1
  <2>3. \A j \in Pre(i) : <<x, L[j]>> \notin R
    <3> TAKE j \in Pre(i)
    <3>1. L[i] \in E /\ L[j] \in E /\ Ahead(L, R, j, i)
      BY <1>1
    <3>2. <<L[i], L[j]>> \notin R
      BY <1>5, <3>1 DEF Ahead
    <3>3. QED
      BY <1>5, <1>11, <3>1, <3>2
  <2>4. i \notin Pre(i)
    BY AheadIsOrder
  <2>5. Pre(i) \cup {i} \in SUBSET Passed
    BY <1>11, <2>3
  <2> HIDE DEF N, New, Pre, Passed
  <2>6. Cardinality(Pre(i) \cup {i}) = Cardinality(Pre(i)) + 1
    BY <1>4, <2>4, FS_AddElement
  <2>7. Cardinality(Pre(i) \cup {i}) <= pos
    BY <1>4, <2>5, FS_Subset
  <2>8. QED
    BY <1>3, <1>4, <2>2, <2>6, <2>7
<1>12. ASSUME NEW i \in 1..n, <<x, L[i]>> \in R
       PROVE  PlaceOf(N, R, i) = PlaceOf(L, R, i) + 1 /\ PlaceOf(L, R, i) > pos
  <2>1. \A j \in 1..(n + 1) : j \in 1..n \/ j = n + 1
    BY <1>1
  <2>2. n + 1 \in 1..(n + 1) /\ n + 1 \notin 1..n /\ 1..n \subseteq 1..(n + 1)
    BY <1>1
  <2>3. New(i) = Pre(i) \cup {n + 1} /\ n + 1 \notin Pre(i)
    BY <1>6, <1>7, <1>12, <2>1, <2>2
  <2>4. \A j \in Passed : j \in Pre(i)
    <3> TAKE j \in Passed
    <3>1. L[i] \in E /\ L[j] \in E /\ j \in 1..n
      BY <1>1
    <3>2. <<L[j], L[i]>> \in R
      BY <1>5, <1>12, <3>1
    <3>3. QED
      BY <3>1, <3>2 DEF Ahead
  <2> HIDE DEF N, New, Pre, Passed
  <2>5. Cardinality(New(i)) = Cardinality(Pre(i)) + 1
    BY <1>4, <2>3, FS_AddElement
  <2>6. pos <= Cardinality(Pre(i))
    BY <1>4, <2>4, FS_Subset
  <2>7. PlaceOf(L, R, i) = 1 + Cardinality(Pre(i)) /\ PlaceOf(N, R, i) = 1 + Cardinality(New(i))
    BY <1>3
  <2>8. QED
    BY <1>4, <2>5, <2>6, <2>7
<1>13. pos \in 0..n
  BY <1>1, <1>4
<1> HIDE DEF N, pos
<1>14. QED
  BY <1>10, <1>11, <1>12, <1>13 DEF N

(* The sorted list gets the further entry in between. *)
LEMMA SortInserts ==
  ASSUME NEW E, NEW R, Orders(R, E), NEW L \in Seq(E), NEW x \in E
  PROVE  \E pos \in 0..Len(L) :
           /\ SortBy(Append(L, x), R)[pos + 1] = x
           /\ \A m \in 1..Len(L) : m <= pos =>
                /\ SortBy(Append(L, x), R)[m] = SortBy(L, R)[m]
                /\ <<x, SortBy(L, R)[m]>> \notin R
           /\ \A m \in 1..Len(L) : m > pos =>
                /\ SortBy(Append(L, x), R)[m + 1] = SortBy(L, R)[m]
                /\ <<x, SortBy(L, R)[m]>> \in R
<1> DEFINE n == Len(L)
           N == Append(L, x)
<1>1. /\ n \in Nat /\ Len(N) = n + 1 /\ N[n + 1] = x /\ N \in Seq(E)
      /\ \A i \in 1..n : N[i] = L[i] /\ i \in 1..(n + 1)
      /\ n + 1 \in 1..(n + 1)
  BY AppendProperties
<1>2. PICK pos \in 0..n :
        /\ PlaceOf(N, R, n + 1) = pos + 1
        /\ \A i \in 1..n : <<x, L[i]>> \notin R =>
             PlaceOf(N, R, i) = PlaceOf(L, R, i) /\ PlaceOf(L, R, i) <= pos
        /\ \A i \in 1..n : <<x, L[i]>> \in R =>
             PlaceOf(N, R, i) = PlaceOf(L, R, i) + 1 /\ PlaceOf(L, R, i) > pos
  BY AppendPlaces
<1> HIDE DEF N
<1>3. \A i \in 1..(n + 1) : SortBy(N, R)[PlaceOf(N, R, i)] = N[i]
  BY <1>1, SortByLook
<1>4. ASSUME NEW m \in 1..n
      PROVE  /\ m <= pos => SortBy(N, R)[m] = SortBy(L, R)[m] /\ <<x, SortBy(L, R)[m]>> \notin R
             /\ m > pos => SortBy(N, R)[m + 1] = SortBy(L, R)[m] /\ <<x, SortBy(L, R)[m]>> \in R
  <2>1. PICK i \in 1..n : PlaceOf(L, R, i) = m
    BY PlacesInOrder
  <2>2. SortBy(L, R)[m] = L[i] /\ N[i] = L[i] /\ SortBy(N, R)[PlaceOf(N, R, i)] = L[i]
    BY <1>1, <1>3, <2>1, SortByLook
  <2>3. m \in Nat /\ pos \in Nat
    BY <1>1
  <2>4. CASE <<x, L[i]>> \in R
    <3>1. PlaceOf(N, R, i) = m + 1 /\ m > pos
      BY <1>2, <2>1, <2>4
    <3>2. QED
      BY <2>2, <2>3, <2>4, <3>1
  <2>5. CASE <<x, L[i]>> \notin R
    <3>1. PlaceOf(N, R, i) = m /\ m <= pos
      BY <1>2, <2>1, <2>5
    <3>2. QED
      BY <2>2, <2>3, <2>5, <3>1
  <2>6. QED
    BY <2>4, <2>5
<1>5. SortBy(N, R)[pos + 1] = x
  BY <1>1, <1>2, <1>3
<1>6. QED
  BY <1>4, <1>5 DEF N

-------------------------------------------------------------------------------
(* A list of the best entries: of those of O, which come first, at most k.   *)
Chosen(L, O) == Cardinality({i \in 1..Len(L) : L[i] \in O})

Fewer(a, b) == IF a > b THEN b ELSE a

BestOfList(L, R, O, k) == [m \in 1..Fewer(Chosen(L, O), k) |-> SortBy(L, R)[m]]

ComeFirst(R, O, E) ==
  \A a, b \in E : /\ a \in O /\ b \notin O => <<a, b>> \in R
                  /\ a \notin O => <<a, b>> \notin R

(* The entries of O are the beginning of the sorted list. *)
LEMMA ChosenAreFirst ==
  ASSUME NEW E, NEW R, Orders(R, E), NEW L \in Seq(E), NEW O, ComeFirst(R, O, E)
  PROVE  /\ Chosen(L, O) \in 0..Len(L)
         /\ \A m \in 1..Len(L) : SortBy(L, R)[m] \in O <=> m <= Chosen(L, O)
<1> DEFINE n == Len(L)
           C == {i \in 1..n : L[i] \in O}
           Pre(i) == {j \in 1..n : Ahead(L, R, j, i)}
<1>1. /\ n \in Nat /\ IsFiniteSet(1..n) /\ Cardinality(1..n) = n
      /\ \A i \in 1..n : L[i] \in E
  <2>1. n \in Nat /\ \A i \in 1..n : L[i] \in E
    BY ElementOfSeq
  <2>2. n \in Nat
    BY <2>1
  <2> HIDE DEF n
  <2>3. IsFiniteSet(1..n) /\ Cardinality(1..n) = n
    BY <2>2, FS_Interval
  <2>4. QED
    BY <2>1, <2>3
<1>2. \A i : PlaceOf(L, R, i) = 1 + Cardinality(Pre(i)) /\ Pre(i) \in SUBSET (1..n)
  BY DEF PlaceOf
<1>3. /\ IsFiniteSet(C) /\ Cardinality(C) \in Nat /\ Cardinality(C) <= n
      /\ \A i : IsFiniteSet(Pre(i)) /\ Cardinality(Pre(i)) \in Nat
  <2>1. ASSUME NEW S \in SUBSET (1..n)
        PROVE  IsFiniteSet(S) /\ Cardinality(S) \in Nat /\ Cardinality(S) <= n
    BY <1>1, FS_Subset, FS_CardinalityType
  <2>2. C \in SUBSET (1..n)
    OBVIOUS
  <2> HIDE DEF C, Pre
  <2>3. QED
    BY <1>2, <2>1, <2>2
<1>4. Chosen(L, O) = Cardinality(C)
  BY DEF Chosen
<1>5. ASSUME NEW i \in 1..n, L[i] \in O
      PROVE  PlaceOf(L, R, i) <= Cardinality(C)
  <2>1. i \notin Pre(i)
    BY AheadIsOrder
  <2>2. ASSUME NEW j \in Pre(i)
        PROVE  L[j] \in O
    <3>1. L[i] \in E /\ L[j] \in E /\ Ahead(L, R, j, i)
      BY <1>1
    <3>2. L[j] \notin O => <<L[i], L[j]>> \in R /\ <<L[j], L[i]>> \notin R
      BY <1>5, <3>1 DEF ComeFirst
    <3>3. QED
      BY <3>1, <3>2 DEF Ahead
  <2>3. Pre(i) \cup {i} \in SUBSET C
    BY <1>5, <2>2
  <2> HIDE DEF C, Pre
  <2>4. Cardinality(Pre(i) \cup {i}) = Cardinality(Pre(i)) + 1
    BY <1>3, <2>1, FS_AddElement
  <2>5. Cardinality(Pre(i) \cup {i}) <= Cardinality(C)
    BY <1>3, <2>3, FS_Subset
  <2>6. PlaceOf(L, R, i) = 1 + Cardinality(Pre(i))
    BY <1>2
  <2>7. QED
    BY <1>3, <2>4, <2>5, <2>6
<1>6. ASSUME NEW i \in 1..n, L[i] \notin O
      PROVE  PlaceOf(L, R, i) > Cardinality(C)
  <2>1. ASSUME NEW j \in C
        PROVE  j \in Pre(i)
    <3>1. L[i] \in E /\ L[j] \in E /\ L[j] \in O /\ j \in 1..n
      BY <1>1
    <3>2. <<L[j], L[i]>> \in R
      BY <1>6, <3>1 DEF ComeFirst
    <3>3. QED
      BY <3>1, <3>2 DEF Ahead
  <2> HIDE DEF C, Pre
  <2>2. Cardinality(C) <= Cardinality(Pre(i))
    BY <1>3, <2>1, FS_Subset
  <2>3. PlaceOf(L, R, i) = 1 + Cardinality(Pre(i))
    BY <1>2
  <2>4. QED
    BY <1>3, <2>2, <2>3
<1> HIDE DEF C
<1>7. ASSUME NEW m \in 1..n
      PROVE  SortBy(L, R)[m] \in O <=> m <= Chosen(L, O)
  <2>1. PICK i \in 1..n : PlaceOf(L, R, i) = m
    BY PlacesInOrder
  <2>2. SortBy(L, R)[m] = L[i]
    BY <2>1, SortByLook
  <2>3. m \in Nat
    BY <1>1
  <2>4. QED
    BY <1>3, <1>4, <1>5, <1>6, <2>1, <2>2, <2>3
<1>8. Chosen(L, O) \in 0..n
  BY <1>1, <1>3, <1>4
<1>9. QED
  BY <1>7, <1>8

(* The best entries are entries of the list, in order, ... *)
LEMMA BestOfListIs ==
  ASSUME NEW E, NEW R, Orders(R, E), NEW L \in Seq(E), NEW O, ComeFirst(R, O, E), NEW k \in Nat
  PROVE  /\ BestOfList(L, R, O, k) \in Seq(E)
         /\ Len(BestOfList(L, R, O, k)) = Fewer(Chosen(L, O), k)
         /\ Fewer(Chosen(L, O), k) \in 0..Len(L)
         /\ \A m \in 1..Fewer(Chosen(L, O), k) : BestOfList(L, R, O, k)[m] = SortBy(L, R)[m]
         /\ SortBy(BestOfList(L, R, O, k), R) = BestOfList(L, R, O, k)
<1> DEFINE q == Fewer(Chosen(L, O), k)
           M == BestOfList(L, R, O, k)
<1>1. Len(L) \in Nat /\ Chosen(L, O) \in 0..Len(L)
  BY ChosenAreFirst
<1>2. q \in 0..Len(L)
  BY <1>1 DEF Fewer
<1>3. SortBy(L, R) \in Seq(E) /\ Len(SortBy(L, R)) = Len(L)
  BY SortByLook
<1> HIDE DEF q
<1>4. M = [m \in 1..q |-> SortBy(L, R)[m]]
  BY DEF BestOfList, q
<1> HIDE DEF M
<1>5. \A m \in 1..q : M[m] = SortBy(L, R)[m] /\ m \in 1..Len(L) /\ M[m] \in E
  <2>1. \A m \in 1..q : m \in 1..Len(L)
    BY <1>1, <1>2
  <2>2. \A m \in 1..Len(L) : SortBy(L, R)[m] \in E
    BY <1>1, <1>3, ElementOfSeq
  <2>3. QED
    BY <1>4, <2>1, <2>2
<1>6. M \in [1..q -> E]
  BY <1>4, <1>5
<1>7. M \in Seq(E) /\ Len(M) = q
  BY <1>2, <1>6
<1>8. SortBy(M, R) = M
  <2>1. \A i, m \in 1..Len(M) : i < m => <<M[m], M[i]>> \notin R
    BY <1>5, <1>7, SortByInOrder
  <2>2. QED
    BY <1>7, <2>1, InOrderStays
<1>9. QED
  BY <1>2, <1>5, <1>7, <1>8 DEF M, q

(* ... and of O. *)
LEMMA BestAreChosen ==
  ASSUME NEW E, NEW R, Orders(R, E), NEW L \in Seq(E), NEW O, ComeFirst(R, O, E), NEW k \in Nat
  PROVE  /\ BestOfList(L, R, O, k) \in Seq(E)
         /\ \A m \in 1..Len(BestOfList(L, R, O, k)) : BestOfList(L, R, O, k)[m] \in O
<1>0. /\ BestOfList(L, R, O, k) \in Seq(E)
      /\ Len(BestOfList(L, R, O, k)) = Fewer(Chosen(L, O), k)
      /\ Fewer(Chosen(L, O), k) \in 0..Len(L)
      /\ \A m \in 1..Fewer(Chosen(L, O), k) : BestOfList(L, R, O, k)[m] = SortBy(L, R)[m]
      /\ SortBy(BestOfList(L, R, O, k), R) = BestOfList(L, R, O, k)
  BY BestOfListIs, Zenon
<1> DEFINE q == Fewer(Chosen(L, O), k)
           M == BestOfList(L, R, O, k)
<1>1. /\ M \in Seq(E) /\ Len(M) = q /\ q \in 0..Len(L)
      /\ \A m \in 1..q : M[m] = SortBy(L, R)[m]
      /\ SortBy(M, R) = M
  BY <1>0, Zenon
<1>2. /\ Chosen(L, O) \in 0..Len(L)
      /\ \A m \in 1..Len(L) : SortBy(L, R)[m] \in O <=> m <= Chosen(L, O)
  BY ChosenAreFirst
<1>3. \A m \in 1..q : m \in 1..Len(L) /\ m <= Chosen(L, O)
  BY <1>2 DEF Fewer
<1> HIDE DEF M, q
<1>4. M \in Seq(E) /\ \A m \in 1..Len(M) : M[m] \in O
  BY <1>1, <1>2, <1>3
<1>5. QED
  BY <1>4 DEF M

(* An entry that is not of O changes nothing in the list of the best. *)
LEMMA KeepWithout ==
  ASSUME NEW E, NEW R, Orders(R, E), NEW L \in Seq(E), NEW O, ComeFirst(R, O, E), NEW k \in Nat,
         NEW x \in E, x \notin O
  PROVE  BestOfList(Append(L, x), R, O, k) = BestOfList(L, R, O, k)
<1> DEFINE n == Len(L)
           N == Append(L, x)
           q == Fewer(Chosen(L, O), k)
<1>1. /\ n \in Nat /\ Len(N) = n + 1 /\ N[n + 1] = x /\ N \in Seq(E)
      /\ \A i \in 1..n : N[i] = L[i]
  BY AppendProperties
<1>3. PICK pos \in 0..n :
        /\ SortBy(N, R)[pos + 1] = x
        /\ \A m \in 1..n : m <= pos =>
             SortBy(N, R)[m] = SortBy(L, R)[m] /\ <<x, SortBy(L, R)[m]>> \notin R
        /\ \A m \in 1..n : m > pos =>
             SortBy(N, R)[m + 1] = SortBy(L, R)[m] /\ <<x, SortBy(L, R)[m]>> \in R
  BY SortInserts
<1> HIDE DEF N
<1>2. Chosen(N, O) = Chosen(L, O)
  <2>1. \A i \in 1..(n + 1) : i \in 1..n \/ i = n + 1
    BY <1>1
  <2>2. \A i \in 1..n : i \in 1..(n + 1)
    BY <1>1
  <2>3. {i \in 1..Len(N) : N[i] \in O} = {i \in 1..n : L[i] \in O}
    BY <1>1, <2>1, <2>2
  <2>4. QED
    BY <2>3 DEF Chosen
<1>4. q \in 0..n /\ \A m \in 1..q : m <= Chosen(L, O)
  BY <1>1, ChosenAreFirst DEF Fewer
<1>5. ASSUME NEW m \in 1..q
      PROVE  SortBy(N, R)[m] = SortBy(L, R)[m]
  <2>1. m \in 1..n /\ SortBy(L, R)[m] \in O
    BY <1>1, <1>4, ChosenAreFirst
  <2>2. SortBy(L, R)[m] \in E
    BY <1>1, <2>1, SortByLook, ElementOfSeq
  <2>3. <<x, SortBy(L, R)[m]>> \notin R
    BY <2>2 DEF ComeFirst
  <2>4. QED
    BY <1>1, <1>3, <2>1, <2>3
<1> HIDE DEF q
<1>6. BestOfList(L, R, O, k) = [m \in 1..q |-> SortBy(L, R)[m]]
  BY DEF BestOfList, q
<1>7. BestOfList(N, R, O, k) = [m \in 1..q |-> SortBy(N, R)[m]]
  BY <1>2 DEF BestOfList, q
<1>8. QED
  BY <1>5, <1>6, <1>7 DEF N

(* A list in order gets a further entry in between. *)
LEMMA InsertsInOrder ==
  ASSUME NEW E, NEW R, Orders(R, E), NEW M \in Seq(E), NEW x \in E
  PROVE  SortBy(M, R) = M =>
           \E at \in 0..Len(M) :
             /\ SortBy(Append(M, x), R)[at + 1] = x
             /\ \A m \in 1..Len(M) : m <= at =>
                  SortBy(Append(M, x), R)[m] = M[m] /\ <<x, M[m]>> \notin R
             /\ \A m \in 1..Len(M) : m > at =>
                  SortBy(Append(M, x), R)[m + 1] = M[m] /\ <<x, M[m]>> \in R
<1> DEFINE N == SortBy(Append(M, x), R)
<1>1. PICK at \in 0..Len(M) :
        /\ N[at + 1] = x
        /\ \A m \in 1..Len(M) : m <= at => N[m] = SortBy(M, R)[m] /\ <<x, SortBy(M, R)[m]>> \notin R
        /\ \A m \in 1..Len(M) : m > at => N[m + 1] = SortBy(M, R)[m] /\ <<x, SortBy(M, R)[m]>> \in R
  BY SortInserts
<1> HIDE DEF N
<1> HAVE SortBy(M, R) = M
<1>2. /\ N[at + 1] = x
      /\ \A m \in 1..Len(M) : m <= at => N[m] = M[m] /\ <<x, M[m]>> \notin R
      /\ \A m \in 1..Len(M) : m > at => N[m + 1] = M[m] /\ <<x, M[m]>> \in R
  BY <1>1
<1>3. QED
  BY <1>2 DEF N

(* One of O is sorted in, and the list is cut. *)
LEMMA KeepBest ==
  ASSUME NEW E, NEW R, Orders(R, E), NEW L \in Seq(E), NEW O, ComeFirst(R, O, E), NEW k \in Nat,
         NEW x \in E, x \in O
  PROVE  BestOfList(Append(L, x), R, O, k) = Cut(SortBy(Append(BestOfList(L, R, O, k), x), R), k)
<1>0. /\ BestOfList(L, R, O, k) \in Seq(E)
      /\ Len(BestOfList(L, R, O, k)) = Fewer(Chosen(L, O), k)
      /\ Fewer(Chosen(L, O), k) \in 0..Len(L)
      /\ \A m \in 1..Fewer(Chosen(L, O), k) : BestOfList(L, R, O, k)[m] = SortBy(L, R)[m]
      /\ SortBy(BestOfList(L, R, O, k), R) = BestOfList(L, R, O, k)
  BY BestOfListIs, Zenon
<1> DEFINE n == Len(L)
           N == Append(L, x)
           c == Chosen(L, O)
           q == Fewer(c, k)
           M == BestOfList(L, R, O, k)
           P == SortBy(Append(M, x), R)
           l == Fewer(c + 1, k)
<1>1. /\ n \in Nat /\ Len(N) = n + 1 /\ N[n + 1] = x /\ N \in Seq(E)
      /\ \A i \in 1..n : N[i] = L[i]
  BY AppendProperties
<1>2. c \in 0..n /\ \A m \in 1..n : SortBy(L, R)[m] \in O <=> m <= c
  BY ChosenAreFirst
<1>3. /\ M \in Seq(E) /\ Len(M) = q /\ q \in 0..n
      /\ \A m \in 1..q : M[m] = SortBy(L, R)[m]
      /\ SortBy(M, R) = M
  BY <1>0, Zenon
<1>n. k \in Nat /\ c \in Nat /\ q \in Nat /\ l \in Nat
  BY <1>1, <1>2 DEF Fewer
<1>q. /\ c >= k => q = k /\ l = k
      /\ c < k => q = c /\ l = c + 1
      /\ q <= c /\ q <= k
  BY <1>n DEF Fewer
<1>p. Append(M, x) \in Seq(E) /\ Len(Append(M, x)) = q + 1
  BY <1>3, <1>n, AppendProperties
<1>4. PICK pos \in 0..n :
        /\ SortBy(N, R)[pos + 1] = x
        /\ \A m \in 1..n : m <= pos =>
             SortBy(N, R)[m] = SortBy(L, R)[m] /\ <<x, SortBy(L, R)[m]>> \notin R
        /\ \A m \in 1..n : m > pos =>
             SortBy(N, R)[m + 1] = SortBy(L, R)[m] /\ <<x, SortBy(L, R)[m]>> \in R
  BY SortInserts
<1> HIDE DEF N, M, c, q, l
<1>5. P \in Seq(E) /\ Len(P) = q + 1
  BY <1>p, SortByLook
<1>6. PICK at \in 0..q :
        /\ P[at + 1] = x
        /\ \A m \in 1..q : m <= at => P[m] = M[m] /\ <<x, M[m]>> \notin R
        /\ \A m \in 1..q : m > at => P[m + 1] = M[m] /\ <<x, M[m]>> \in R
  <2>1. M \in Seq(E) /\ SortBy(M, R) = M
    BY <1>3
  <2>2. \E at \in 0..Len(M) :
          /\ SortBy(Append(M, x), R)[at + 1] = x
          /\ \A m \in 1..Len(M) : m <= at =>
               SortBy(Append(M, x), R)[m] = M[m] /\ <<x, M[m]>> \notin R
          /\ \A m \in 1..Len(M) : m > at =>
               SortBy(Append(M, x), R)[m + 1] = M[m] /\ <<x, M[m]>> \in R
    BY <1>5, <2>1, InsertsInOrder
  <2>3. QED
    BY <1>3, <2>2
<1> HIDE DEF P
<1>7. pos <= c
  <2>1. SUFFICES ASSUME pos > c
                 PROVE  FALSE
    BY <1>1, <1>n
  <2>2. c + 1 \in 1..n /\ c + 1 <= pos /\ ~(c + 1 <= c)
    BY <1>1, <1>n, <2>1
  <2>3. SortBy(L, R)[c + 1] \notin O /\ <<x, SortBy(L, R)[c + 1]>> \notin R
    BY <1>2, <1>4, <2>2
  <2>4. SortBy(L, R)[c + 1] \in E
    BY <1>1, <2>2, SortByLook, ElementOfSeq
  <2>5. QED
    BY <2>3, <2>4 DEF ComeFirst
<1>8. \A m \in 1..q : m <= pos <=> m <= at
  <2> TAKE m \in 1..q
  <2>1. m \in 1..n /\ M[m] = SortBy(L, R)[m]
    BY <1>1, <1>3, <1>n
  <2>2. m \in Nat /\ pos \in Nat /\ at \in Nat
    BY <1>1, <1>n
  <2>3. m <= pos <=> <<x, SortBy(L, R)[m]>> \notin R
    BY <1>4, <2>1, <2>2
  <2>4. m <= at <=> <<x, M[m]>> \notin R
    BY <1>6, <2>2
  <2>5. QED
    BY <2>1, <2>3, <2>4
<1>9. pos \in Nat /\ at \in Nat /\ at <= q /\ at <= pos /\ (at < q => pos = at)
  <2>1. pos \in Nat /\ at \in Nat /\ at <= q
    BY <1>1, <1>n
  <2>2. at >= 1 => at \in 1..q
    BY <1>n, <2>1
  <2>3. at < q => at + 1 \in 1..q
    BY <1>n, <2>1
  <2>4. at <= pos
    BY <1>8, <2>1, <2>2
  <2>5. at < q => ~(at + 1 <= pos)
    BY <1>8, <2>1, <2>3
  <2>6. QED
    BY <2>1, <2>4, <2>5
<1>10. ASSUME NEW m \in 1..l
       PROVE  P[m] = SortBy(N, R)[m]
  <2>0. m \in Nat /\ m >= 1 /\ m <= q + 1
    BY <1>n, <1>q
  <2>1. CASE m <= at
    <3>1. m \in 1..q /\ m \in 1..n /\ m <= pos
      BY <1>1, <1>3, <1>9, <1>n, <2>0, <2>1
    <3>2. P[m] = M[m] /\ M[m] = SortBy(L, R)[m]
      BY <1>3, <1>6, <2>1, <3>1
    <3>3. QED
      BY <1>4, <3>1, <3>2
  <2>2. CASE m = at + 1
    <3>1. pos = at
      <4>1. CASE at < q
        BY <1>9, <4>1
      <4>2. CASE at = q
        <5>1. q = c
          BY <1>n, <1>q, <2>0, <2>2, <4>2
        <5>2. QED
          BY <1>7, <1>9, <1>n, <4>2, <5>1
      <4>3. QED
        BY <1>9, <1>n, <4>1, <4>2
    <3>2. QED
      BY <1>4, <1>6, <2>2, <3>1
  <2>3. CASE m > at + 1
    <3> DEFINE i == m - 1
    <3>1. i \in 1..q /\ i \in 1..n /\ i > at /\ m = i + 1 /\ at < q
      BY <1>1, <1>3, <1>9, <1>n, <2>0, <2>3
    <3>2. i > pos
      BY <1>9, <3>1
    <3> HIDE DEF i
    <3>3. P[i + 1] = M[i] /\ M[i] = SortBy(L, R)[i]
      BY <1>3, <1>6, <3>1
    <3>4. SortBy(N, R)[i + 1] = SortBy(L, R)[i]
      BY <1>4, <3>1, <3>2
    <3>5. QED
      BY <3>1, <3>3, <3>4
  <2>4. QED
    BY <1>9, <2>0, <2>1, <2>2, <2>3
<1>11. Chosen(N, O) = c + 1
  <2> DEFINE C == {i \in 1..n : L[i] \in O}
  <2>1. \A i \in 1..(n + 1) : i \in 1..n \/ i = n + 1
    BY <1>1
  <2>2. n + 1 \in 1..(n + 1) /\ n + 1 \notin 1..n /\ \A i \in 1..n : i \in 1..(n + 1)
    BY <1>1
  <2>3. {i \in 1..Len(N) : N[i] \in O} = C \cup {n + 1} /\ n + 1 \notin C
    BY <1>1, <2>1, <2>2
  <2>4. c = Cardinality(C) /\ C \in SUBSET (1..n)
    BY DEF Chosen, c
  <2>5. IsFiniteSet(1..n)
    BY <1>1, FS_Interval
  <2> HIDE DEF C
  <2>6. IsFiniteSet(C)
    BY <2>4, <2>5, FS_Subset
  <2>7. Cardinality(C \cup {n + 1}) = Cardinality(C) + 1
    BY <2>3, <2>6, FS_AddElement
  <2>8. Chosen(N, O) = Cardinality(C \cup {n + 1})
    BY <2>3 DEF Chosen
  <2>9. QED
    BY <2>4, <2>7, <2>8
<1>12. BestOfList(N, R, O, k) = [m \in 1..l |-> SortBy(N, R)[m]]
  BY <1>11 DEF BestOfList, l
<1>13. Cut(P, k) = [m \in 1..l |-> P[m]]
  <2>1. CASE c >= k
    <3>1. q = k /\ l = k /\ Len(P) > k
      BY <1>5, <1>n, <1>q, <2>1
    <3>2. Cut(P, k) = SubSeq(P, 1, k)
      BY <3>1 DEF Cut
    <3>3. SubSeq(P, 1, k) = [m \in 1..k |-> P[m]]
      <4>1. 1..(k - 1 + 1) = 1..k /\ \A m \in 1..k : 1 + m - 1 = m
        BY <1>n
      <4>2. QED
        BY <1>5, <1>n, <3>1, <4>1
    <3>4. QED
      BY <3>1, <3>2, <3>3
  <2>2. CASE c < k
    <3>1. l = Len(P) /\ ~(Len(P) > k)
      BY <1>5, <1>n, <1>q, <2>2
    <3>2. Cut(P, k) = P
      BY <3>1 DEF Cut
    <3>3. P = [m \in 1..Len(P) |-> P[m]]
      BY <1>5
    <3>4. QED
      BY <3>1, <3>2, <3>3
  <2>3. QED
    BY <1>n, <2>1, <2>2
<1>14. Cut(P, k) = BestOfList(N, R, O, k)
  BY <1>10, <1>12, <1>13
<1>15. QED
  BY <1>14 DEF M, N, P

(* The best of a list and one more, sorted and cut, are the best of the     *)
(* longer list, and all of them are chosen.                                 *)
LEMMA BestOfMore ==
  ASSUME NEW E, NEW R, Orders(R, E), NEW L \in Seq(E), NEW O, ComeFirst(R, O, E), NEW k \in Nat,
         NEW M, M = BestOfList(L, R, O, k), NEW x \in E, x \in O
  PROVE  /\ BestOfList(Append(L, x), R, O, k) = Cut(SortBy(Append(M, x), R), k)
         /\ Append(M, x) \in Seq(E)
         /\ \A i \in 1..Len(Append(M, x)) : Append(M, x)[i] \in E /\ Append(M, x)[i] \in O
<1>1. BestOfList(Append(L, x), R, O, k) = Cut(SortBy(Append(BestOfList(L, R, O, k), x), R), k)
  BY KeepBest
<1>2. BestOfList(L, R, O, k) \in Seq(E)
  BY BestAreChosen
<1>3. \A m \in 1..Len(BestOfList(L, R, O, k)) : BestOfList(L, R, O, k)[m] \in O
  BY BestAreChosen
<1>4. M \in Seq(E) /\ \A m \in 1..Len(M) : M[m] \in O
  BY <1>2, <1>3
<1>5. /\ Append(M, x) \in Seq(E) /\ Len(Append(M, x)) = Len(M) + 1 /\ Append(M, x)[Len(M) + 1] = x
      /\ \A i \in 1..Len(M) : Append(M, x)[i] = M[i]
  BY <1>4, AppendProperties
<1>6. \A i \in 1..(Len(M) + 1) : i \in 1..Len(M) \/ i = Len(M) + 1
  BY <1>4
<1>7. \A i \in 1..Len(M) : M[i] \in E
  BY <1>4, ElementOfSeq
<1>8. \A i \in 1..Len(Append(M, x)) : Append(M, x)[i] \in E /\ Append(M, x)[i] \in O
  BY <1>4, <1>5, <1>6, <1>7
<1>9. QED
  BY <1>1, <1>5, <1>8

(* A list that is cut is its beginning, ... *)
LEMMA CutIs ==
  ASSUME NEW E, NEW S \in Seq(E), NEW k \in Nat
  PROVE  Cut(S, k) = [m \in 1..Fewer(Len(S), k) |-> S[m]]
<1>1. Len(S) \in Nat /\ S = [m \in 1..Len(S) |-> S[m]]
  BY LenProperties
<1>2. CASE Len(S) > k
  <2>1. 1..(k - 1 + 1) = 1..k /\ \A m \in 1..k : 1 + m - 1 = m
    OBVIOUS
  <2>2. SubSeq(S, 1, k) = [m \in 1..k |-> S[m]]
    BY <1>1, <1>2, <2>1
  <2>3. QED
    BY <1>2, <2>2 DEF Cut, Fewer
<1>3. CASE ~(Len(S) > k)
  BY <1>1, <1>3 DEF Cut, Fewer
<1>4. QED
  BY <1>2, <1>3

(* ... also of what was a beginning already. *)
LEMMA CutOfBeginning ==
  ASSUME NEW E, NEW S \in Seq(E), NEW c \in 0..Len(S), NEW k \in Nat
  PROVE  Cut(SubSeq(S, 1, c), k) = [m \in 1..Fewer(c, k) |-> S[m]]
<1> DEFINE B == SubSeq(S, 1, c)
<1>1. Len(S) \in Nat /\ c \in Nat
  BY LenProperties
<1>2. B \in Seq(E) /\ B = [m \in 1..c |-> S[m]] /\ Len(B) = c
  <2>1. 1..(c - 1 + 1) = 1..c /\ \A m \in 1..c : 1 + m - 1 = m
    BY <1>1
  <2>2. \A i \in 1..c : i \in 1..Len(S)
    BY <1>1
  <2>3. B = [m \in 1..c |-> S[m]]
    BY <1>1, <2>1
  <2>4. \A i \in 1..c : S[i] \in E
    BY <2>2, ElementOfSeq
  <2>5. B \in [1..c -> E]
    BY <2>3, <2>4
  <2>6. QED
    BY <1>1, <2>3, <2>5
<1> HIDE DEF B
<1>3. Cut(B, k) = [m \in 1..Fewer(c, k) |-> B[m]]
  <2>1. B \in Seq(E) /\ Len(B) = c
    BY <1>2
  <2>2. Cut(B, k) = [m \in 1..Fewer(Len(B), k) |-> B[m]]
    BY <2>1, CutIs, Zenon
  <2>3. QED
    BY <2>1, <2>2, Zenon
<1>4. \A m \in 1..Fewer(c, k) : m \in 1..c
  BY <1>1 DEF Fewer
<1>5. \A m \in 1..Fewer(c, k) : B[m] = S[m]
  BY <1>2, <1>4
<1>6. QED
  BY <1>3, <1>5 DEF B

-------------------------------------------------------------------------------
(* The orders as pairs of events: the one of the longest events, and for each*)
(* list of samples the one of SamplesAreTheBest.                             *)
Events == UNION Configurations

Better == {p \in Events \X Events : BetterRawEvent(p[1], p[2])}
Of(list) == {e \in Events : Offered(e, list)}
InList(list, a, b) == Offered(a, list) /\ (Offered(b, list) => LessIn(list, a, b))
Before(list) == {p \in Events \X Events : InList(list, p[1], p[2])}

(* What the comparisons read of an event is a number. *)
LEMMA EventNumbers ==
  \A e \in Events : e.micros \in Int /\ e.at \in Int /\ e.raw \in Int /\ e.origin \in Int
  BY EventAssumption DEF Events

(* betterRawEvent orders the events but for ties, ... *)
LEMMA BetterOrders == Orders(Better, Events)
<1>1. \A a, b : <<a, b>> \in Better <=> a \in Events /\ b \in Events /\ BetterRawEvent(a, b)
  BY DEF Better
<1> HIDE DEF Better
<1>2. \A a \in Events : <<a, a>> \notin Better
  BY <1>1, EventNumbers DEF BetterRawEvent
<1>3. \A a, b, c \in Events : <<a, b>> \in Better /\ <<b, c>> \in Better => <<a, c>> \in Better
  BY <1>1, EventNumbers DEF BetterRawEvent
<1>4. \A a, b, c \in Events : <<a, c>> \in Better => <<a, b>> \in Better \/ <<b, c>> \in Better
  BY <1>1, EventNumbers DEF BetterRawEvent
<1>5. QED
  BY <1>2, <1>3, <1>4 DEF Orders

(* ... and so do the comparisons of the samples. *)
LEMMA LessInOrders ==
  ASSUME NEW list \in Lists
  PROVE  /\ \A a \in Events : ~LessIn(list, a, a)
         /\ \A a, b, c \in Events : LessIn(list, a, b) /\ LessIn(list, b, c) => LessIn(list, a, c)
         /\ \A a, b, c \in Events : LessIn(list, a, c) => LessIn(list, a, b) \/ LessIn(list, b, c)
<1>1. CASE list \in ErrorLists
  <2>1. \A a, b : LessIn(list, a, b) <=> ErrorLess(a, b)
    BY <1>1 DEF LessIn
  <2>2. \A a \in Events : ~ErrorLess(a, a)
    BY EventNumbers DEF ErrorLess
  <2>3. \A a, b, c \in Events : ErrorLess(a, b) /\ ErrorLess(b, c) => ErrorLess(a, c)
    BY EventNumbers DEF ErrorLess
  <2>4. \A a, b, c \in Events : ErrorLess(a, c) => ErrorLess(a, b) \/ ErrorLess(b, c)
    BY EventNumbers DEF ErrorLess
  <2>5. QED
    BY <2>1, <2>2, <2>3, <2>4
<1>2. CASE list \notin ErrorLists
  <2>1. \A a, b : LessIn(list, a, b) <=> SlowLess(a, b)
    BY <1>2 DEF LessIn
  <2>2. \A a \in Events : ~SlowLess(a, a)
    BY EventNumbers DEF SlowLess
  <2>3. \A a, b, c \in Events : SlowLess(a, b) /\ SlowLess(b, c) => SlowLess(a, c)
    BY EventNumbers DEF SlowLess
  <2>4. \A a, b, c \in Events : SlowLess(a, c) => SlowLess(a, b) \/ SlowLess(b, c)
    BY EventNumbers DEF SlowLess
  <2>5. QED
    BY <2>1, <2>2, <2>3, <2>4
<1>3. QED
  BY <1>1, <1>2

(* ... also with what a list does not take behind what it takes. *)
LEMMA BeforeOrders ==
  ASSUME NEW list \in Lists
  PROVE  Orders(Before(list), Events) /\ ComeFirst(Before(list), Of(list), Events)
<1>1. \A a, b \in Events : <<a, b>> \in Before(list) <=> InList(list, a, b)
  BY DEF Before
<1> HIDE DEF Before
<1>2. \A a \in Events : <<a, a>> \notin Before(list)
  BY <1>1, LessInOrders DEF InList
<1>3. \A a, b, c \in Events : <<a, b>> \in Before(list) /\ <<b, c>> \in Before(list) =>
                              <<a, c>> \in Before(list)
  BY <1>1, LessInOrders DEF InList
<1>4. \A a, b, c \in Events : <<a, c>> \in Before(list) =>
                              <<a, b>> \in Before(list) \/ <<b, c>> \in Before(list)
  BY <1>1, LessInOrders DEF InList
<1>5. \A a, b \in Events : /\ a \in Of(list) /\ b \notin Of(list) => <<a, b>> \in Before(list)
                           /\ a \notin Of(list) => <<a, b>> \notin Before(list)
  BY <1>1 DEF Of, InList
<1>6. QED
  BY <1>2, <1>3, <1>4, <1>5 DEF Orders, ComeFirst

(* Sorting by a comparison of the code is sorting by its pairs: the slowest  *)
(* events, ...                                                               *)
LEMMA SlowSort ==
  ASSUME NEW E, NEW R, Orders(R, E), NEW L \in Seq(E),
         \A i, j \in 1..Len(L) : SlowLess(L[i], L[j]) <=> <<L[i], L[j]>> \in R
  PROVE  StableSort(L, SlowLess) = SortBy(L, R)
<1> DEFINE n == Len(L)
           Place(i) == 1 + Cardinality({j \in 1..n :
                         SlowLess(L[j], L[i]) \/ (~SlowLess(L[i], L[j]) /\ j < i)})
           placed == {<<Place(i), L[i]>> : i \in 1..n}
<1>1. ASSUME NEW i \in 1..n
      PROVE  Place(i) = PlaceOf(L, R, i)
  BY Zenon DEF PlaceOf, Ahead
<1>2. StableSort(L, SlowLess) = [m \in 1..n |-> (CHOOSE p \in placed : p[1] = m)[2]]
  BY DEF StableSort
<1> HIDE DEF Place
<1>3. placed = {<<PlaceOf(L, R, i), L[i]>> : i \in 1..n}
  BY <1>1
<1> HIDE DEF placed
<1>4. QED
  BY <1>2, <1>3, PlacedIsSorted

(* ... the errors, ... *)
LEMMA ErrorSort ==
  ASSUME NEW E, NEW R, Orders(R, E), NEW L \in Seq(E),
         \A i, j \in 1..Len(L) : ErrorLess(L[i], L[j]) <=> <<L[i], L[j]>> \in R
  PROVE  StableSort(L, ErrorLess) = SortBy(L, R)
<1> DEFINE n == Len(L)
           Place(i) == 1 + Cardinality({j \in 1..n :
                         ErrorLess(L[j], L[i]) \/ (~ErrorLess(L[i], L[j]) /\ j < i)})
           placed == {<<Place(i), L[i]>> : i \in 1..n}
<1>1. ASSUME NEW i \in 1..n
      PROVE  Place(i) = PlaceOf(L, R, i)
  BY Zenon DEF PlaceOf, Ahead
<1>2. StableSort(L, ErrorLess) = [m \in 1..n |-> (CHOOSE p \in placed : p[1] = m)[2]]
  BY DEF StableSort
<1> HIDE DEF Place
<1>3. placed = {<<PlaceOf(L, R, i), L[i]>> : i \in 1..n}
  BY <1>1
<1> HIDE DEF placed
<1>4. QED
  BY <1>2, <1>3, PlacedIsSorted

(* ... the longest events ... *)
LEMMA BetterSort ==
  ASSUME NEW E, NEW R, Orders(R, E), NEW L \in Seq(E),
         \A i, j \in 1..Len(L) : BetterRawEvent(L[i], L[j]) <=> <<L[i], L[j]>> \in R
  PROVE  StableSort(L, BetterRawEvent) = SortBy(L, R)
<1> DEFINE n == Len(L)
           Place(i) == 1 + Cardinality({j \in 1..n :
                         BetterRawEvent(L[j], L[i]) \/ (~BetterRawEvent(L[i], L[j]) /\ j < i)})
           placed == {<<Place(i), L[i]>> : i \in 1..n}
<1>1. ASSUME NEW i \in 1..n
      PROVE  Place(i) = PlaceOf(L, R, i)
  BY Zenon DEF PlaceOf, Ahead
<1>2. StableSort(L, BetterRawEvent) = [m \in 1..n |-> (CHOOSE p \in placed : p[1] = m)[2]]
  BY DEF StableSort
<1> HIDE DEF Place
<1>3. placed = {<<PlaceOf(L, R, i), L[i]>> : i \in 1..n}
  BY <1>1
<1> HIDE DEF placed
<1>4. QED
  BY <1>2, <1>3, PlacedIsSorted

(* ... and the items of TopN. *)
LEMMA ItemSort ==
  ASSUME NEW E, NEW R, Orders(R, E), NEW L \in Seq(E),
         \A i, j \in 1..Len(L) : Less(L[i], L[j]) <=> <<L[i], L[j]>> \in R
  PROVE  StableSort(L, Less) = SortBy(L, R)
<1> DEFINE n == Len(L)
           Place(i) == 1 + Cardinality({j \in 1..n :
                         Less(L[j], L[i]) \/ (~Less(L[i], L[j]) /\ j < i)})
           placed == {<<Place(i), L[i]>> : i \in 1..n}
<1>1. ASSUME NEW i \in 1..n
      PROVE  Place(i) = PlaceOf(L, R, i)
  BY Zenon DEF PlaceOf, Ahead
<1>2. StableSort(L, Less) = [m \in 1..n |-> (CHOOSE p \in placed : p[1] = m)[2]]
  BY DEF StableSort
<1> HIDE DEF Place
<1>3. placed = {<<PlaceOf(L, R, i), L[i]>> : i \in 1..n}
  BY <1>1
<1> HIDE DEF placed
<1>4. QED
  BY <1>2, <1>3, PlacedIsSorted

-------------------------------------------------------------------------------
(* The samples of a list as a function of the log. *)
Logged ==
  /\ logged \in Configurations
  /\ log \in Seq(Events)

SamplesInv ==
  /\ DOMAIN samples = Lists
  /\ \A list \in Lists : samples[list] = BestOfList(log, Before(list), Of(list), SampleLimit)

(* A list takes a further event as KeepBest says: all its samples are events*)
(* it takes, and of those the code's comparison is the order.               *)
LEMMA KeepsBest ==
  ASSUME NEW list \in Lists, log \in Seq(Events), SamplesInv,
         NEW e \in Events, Offered(e, list)
  PROVE  KeptIn(list, e) = BestOfList(Append(log, e), Before(list), Of(list), SampleLimit)
<1> DEFINE M == samples[list]
           N == Append(M, e)
           R == Before(list)
           O == Of(list)
<1>1. Orders(R, Events) /\ ComeFirst(R, O, Events) /\ SampleLimit \in Nat /\ e \in O
  BY BeforeOrders, CountersAssumption DEF Of
<1>2. M = BestOfList(log, R, O, SampleLimit)
  BY DEF SamplesInv
<1>3. /\ BestOfList(Append(log, e), R, O, SampleLimit) = Cut(SortBy(N, R), SampleLimit)
      /\ N \in Seq(Events) /\ Len(N) \in Nat
      /\ \A i \in 1..Len(N) : N[i] \in Events /\ Offered(N[i], list)
  <2>1. \A x \in O : Offered(x, list)
    BY DEF Of
  <2> HIDE DEF R, O, M
  <2>2. /\ BestOfList(Append(log, e), R, O, SampleLimit) = Cut(SortBy(Append(M, e), R), SampleLimit)
        /\ Append(M, e) \in Seq(Events)
        /\ \A i \in 1..Len(Append(M, e)) : Append(M, e)[i] \in Events /\ Append(M, e)[i] \in O
    BY <1>1, <1>2, BestOfMore
  <2>3. QED
    BY <2>1, <2>2, LenProperties
<1> HIDE DEF M, N
<1>4. \A i, j \in 1..Len(N) : <<N[i], N[j]>> \in R <=> LessIn(list, N[i], N[j])
  BY <1>3 DEF Before, InList
<1> HIDE DEF R
<1>5. CASE list \in ErrorLists
  <2>1. StableSort(N, ErrorLess) = SortBy(N, R)
    BY <1>1, <1>3, <1>4, <1>5, ErrorSort DEF LessIn
  <2>2. KeptIn(list, e) = Cut(StableSort(N, ErrorLess), SampleLimit)
    BY <1>5 DEF KeptIn, KeepError, N, M
  <2>3. QED
    BY <1>3, <2>1, <2>2 DEF R, O
<1>6. CASE list \notin ErrorLists
  <2>1. StableSort(N, SlowLess) = SortBy(N, R)
    BY <1>1, <1>3, <1>4, <1>6, SlowSort DEF LessIn
  <2>2. KeptIn(list, e) = Cut(StableSort(N, SlowLess), SampleLimit)
    BY <1>6 DEF KeptIn, KeepSlow, N, M
  <2>3. QED
    BY <1>3, <2>1, <2>2 DEF R, O
<1>7. QED
  BY <1>5, <1>6

(* An event keeps every list what it should be, ... *)
LEMMA SamplesStep ==
  ASSUME log \in Seq(Events), SamplesInv, NEW e \in Events, CountEvent(e)
  PROVE  SamplesInv'
<1>1. /\ samples' = [list \in Lists |-> IF Offered(e, list) THEN KeptIn(list, e) ELSE samples[list]]
      /\ log' = Append(log, e)
  BY DEF CountEvent
<1>2. DOMAIN samples' = Lists
  BY <1>1
<1>3. ASSUME NEW list \in Lists
      PROVE  samples'[list] = BestOfList(log', Before(list), Of(list), SampleLimit)
  <2>1. CASE Offered(e, list)
    <3>1. samples'[list] = KeptIn(list, e)
      BY <1>1, <2>1
    <3>2. QED
      BY <1>1, <2>1, <3>1, KeepsBest
  <2>2. CASE ~Offered(e, list)
    <3>1. samples'[list] = BestOfList(log, Before(list), Of(list), SampleLimit)
      BY <1>1, <2>2 DEF SamplesInv
    <3>2. e \notin Of(list) /\ SampleLimit \in Nat
      BY <2>2, CountersAssumption DEF Of
    <3>3. QED
      BY <1>1, <3>1, <3>2, KeepWithout, BeforeOrders
  <2>3. QED
    BY <2>1, <2>2
<1>4. QED
  BY <1>2, <1>3 DEF SamplesInv

(* ... which is what sorting the log and cutting it once gives. *)
LEMMA SamplesFollow ==
  ASSUME log \in Seq(Events), SamplesInv
  PROVE  SamplesAreTheBest
<1> SUFFICES ASSUME NEW list \in Lists
             PROVE  LET First(a, b) == Offered(a, list) /\ (Offered(b, list) => LessIn(list, a, b))
                        offered == Cardinality({i \in DOMAIN log : Offered(log[i], list)})
                    IN  samples[list] = Cut(SubSeq(StableSort(log, First), 1, offered), SampleLimit)
  BY DEF SamplesAreTheBest
<1> DEFINE First(a, b) == Offered(a, list) /\ (Offered(b, list) => LessIn(list, a, b))
           offered == Cardinality({i \in DOMAIN log : Offered(log[i], list)})
           R == Before(list)
           S == SortBy(log, R)
           c == Chosen(log, Of(list))
           k == SampleLimit
<1>1. Orders(R, Events) /\ ComeFirst(R, Of(list), Events) /\ k \in Nat
  BY BeforeOrders, CountersAssumption
<1>2. Len(log) \in Nat /\ \A i \in 1..Len(log) : log[i] \in Events
  BY ElementOfSeq
<1>3. StableSort(log, First) = S
  <2>1. \A i, j \in 1..Len(log) : InList(list, log[i], log[j]) <=> <<log[i], log[j]>> \in R
    BY <1>2 DEF Before
  <2> HIDE DEF R
  <2> DEFINE n == Len(log)
             Place(i) == 1 + Cardinality({j \in 1..n :
                           First(log[j], log[i]) \/ (~First(log[i], log[j]) /\ j < i)})
             placed == {<<Place(i), log[i]>> : i \in 1..n}
  <2>2. \A a, b : First(a, b) <=> InList(list, a, b)
    BY DEF InList
  <2>3. StableSort(log, First) = [m \in 1..n |-> (CHOOSE p \in placed : p[1] = m)[2]]
    BY DEF StableSort
  <2> HIDE DEF First
  <2>4. ASSUME NEW i \in 1..n
        PROVE  Place(i) = PlaceOf(log, R, i)
    <3>1. {j \in 1..n : First(log[j], log[i]) \/ (~First(log[i], log[j]) /\ j < i)}
            = {j \in 1..n : Ahead(log, R, j, i)}
      BY <2>1, <2>2 DEF Ahead
    <3>2. QED
      BY <3>1, Zenon DEF PlaceOf
  <2> HIDE DEF Place
  <2>5. placed = {<<PlaceOf(log, R, i), log[i]>> : i \in 1..n}
    BY <2>4
  <2> HIDE DEF placed
  <2>6. [m \in 1..n |-> (CHOOSE p \in {<<PlaceOf(log, R, i), log[i]>> : i \in 1..n} : p[1] = m)[2]]
          = SortBy(log, R)
    BY <1>1, PlacedIsSorted
  <2>7. [m \in 1..n |-> (CHOOSE p \in placed : p[1] = m)[2]] = S
    BY <2>5, <2>6
  <2>8. QED
    BY <2>3, <2>7, Zenon
<1>4. offered = c
  <2>1. \A i \in 1..Len(log) : Offered(log[i], list) <=> log[i] \in Of(list)
    BY <1>2 DEF Of
  <2>2. {i \in DOMAIN log : Offered(log[i], list)} = {i \in 1..Len(log) : log[i] \in Of(list)}
    BY <2>1
  <2>3. QED
    BY <2>2, Zenon DEF Chosen
<1>5. c \in 0..Len(log) /\ S \in Seq(Events) /\ Len(S) = Len(log)
  BY <1>1, ChosenAreFirst, SortByLook
<1>6. samples[list] = [m \in 1..Fewer(c, k) |-> S[m]]
  BY DEF SamplesInv, BestOfList
<1> HIDE DEF First, offered, S, c, k
<1>7. Cut(SubSeq(S, 1, c), k) = [m \in 1..Fewer(c, k) |-> S[m]]
  <2>1. S \in Seq(Events) /\ c \in 0..Len(S) /\ k \in Nat
    BY <1>1, <1>5
  <2>2. QED
    BY <2>1, CutOfBeginning, Zenon
<1>8. samples[list] = Cut(SubSeq(StableSort(log, First), 1, offered), k)
  BY <1>3, <1>4, <1>6, <1>7
<1>9. QED
  BY <1>8 DEF First, offered, k

-------------------------------------------------------------------------------
Items == [value : Events, order : Nat]

(* The items are the entries of the log whose place is among the first TopN.*)
TopOf(items, entries) ==
  /\ items \in Seq(Items)
  /\ Len(items) = Fewer(Len(entries), TopN)
  /\ \A i \in 1..Len(items) :
       /\ items[i].order + 1 \in 1..Len(entries)
       /\ items[i].value = entries[items[i].order + 1]
       /\ PlaceOf(entries, Better, items[i].order + 1) <= TopN
  /\ \A i, j \in 1..Len(items) : items[i].order = items[j].order => i = j
  /\ \A k \in 1..Len(entries) : PlaceOf(entries, Better, k) <= TopN =>
       \E i \in 1..Len(items) : items[i].order + 1 = k

ItemsBefore == {p \in Items \X Items : Less(p[1], p[2])}

(* Items are in order as their events are, then by their position. *)
LEMMA ItemsOrder == Orders(ItemsBefore, Items)
<1>1. \A a, b \in Items : <<a, b>> \in ItemsBefore <=> Less(a, b)
  BY DEF ItemsBefore
<1>2. \A a \in Items : a.value \in Events /\ a.order \in Nat
  BY DEF Items
<1>3. \A a, b \in Events : BetterRawEvent(a, b) <=> <<a, b>> \in Better
  BY DEF Better
<1>4. /\ \A a \in Events : ~BetterRawEvent(a, a)
      /\ \A a, b, c \in Events : BetterRawEvent(a, b) /\ BetterRawEvent(b, c) => BetterRawEvent(a, c)
      /\ \A a, b, c \in Events : BetterRawEvent(a, c) => BetterRawEvent(a, b) \/ BetterRawEvent(b, c)
  BY <1>3, BetterOrders DEF Orders
<1>5. \A a \in Items : ~Less(a, a)
  BY <1>2, <1>4 DEF Less
<1>6. ASSUME NEW a \in Items, NEW b \in Items, NEW c \in Items, Less(a, b), Less(b, c)
      PROVE  Less(a, c)
  BY <1>2, <1>4, <1>6 DEF Less
<1>7. ASSUME NEW a \in Items, NEW b \in Items, NEW c \in Items, Less(a, c)
      PROVE  Less(a, b) \/ Less(b, c)
  BY <1>2, <1>4, <1>7 DEF Less
<1> HIDE DEF ItemsBefore
<1>8. QED
  BY <1>1, <1>5, <1>6, <1>7 DEF Orders

(* An item is before another when its entry is before the other's. *)
LEMMA LessIsAhead ==
  ASSUME NEW L \in Seq(Events), NEW T, TopOf(T, L), NEW i \in 1..Len(T), NEW j \in 1..Len(T)
  PROVE  Less(T[i], T[j]) <=> Ahead(L, Better, T[i].order + 1, T[j].order + 1)
<1>1. \A k \in {i, j} : /\ T[k] \in Items /\ T[k].order \in Nat
                        /\ T[k].order + 1 \in 1..Len(L)
                        /\ T[k].value = L[T[k].order + 1]
  <2>1. T \in Seq(Items)
    BY DEF TopOf
  <2> TAKE k \in {i, j}
  <2>2. k \in 1..Len(T) /\ T[k] \in Items
    BY <2>1, ElementOfSeq
  <2>3. T[k].order \in Nat
    BY <2>2 DEF Items
  <2>4. T[k].order + 1 \in 1..Len(L) /\ T[k].value = L[T[k].order + 1]
    BY <2>2 DEF TopOf
  <2>5. QED
    BY <2>2, <2>3, <2>4
<1>2. \A k \in {i, j} : T[k].value \in Events
  BY <1>1 DEF Items
<1>3. \A a, b \in {i, j} : BetterRawEvent(T[a].value, T[b].value)
                            <=> <<L[T[a].order + 1], L[T[b].order + 1]>> \in Better
  BY <1>1, <1>2 DEF Better
<1>4. T[i].order < T[j].order <=> T[i].order + 1 < T[j].order + 1
  BY <1>1
<1>5. QED
  BY <1>3, <1>4 DEF Less, Ahead

(* The one that gives way is the last of them. *)
LEMMA WorstIsLast ==
  ASSUME NEW L \in Seq(Events), NEW T, TopOf(T, L), Len(T) = TopN, TopN > 0
  PROVE  Worst(T) \in 1..Len(T) /\ PlaceOf(L, Better, T[Worst(T)].order + 1) = TopN
<1> DEFINE Place(i) == PlaceOf(L, Better, T[i].order + 1)
<1>1. /\ TopN \in Nat /\ Len(L) \in Nat /\ Len(T) = Fewer(Len(L), TopN)
      /\ Orders(Better, Events)
      /\ T \in Seq(Items)
  BY CountersAssumption, BetterOrders DEF TopOf
<1>2. TopN \in 1..Len(L)
  BY <1>1 DEF Fewer
<1>3. PICK k \in 1..Len(L) : PlaceOf(L, Better, k) = TopN
  BY <1>1, <1>2, PlacesInOrder
<1>4. PICK w \in 1..Len(T) : T[w].order + 1 = k
  BY <1>1, <1>3 DEF TopOf
<1>5. Place(w) = TopN
  BY <1>3, <1>4
<1>6. \A i \in 1..Len(T) : /\ T[i].order \in Nat /\ T[i].order + 1 \in 1..Len(L)
                           /\ Place(i) \in Nat /\ Place(i) <= TopN
  <2> TAKE i \in 1..Len(T)
  <2>1. T[i] \in Items
    BY <1>1, ElementOfSeq
  <2>2. T[i].order \in Nat /\ T[i].order + 1 \in 1..Len(L) /\ Place(i) <= TopN
    BY <2>1 DEF TopOf, Items
  <2>3. Place(i) \in 1..Len(L)
    BY <1>1, <2>2, PlacesInOrder
  <2>4. QED
    BY <2>2, <2>3
<1>7. \A i, j \in 1..Len(T) : Less(T[i], T[j]) <=> Place(i) < Place(j)
  <2> TAKE i, j \in 1..Len(T)
  <2>1. Less(T[i], T[j]) <=> Ahead(L, Better, T[i].order + 1, T[j].order + 1)
    BY LessIsAhead
  <2>2. QED
    BY <1>1, <1>6, <2>1, PlacesInOrder
<1>8. \A i, j \in 1..Len(T) : Place(i) = Place(j) => i = j
  <2> TAKE i, j \in 1..Len(T)
  <2> HAVE Place(i) = Place(j)
  <2> DEFINE a == T[i].order + 1
             b == T[j].order + 1
  <2>0. a \in 1..Len(L) /\ b \in 1..Len(L) /\ PlaceOf(L, Better, a) = PlaceOf(L, Better, b)
    BY <1>6
  <2> HIDE DEF a, b
  <2>a. a = b
    BY <1>1, <2>0, PlacesInOrder
  <2>1. T[i].order + 1 = T[j].order + 1
    BY <2>a DEF a, b
  <2>2. T[i].order = T[j].order
    BY <1>6, <2>1
  <2>3. QED
    BY <2>2 DEF TopOf
<1> HIDE DEF Place
<1>9. \A j \in 1..Len(T) : j # w => Less(T[j], T[w])
  <2> TAKE j \in 1..Len(T)
  <2> HAVE j # w
  <2>1. Place(j) # TopN /\ Place(j) \in Nat /\ Place(j) <= TopN
    BY <1>5, <1>6, <1>8
  <2>2. QED
    BY <1>1, <1>5, <1>7, <2>1
<1>10. \A i \in 1..Len(T) : (\A j \in 1..Len(T) : j # i => Less(T[j], T[i])) => i = w
  <2> TAKE i \in 1..Len(T)
  <2> HAVE \A j \in 1..Len(T) : j # i => Less(T[j], T[i])
  <2>1. CASE i # w
    <3>1. Place(w) < Place(i) /\ Place(i) <= TopN /\ Place(i) \in Nat
      BY <1>6, <1>7, <2>1
    <3>2. TopN \in Nat /\ TopN < Place(i) /\ Place(i) <= TopN
      BY <1>1, <1>5, <3>1
    <3>3. QED
      BY <3>1, <3>2
  <2>2. QED
    BY <2>1
<1>11. Worst(T) = w
  BY <1>9, <1>10, Zenon DEF Worst
<1>12. QED
  BY <1>5, <1>11 DEF Place

(* A further entry is taken when its place is among the first TopN, and the *)
(* item that leaves is the one it moves out of them.                        *)
LEMMA TopStep ==
  ASSUME NEW L \in Seq(Events), NEW T, TopOf(T, L), NEW e \in Events
  PROVE  TopOf(TopAdd(T, [value |-> e, order |-> Len(L)]), Append(L, e))
<1> DEFINE n == Len(L)
           N == Append(L, e)
           x == [value |-> e, order |-> n]
           l == Len(T)
           old(k) == PlaceOf(L, Better, k)
           new(k) == PlaceOf(N, Better, k)
           o(i) == T[i].order + 1
<1>1. /\ n \in Nat /\ Len(N) = n + 1 /\ N[n + 1] = e /\ N \in Seq(Events)
      /\ \A i \in 1..n : N[i] = L[i]
  BY AppendProperties
<1>2. T \in Seq(Items) /\ l \in Nat /\ l = Fewer(n, TopN) /\ x \in Items
  BY <1>1 DEF TopOf, Items
<1>3. TopN \in Nat /\ Orders(Better, Events)
  BY CountersAssumption, BetterOrders
<1>4. \A i \in 1..l : /\ T[i] \in Items /\ T[i].order \in Nat
                      /\ o(i) \in 1..n /\ T[i].value = L[o(i)] /\ old(o(i)) <= TopN
  <2>1. \A i \in 1..l : T[i] \in Items
    BY <1>2, ElementOfSeq
  <2>2. \A i \in 1..l : T[i].order \in Nat
    BY <2>1 DEF Items
  <2>3. QED
    BY <2>1, <2>2 DEF TopOf
<1>5. \A i, j \in 1..l : T[i].order = T[j].order => i = j
  BY DEF TopOf
<1>6. \A k \in 1..n : old(k) <= TopN => \E i \in 1..l : o(i) = k
  BY DEF TopOf
<1>7. PICK pos \in 0..n :
        /\ PlaceOf(N, Better, n + 1) = pos + 1
        /\ \A i \in 1..n : <<e, L[i]>> \notin Better =>
             PlaceOf(N, Better, i) = PlaceOf(L, Better, i) /\ PlaceOf(L, Better, i) <= pos
        /\ \A i \in 1..n : <<e, L[i]>> \in Better =>
             PlaceOf(N, Better, i) = PlaceOf(L, Better, i) + 1 /\ PlaceOf(L, Better, i) > pos
  BY <1>3, AppendPlaces
<1> HIDE DEF N, l, n
<1>8. \A k \in 1..n : old(k) \in 1..n
  BY <1>3, PlacesInOrder DEF n
<1>9. \A i, j \in 1..n : old(i) = old(j) => i = j
  BY <1>3, PlacesInOrder DEF n
<1> HIDE DEF old, new
<1>10. pos \in Nat /\ pos <= n /\ \A k \in 1..n : old(k) \in Nat /\ old(k) >= 1 /\ old(k) <= n
  BY <1>1, <1>7, <1>8
<1>11. /\ new(n + 1) = pos + 1
       /\ \A k \in 1..n : old(k) <= pos => new(k) = old(k)
       /\ \A k \in 1..n : old(k) > pos => new(k) = old(k) + 1 /\ <<e, L[k]>> \in Better
       /\ \A k \in 1..n : <<e, L[k]>> \in Better => old(k) > pos
  <2>1. \A k \in 1..n : /\ <<e, L[k]>> \notin Better => new(k) = old(k) /\ old(k) <= pos
                        /\ <<e, L[k]>> \in Better => new(k) = old(k) + 1 /\ old(k) > pos
    BY <1>7 DEF old, new
  <2>2. new(n + 1) = pos + 1
    BY <1>7 DEF new
  <2>3. ASSUME NEW k \in 1..n
        PROVE  /\ old(k) <= pos => new(k) = old(k)
               /\ old(k) > pos => new(k) = old(k) + 1 /\ <<e, L[k]>> \in Better
               /\ <<e, L[k]>> \in Better => old(k) > pos
    <3>1. old(k) \in Nat
      BY <1>10
    <3>2. old(k) > pos => ~(old(k) <= pos)
      BY <1>10, <3>1
    <3>3. QED
      BY <2>1, <3>2
  <2>4. QED
    BY <2>2, <2>3
<1>12. \A k \in 1..n : new(k) = old(k) \/ new(k) = old(k) + 1
  <2> TAKE k \in 1..n
  <2>1. old(k) <= pos \/ old(k) > pos
    BY <1>10
  <2>2. QED
    BY <1>11, <2>1
<1>13. \A k \in 1..(n + 1) : new(k) \in Nat /\ new(k) >= 1 /\ new(k) <= n + 1
  <2> TAKE k \in 1..(n + 1)
  <2>1. CASE k = n + 1
    BY <1>1, <1>11, <1>10, <2>1
  <2>2. CASE k \in 1..n
    <3>1. old(k) \in Nat /\ old(k) >= 1 /\ old(k) <= n
      BY <1>10, <2>2
    <3>2. new(k) = old(k) \/ new(k) = old(k) + 1
      BY <1>12, <2>2
    <3>3. QED
      BY <1>1, <3>1, <3>2
  <2>3. QED
    BY <1>1, <2>1, <2>2
<1>14. \A k \in 1..(n + 1) : k \in 1..n \/ k = n + 1
  BY <1>1
<1>15. n + 1 \in 1..(n + 1) /\ \A k \in 1..n : k \in 1..(n + 1) /\ k \in Nat /\ k <= n
  BY <1>1
<1>16. CASE TopN = 0
  <2>1. TopAdd(T, x) = T /\ l = 0
    BY <1>1, <1>2, <1>16 DEF TopAdd, Fewer
  <2>2. \A k \in 1..(n + 1) : ~(new(k) <= TopN)
    BY <1>16, <1>13
  <2>3. Len(T) = Fewer(n + 1, TopN)
    BY <1>1, <1>16, <2>1 DEF Fewer, l
  <2>4. QED
    <3>1. \A i \in 1..Len(T) : i \in 1..l /\ FALSE
      BY <2>1 DEF l
    <3>2. \A k \in 1..Len(N) : ~(PlaceOf(N, Better, k) <= TopN)
      BY <1>1, <2>2 DEF new
    <3>3. Len(T) = Fewer(Len(N), TopN)
      BY <1>1, <2>3
    <3>4. TopOf(T, N)
      BY <1>2, <3>1, <3>2, <3>3 DEF TopOf
    <3>5. QED
      BY <2>1, <3>4 DEF n, N
<1>17. CASE TopN > 0 /\ l < TopN
  <2> DEFINE U == Append(T, x)
  <2>1. TopAdd(T, x) = U /\ l = n /\ n + 1 <= TopN
    BY <1>1, <1>2, <1>3, <1>17 DEF TopAdd, Fewer, l
  <2>2. /\ U \in Seq(Items) /\ Len(U) = n + 1 /\ U[n + 1] = x
        /\ \A i \in 1..n : U[i] = T[i]
    BY <1>2, <2>1, AppendProperties DEF l
  <2>3. Len(U) = Fewer(n + 1, TopN)
    BY <1>1, <1>3, <2>1, <2>2 DEF Fewer
  <2>4. x.order = n /\ x.value = e
    OBVIOUS
  <2> HIDE DEF U, x
  <2>5. \A k \in 1..(n + 1) : new(k) <= TopN
    BY <1>1, <1>3, <1>13, <2>1
  <2>6. ASSUME NEW i \in 1..(n + 1)
        PROVE  /\ U[i].order + 1 \in 1..(n + 1)
               /\ U[i].value = N[U[i].order + 1]
               /\ new(U[i].order + 1) <= TopN
               /\ i # n + 1 => U[i].order # n
    <3>1. CASE i = n + 1
      BY <1>1, <1>15, <2>2, <2>4, <2>5, <3>1
    <3>2. CASE i \in 1..n
      <4>1. U[i] = T[i] /\ o(i) \in 1..n /\ T[i].value = L[o(i)] /\ T[i].order \in Nat
        BY <1>4, <2>1, <2>2, <3>2
      <4>2. N[o(i)] = L[o(i)] /\ o(i) \in 1..(n + 1) /\ new(o(i)) <= TopN /\ T[i].order # n
        BY <1>1, <1>15, <2>5, <4>1
      <4>3. QED
        BY <4>1, <4>2
    <3>3. QED
      BY <1>14, <3>1, <3>2
  <2>7. \A i, j \in 1..(n + 1) : U[i].order = U[j].order => i = j
    <3> TAKE i, j \in 1..(n + 1)
    <3> HAVE U[i].order = U[j].order
    <3>1. CASE i \in 1..n /\ j \in 1..n
      BY <1>5, <2>1, <2>2, <3>1
    <3>2. CASE i = n + 1 \/ j = n + 1
      BY <2>2, <2>4, <2>6, <3>2
    <3>3. QED
      BY <1>14, <3>1, <3>2
  <2>8. ASSUME NEW k \in 1..(n + 1)
        PROVE  \E i \in 1..(n + 1) : U[i].order + 1 = k
    <3>1. CASE k = n + 1
      BY <1>15, <2>2, <2>4, <3>1
    <3>2. CASE k \in 1..n
      <4>1. old(k) <= TopN
        BY <1>1, <1>3, <1>8, <2>1, <3>2
      <4>2. PICK i \in 1..l : o(i) = k
        BY <1>6, <3>2, <4>1
      <4>3. i \in 1..(n + 1) /\ U[i] = T[i]
        BY <1>15, <2>1, <2>2
      <4>4. QED
        BY <4>2, <4>3
    <3>3. QED
      BY <1>14, <3>1, <3>2
  <2>9. TopOf(U, N)
    BY <1>1, <2>2, <2>3, <2>6, <2>7, <2>8 DEF TopOf, new
  <2>10. QED
    BY <2>1, <2>9 DEF N, n, x
<1>18. CASE TopN > 0 /\ l >= TopN
  <2> DEFINE w == Worst(T)
             U == [T EXCEPT ![w] = x]
  <2>1. l = TopN /\ n >= TopN /\ Fewer(n + 1, TopN) = TopN
    BY <1>1, <1>2, <1>3, <1>18 DEF Fewer
  <2>2. w \in 1..l /\ old(o(w)) = TopN
    BY <1>18, <2>1, WorstIsLast DEF l, old
  <2>3. TopAdd(T, x) = IF Replaces(x, T[w]) THEN U ELSE T
    BY <1>3, <1>18 DEF TopAdd, l
  <2>4. x.order = n /\ x.value = e
    OBVIOUS
  <2> HIDE DEF w
  <2>5. /\ \A i \in 1..l : o(i) \in 1..n /\ old(o(i)) \in Nat /\ old(o(i)) <= TopN
        /\ \A i \in 1..l : i # w => old(o(i)) < TopN
    <3>1. \A i \in 1..l : o(i) \in 1..n /\ old(o(i)) \in Nat /\ old(o(i)) <= TopN
      BY <1>1, <1>4, <1>8
    <3>2. ASSUME NEW i \in 1..l, old(o(i)) = TopN
          PROVE  i = w
      <4>1. o(i) = o(w)
        BY <1>4, <1>9, <2>2, <3>2
      <4>2. T[i].order \in Nat /\ T[w].order \in Nat
        BY <1>4, <2>2
      <4>3. T[i].order = T[w].order
        BY <4>1, <4>2
      <4>4. QED
        BY <1>5, <2>2, <4>3
    <3>3. QED
      BY <1>3, <3>1, <3>2
  <2>6. Replaces(x, T[w]) <=> pos < TopN
    <3>1. /\ T[w].value \in Events /\ T[w].order \in Nat /\ ~(n < T[w].order)
          /\ T[w].value = L[o(w)] /\ o(w) \in 1..n
      BY <1>1, <1>4, <2>2 DEF Items
    <3>2. BetterRawEvent(e, T[w].value) <=> <<e, L[o(w)]>> \in Better
      BY <3>1 DEF Better
    <3>3. <<e, L[o(w)]>> \in Better <=> old(o(w)) > pos
      BY <1>11, <3>1
    <3>4. Replaces(x, T[w]) <=> BetterRawEvent(e, T[w].value)
      BY <2>4, <3>1 DEF Replaces, Less
    <3>5. QED
      BY <1>3, <1>10, <2>2, <3>2, <3>3, <3>4
  <2> HIDE DEF x
  <2>7. CASE pos < TopN
    <3>1. /\ U \in Seq(Items) /\ Len(U) = l /\ U[w] = x
          /\ \A i \in 1..l : i # w => U[i] = T[i]
      BY <1>2, <2>2 DEF l
    <3> HIDE DEF U
    <3>2. ASSUME NEW i \in 1..l
          PROVE  /\ U[i].order + 1 \in 1..(n + 1)
                 /\ U[i].value = N[U[i].order + 1]
                 /\ new(U[i].order + 1) <= TopN
                 /\ i # w => U[i].order # n
      <4>1. CASE i = w
        BY <1>1, <1>3, <1>11, <1>10, <1>15, <2>4, <2>7, <3>1, <4>1
      <4>2. CASE i # w
        <5>1. U[i] = T[i] /\ o(i) \in 1..n /\ T[i].value = L[o(i)] /\ T[i].order \in Nat
          BY <1>4, <3>1, <4>2
        <5>2. old(o(i)) \in Nat /\ old(o(i)) < TopN
          BY <2>5, <4>2
        <5>3. new(o(i)) = old(o(i)) \/ new(o(i)) = old(o(i)) + 1
          BY <1>12, <5>1
        <5>4. N[o(i)] = L[o(i)] /\ o(i) \in 1..(n + 1) /\ new(o(i)) <= TopN /\ T[i].order # n
          BY <1>1, <1>3, <1>15, <5>1, <5>2, <5>3
        <5>5. QED
          BY <5>1, <5>4
      <4>3. QED
        BY <4>1, <4>2
    <3>3. \A i, j \in 1..l : U[i].order = U[j].order => i = j
      <4> TAKE i, j \in 1..l
      <4> HAVE U[i].order = U[j].order
      <4>1. CASE i # w /\ j # w
        BY <1>5, <3>1, <4>1
      <4>2. CASE i = w \/ j = w
        BY <2>4, <3>1, <3>2, <4>2
      <4>3. QED
        BY <4>1, <4>2
    <3>4. ASSUME NEW k \in 1..(n + 1), new(k) <= TopN
          PROVE  \E i \in 1..l : U[i].order + 1 = k
      <4>1. CASE k = n + 1
        BY <2>2, <2>4, <3>1, <4>1
      <4>2. CASE k \in 1..n
        <5>1. old(k) \in Nat /\ (new(k) = old(k) \/ new(k) = old(k) + 1)
          BY <1>10, <1>12, <4>2
        <5>2. old(k) <= TopN
          BY <1>3, <3>4, <5>1
        <5>3. PICK i \in 1..l : o(i) = k
          BY <1>6, <4>2, <5>2
        <5>4. i # w
          <6>1. SUFFICES ASSUME i = w PROVE FALSE
            OBVIOUS
          <6>2. old(k) = TopN
            BY <2>2, <5>3, <6>1
          <6>3. new(k) = TopN + 1
            BY <1>11, <2>7, <4>2, <6>2
          <6>4. QED
            BY <1>3, <3>4, <6>3
        <5>5. U[i] = T[i]
          BY <3>1, <5>4
        <5>6. QED
          BY <5>3, <5>5
      <4>3. QED
        BY <1>14, <4>1, <4>2
    <3>5. TopOf(U, N)
      BY <1>1, <2>1, <3>1, <3>2, <3>3, <3>4 DEF TopOf, new
    <3>6. QED
      BY <2>3, <2>6, <2>7, <3>5 DEF N, n, x
  <2>8. CASE ~(pos < TopN)
    <3>1. \A k \in 1..n : old(k) <= TopN => new(k) = old(k)
      BY <1>3, <1>8, <1>11, <1>10, <2>8
    <3>2. \A k \in 1..(n + 1) : new(k) <= TopN => k \in 1..n /\ old(k) <= TopN
      <4> TAKE k \in 1..(n + 1)
      <4> HAVE new(k) <= TopN
      <4>1. k # n + 1
        BY <1>3, <1>11, <1>10, <2>8
      <4>2. k \in 1..n
        BY <1>14, <4>1
      <4>3. old(k) \in Nat /\ (new(k) = old(k) \/ new(k) = old(k) + 1)
        BY <1>10, <1>12, <4>2
      <4>4. QED
        BY <1>3, <4>2, <4>3
    <3>3. ASSUME NEW i \in 1..l
          PROVE  /\ T[i].order + 1 \in 1..(n + 1)
                 /\ T[i].value = N[T[i].order + 1]
                 /\ new(T[i].order + 1) <= TopN
      BY <1>1, <1>4, <1>15, <3>1
    <3>4. \A k \in 1..(n + 1) : new(k) <= TopN => \E i \in 1..l : T[i].order + 1 = k
      BY <1>6, <3>2
    <3>5. TopOf(T, N)
      BY <1>1, <1>2, <1>5, <2>1, <3>3, <3>4 DEF TopOf, new, l
    <3>6. QED
      BY <2>3, <2>6, <2>8, <3>5 DEF N, n, x
  <2>9. QED
    BY <2>7, <2>8
<1>19. QED
  BY <1>2, <1>3, <1>16, <1>17, <1>18 DEF n, N

(* Sorting the items gives them the places their entries have in the log. *)
LEMMA TopFollows ==
  ASSUME NEW L \in Seq(Events), NEW T, TopOf(T, L)
  PROVE  TopItems(T) = Cut(StableSort(L, BetterRawEvent), TopN)
<1> DEFINE n == Len(L)
           l == Len(T)
           S == SortBy(L, Better)
           P == SortBy(T, ItemsBefore)
           o(i) == T[i].order + 1
           old(k) == PlaceOf(L, Better, k)
           place(i) == PlaceOf(T, ItemsBefore, i)
<1>1. /\ n \in Nat /\ T \in Seq(Items) /\ l \in Nat /\ l = Fewer(n, TopN) /\ TopN \in Nat
      /\ Orders(Better, Events) /\ Orders(ItemsBefore, Items)
  BY CountersAssumption, BetterOrders, ItemsOrder DEF TopOf
<1>2. \A i \in 1..l : /\ T[i] \in Items /\ T[i].order \in Nat
                      /\ o(i) \in 1..n /\ T[i].value = L[o(i)] /\ old(o(i)) <= TopN
  <2>1. \A i \in 1..l : T[i] \in Items
    BY <1>1, ElementOfSeq
  <2>2. \A i \in 1..l : T[i].order \in Nat
    BY <2>1 DEF Items
  <2>3. QED
    BY <2>1, <2>2 DEF TopOf
<1>3. \A i, j \in 1..l : o(i) = o(j) => i = j
  <2> TAKE i, j \in 1..l
  <2> HAVE o(i) = o(j)
  <2>1. T[i].order = T[j].order
    BY <1>2
  <2>2. QED
    BY <2>1 DEF TopOf
<1>4. \A k \in 1..n : old(k) <= TopN => \E i \in 1..l : o(i) = k
  BY DEF TopOf
<1>5. StableSort(L, BetterRawEvent) = S
  <2>1. \A i, j \in 1..n : BetterRawEvent(L[i], L[j]) <=> <<L[i], L[j]>> \in Better
    BY <1>1, ElementOfSeq DEF Better
  <2>2. QED
    BY <1>1, <2>1, BetterSort
<1>6. StableSort(T, Less) = P
  <2>1. \A i, j \in 1..l : Less(T[i], T[j]) <=> <<T[i], T[j]>> \in ItemsBefore
    BY <1>2 DEF ItemsBefore
  <2>2. QED
    BY <1>1, <2>1, ItemSort
<1>7. Len(S) = n /\ S \in Seq(Events) /\ Len(P) = l /\ P \in Seq(Items)
  BY <1>1, SortByLook
<1>8. \A i, j \in 1..l : Ahead(T, ItemsBefore, i, j) <=> Ahead(L, Better, o(i), o(j))
  <2> TAKE i, j \in 1..l
  <2>1. /\ Less(T[i], T[j]) <=> Ahead(L, Better, o(i), o(j))
        /\ Less(T[j], T[i]) <=> Ahead(L, Better, o(j), o(i))
    BY LessIsAhead
  <2>2. /\ <<T[i], T[j]>> \in ItemsBefore <=> Less(T[i], T[j])
        /\ <<T[j], T[i]>> \in ItemsBefore <=> Less(T[j], T[i])
    BY <1>2 DEF ItemsBefore
  <2>3. CASE i = j
    <3>1. ~Ahead(T, ItemsBefore, i, j)
      BY <1>1, <2>3, AheadIsOrder
    <3>2. ~Ahead(L, Better, o(i), o(j))
      BY <1>1, <1>2, <2>3, AheadIsOrder
    <3>3. QED
      BY <3>1, <3>2
  <2>4. CASE i # j
    <3>1. o(i) \in 1..n /\ o(j) \in 1..n /\ o(i) # o(j)
      BY <1>2, <1>3, <2>4
    <3> HIDE DEF o
    <3>2. Ahead(L, Better, o(i), o(j)) \/ Ahead(L, Better, o(j), o(i))
      BY <1>1, <3>1, AheadIsOrder
    <3>3. QED
      BY <2>1, <2>2, <3>2 DEF Ahead
  <2>5. QED
    BY <2>3, <2>4
<1>9. ASSUME NEW i \in 1..l
      PROVE  place(i) = old(o(i))
  <2> DEFINE A == {j \in 1..l : Ahead(T, ItemsBefore, j, i)}
             B == {k \in 1..n : Ahead(L, Better, k, o(i))}
             f == [j \in A |-> o(j)]
  <2>1. IsFiniteSet(A)
    <3>1. IsFiniteSet(1..l)
      BY <1>1, FS_Interval
    <3>2. A \in SUBSET (1..l)
      OBVIOUS
    <3> HIDE DEF A
    <3>3. QED
      BY <3>1, <3>2, FS_Subset
  <2>2. \A j \in A : j \in 1..l /\ o(j) \in B
    BY <1>2, <1>8
  <2>3. \A k \in B : \E j \in A : o(j) = k
    <3> TAKE k \in B
    <3>1. k \in 1..n /\ o(i) \in 1..n /\ Ahead(L, Better, k, o(i)) /\ old(o(i)) <= TopN
      BY <1>2
    <3> HIDE DEF o
    <3>2. old(k) < old(o(i)) /\ old(k) \in 1..n /\ old(o(i)) \in 1..n
      BY <1>1, <3>1, PlacesInOrder
    <3> HIDE DEF old
    <3>3. old(k) <= TopN
      BY <1>1, <3>1, <3>2
    <3>4. PICK j \in 1..l : o(j) = k
      BY <1>4, <3>1, <3>3
    <3>5. j \in A
      BY <1>8, <3>1, <3>4
    <3>6. QED
      BY <3>4, <3>5
  <2>4. place(i) = 1 + Cardinality(A) /\ old(o(i)) = 1 + Cardinality(B)
    BY Zenon DEF PlaceOf
  <2> HIDE DEF A, B, o
  <2>5. f \in Bijection(A, B)
    <3>1. f \in Injection(A, B)
      BY <1>3, <2>2 DEF Injection, IsInjective
    <3>2. f \in Surjection(A, B)
      BY <2>2, <2>3 DEF Surjection
    <3>3. QED
      BY <3>1, <3>2 DEF Bijection
  <2> HIDE DEF f
  <2>6. Cardinality(B) = Cardinality(A)
    BY <2>1, <2>5, FS_Bijection DEF ExistsBijection
  <2>7. QED
    BY <2>4, <2>6
<1>10. ASSUME NEW m \in 1..l
       PROVE  P[m].value = S[m]
  <2>1. PICK i \in 1..l : place(i) = m
    BY <1>1, PlacesInOrder
  <2>2. P[m] = T[i]
    BY <1>1, <2>1, SortByLook
  <2>3. o(i) \in 1..n /\ T[i].value = L[o(i)] /\ old(o(i)) = m
    BY <1>2, <1>9, <2>1
  <2> HIDE DEF o
  <2>4. S[m] = L[o(i)]
    BY <1>1, <2>3, SortByLook
  <2>5. QED
    BY <2>2, <2>3, <2>4
<1>11. TopItems(T) = [m \in 1..l |-> P[m].value]
  BY <1>6, <1>7 DEF TopItems
<1> HIDE DEF n, l, S, P
<1>12. Cut(S, TopN) = [m \in 1..l |-> S[m]]
  <2>1. CASE n > TopN
    <3>1. Cut(S, TopN) = SubSeq(S, 1, TopN) /\ l = TopN
      BY <1>1, <1>7, <2>1 DEF Cut, Fewer
    <3>2. SubSeq(S, 1, TopN) = [m \in 1..TopN |-> S[m]]
      <4>1. 1..(TopN - 1 + 1) = 1..TopN /\ \A m \in 1..TopN : 1 + m - 1 = m
        BY <1>1
      <4>2. QED
        BY <1>1, <1>7, <2>1, <4>1
    <3>3. QED
      BY <3>1, <3>2
  <2>2. CASE ~(n > TopN)
    <3>1. Cut(S, TopN) = S /\ l = n
      BY <1>1, <1>7, <2>2 DEF Cut, Fewer
    <3>2. S = [m \in 1..n |-> S[m]]
      BY <1>7
    <3>3. QED
      BY <3>1, <3>2
  <2>3. QED
    BY <2>1, <2>2
<1>13. QED
  BY <1>5, <1>10, <1>11, <1>12

-------------------------------------------------------------------------------
(* What percentiles rest on: numbers, sorted. *)
Smaller == {p \in Int \X Int : p[1] < p[2]}

(* Numbers are ordered by <, as a set of pairs. *)
LEMMA NumbersOrder == Orders(Smaller, Int)
<1>1. \A a, b : <<a, b>> \in Smaller <=> a \in Int /\ b \in Int /\ a < b
  BY DEF Smaller
<1> HIDE DEF Smaller
<1>2. QED
  BY <1>1 DEF Orders

(* Sorting numbers by < is sorting them by that order. *)
LEMMA NumberSort ==
  ASSUME NEW L \in Seq(Int)
  PROVE  StableSort(L, <) = SortBy(L, Smaller)
<1> DEFINE n == Len(L)
           Place(i) == 1 + Cardinality({j \in 1..n :
                         L[j] < L[i] \/ (~(L[i] < L[j]) /\ j < i)})
           placed == {<<Place(i), L[i]>> : i \in 1..n}
<1>1. \A i, j \in 1..n : L[i] < L[j] <=> <<L[i], L[j]>> \in Smaller
  BY ElementOfSeq DEF Smaller
<1>2. ASSUME NEW i \in 1..n
      PROVE  Place(i) = PlaceOf(L, Smaller, i)
  <2>1. {j \in 1..n : L[j] < L[i] \/ (~(L[i] < L[j]) /\ j < i)} = {j \in 1..n : Ahead(L, Smaller, j, i)}
    BY <1>1 DEF Ahead
  <2>2. QED
    BY <2>1, Zenon DEF PlaceOf
<1>3. StableSort(L, <) = [m \in 1..n |-> (CHOOSE p \in placed : p[1] = m)[2]]
  BY DEF StableSort
<1> HIDE DEF Place
<1>4. placed = {<<PlaceOf(L, Smaller, i), L[i]>> : i \in 1..n}
  BY <1>2
<1> HIDE DEF placed
<1>5. [m \in 1..n |-> (CHOOSE p \in {<<PlaceOf(L, Smaller, i), L[i]>> : i \in 1..n} : p[1] = m)[2]]
        = SortBy(L, Smaller)
  BY PlacedIsSorted, NumbersOrder
<1>6. [m \in 1..n |-> (CHOOSE p \in placed : p[1] = m)[2]] = SortBy(L, Smaller)
  BY <1>4, <1>5
<1>7. QED
  BY <1>3, <1>6, Zenon

(* How many values are at most, or at least, some number can be read off    *)
(* the sorted values.                                                       *)
LEMMA SortedCounts ==
  ASSUME NEW L \in Seq(Int), NEW v \in Int, NEW k \in 1..Len(L)
  PROVE  /\ AtMost(L, v) \in Nat /\ AtLeast(L, v) \in Nat
         /\ AtMost(L, v) >= k <=> SortBy(L, Smaller)[k] <= v
         /\ AtLeast(L, v) >= Len(L) - k + 1 <=> SortBy(L, Smaller)[k] >= v
<1> DEFINE n == Len(L)
           S == SortBy(L, Smaller)
           Place(i) == PlaceOf(L, Smaller, i)
           low == {i \in 1..n : L[i] <= v}
           high == {i \in 1..n : L[i] >= v}
           upto == {i \in 1..n : Place(i) <= k}
           from == {i \in 1..n : Place(i) >= k}
<1>1. /\ n \in Nat /\ \A i \in 1..n : L[i] \in Int
      /\ k \in 1..n /\ S \in Seq(Int) /\ Len(S) = n /\ \A m \in 1..n : S[m] \in Int
  BY ElementOfSeq, SortByLook, NumbersOrder
<1>2. \A i \in 1..n : Place(i) \in 1..n /\ S[Place(i)] = L[i]
  BY SortByLook, PlacesInOrder, NumbersOrder
<1>3. \A i, j \in 1..n : Place(i) = Place(j) => i = j
  BY PlacesInOrder, NumbersOrder
<1>4. \A m \in 1..n : \E i \in 1..n : Place(i) = m
  BY PlacesInOrder, NumbersOrder
<1>5. \A a, b \in 1..n : a <= b => S[a] <= S[b]
  <2> TAKE a, b \in 1..n
  <2> HAVE a <= b
  <2>1. CASE a = b
    BY <1>1, <2>1
  <2>2. CASE a < b
    <3>1. <<S[b], S[a]>> \notin Smaller
      BY <2>2, SortByInOrder, NumbersOrder
    <3>2. S[a] \in Int /\ S[b] \in Int
      BY <1>1
    <3> HIDE DEF S
    <3>3. QED
      BY <3>1, <3>2 DEF Smaller
  <2>3. QED
    BY <1>1, <2>1, <2>2
<1> HIDE DEF n, S, Place
<1>6. /\ AtMost(L, v) = Cardinality(low) /\ AtLeast(L, v) = Cardinality(high)
  <2>1. DOMAIN L = 1..n
    BY DEF n
  <2>2. QED
    BY <2>1, Zenon DEF AtMost, AtLeast
<1>7. IsFiniteSet(1..n)
  BY <1>1, FS_Interval
<1>8. /\ IsFiniteSet(low) /\ IsFiniteSet(high) /\ IsFiniteSet(upto) /\ IsFiniteSet(from)
      /\ Cardinality(low) \in Nat /\ Cardinality(high) \in Nat
      /\ Cardinality(upto) \in Nat /\ Cardinality(from) \in Nat
  <2>1. ASSUME NEW X \in SUBSET (1..n)
        PROVE  IsFiniteSet(X) /\ Cardinality(X) \in Nat
    BY <1>7, FS_Subset, FS_CardinalityType
  <2>2. {low, high, upto, from} \subseteq SUBSET (1..n)
    OBVIOUS
  <2> HIDE DEF low, high, upto, from
  <2>3. QED
    BY <2>1, <2>2
<1>9. Cardinality(upto) = k /\ Cardinality(from) = n - k + 1
  <2> DEFINE f == [i \in upto |-> Place(i)]
             g == [i \in from |-> Place(i)]
  <2>1. f \in Bijection(upto, 1..k)
    <3>1. \A i \in upto : i \in 1..n /\ Place(i) \in 1..k
      BY <1>1, <1>2
    <3>2. \A m \in 1..k : \E i \in upto : Place(i) = m
      <4> TAKE m \in 1..k
      <4>1. m \in 1..n /\ m <= k
        BY <1>1
      <4>2. QED
        BY <1>4, <4>1
    <3> HIDE DEF upto
    <3>3. f \in Injection(upto, 1..k)
      BY <1>3, <3>1 DEF Injection, IsInjective
    <3>4. f \in Surjection(upto, 1..k)
      BY <3>1, <3>2 DEF Surjection
    <3>5. QED
      BY <3>3, <3>4 DEF Bijection
  <2>2. g \in Bijection(from, k..n)
    <3>1. \A i \in from : i \in 1..n /\ Place(i) \in k..n
      BY <1>1, <1>2
    <3>2. \A m \in k..n : \E i \in from : Place(i) = m
      <4> TAKE m \in k..n
      <4>1. m \in 1..n /\ m >= k
        BY <1>1
      <4>2. QED
        BY <1>4, <4>1
    <3> HIDE DEF from
    <3>3. g \in Injection(from, k..n)
      BY <1>3, <3>1 DEF Injection, IsInjective
    <3>4. g \in Surjection(from, k..n)
      BY <3>1, <3>2 DEF Surjection
    <3>5. QED
      BY <3>3, <3>4 DEF Bijection
  <2>3. /\ Cardinality(1..k) = k /\ Cardinality(k..n) = n - k + 1
    <3>1. k \in Int /\ n \in Int /\ 1 <= k /\ k <= n
      BY <1>1
    <3>2. Cardinality(1..k) = k
      BY <3>1, FS_Interval
    <3>3. Cardinality(k..n) = n - k + 1
      BY <3>1, FS_Interval
    <3>4. QED
      BY <3>2, <3>3
  <2> HIDE DEF f, g, upto, from
  <2>4. Cardinality(1..k) = Cardinality(upto)
    BY <1>8, <2>1, FS_Bijection DEF ExistsBijection
  <2>5. Cardinality(k..n) = Cardinality(from)
    BY <1>8, <2>2, FS_Bijection DEF ExistsBijection
  <2>6. QED
    BY <2>3, <2>4, <2>5
<1>10. PICK ik \in 1..n : Place(ik) = k
  BY <1>1, <1>4
<1>11. L[ik] = S[k] /\ L[ik] \in Int
  BY <1>1, <1>2, <1>10
<1>12. S[k] <= v => upto \in SUBSET low
  <2> SUFFICES ASSUME S[k] <= v, NEW i \in upto PROVE L[i] <= v
    OBVIOUS
  <2>1. i \in 1..n /\ Place(i) <= k /\ Place(i) \in 1..n /\ S[Place(i)] = L[i]
    BY <1>2
  <2>2. L[i] <= S[k]
    BY <1>1, <1>5, <2>1
  <2>3. QED
    BY <1>1, <2>1, <2>2
<1>13. S[k] >= v => from \in SUBSET high
  <2> SUFFICES ASSUME S[k] >= v, NEW i \in from PROVE L[i] >= v
    OBVIOUS
  <2>1. i \in 1..n /\ Place(i) >= k /\ Place(i) \in 1..n /\ S[Place(i)] = L[i]
    BY <1>2
  <2>2. S[k] <= L[i]
    BY <1>1, <1>5, <2>1
  <2>3. QED
    BY <1>1, <2>1, <2>2
<1>14. ~(S[k] <= v) => low \in SUBSET (upto \ {ik})
  <2> SUFFICES ASSUME ~(S[k] <= v), NEW i \in low PROVE i \in upto /\ i # ik
    OBVIOUS
  <2>1. i \in 1..n /\ Place(i) \in 1..n /\ S[Place(i)] = L[i] /\ L[i] <= v
    BY <1>2
  <2>2. ~(k <= Place(i))
    BY <1>1, <1>5, <2>1
  <2>3. QED
    BY <1>1, <1>10, <2>1, <2>2
<1>15. ~(S[k] >= v) => high \in SUBSET (from \ {ik})
  <2> SUFFICES ASSUME ~(S[k] >= v), NEW i \in high PROVE i \in from /\ i # ik
    OBVIOUS
  <2>1. i \in 1..n /\ Place(i) \in 1..n /\ S[Place(i)] = L[i] /\ L[i] >= v
    BY <1>2
  <2>2. ~(Place(i) <= k)
    BY <1>1, <1>5, <2>1
  <2>3. QED
    BY <1>1, <1>10, <2>1, <2>2
<1>16. ik \in upto /\ ik \in from
  BY <1>1, <1>10
<1> HIDE DEF low, high, upto, from
<1>17. /\ Cardinality(upto \ {ik}) = k - 1 /\ IsFiniteSet(upto \ {ik})
       /\ Cardinality(from \ {ik}) = n - k /\ IsFiniteSet(from \ {ik})
  <2>1. Cardinality(upto \ {ik}) = Cardinality(upto) - 1 /\ IsFiniteSet(upto \ {ik})
    BY <1>8, <1>16, FS_RemoveElement
  <2>2. Cardinality(from \ {ik}) = Cardinality(from) - 1 /\ IsFiniteSet(from \ {ik})
    BY <1>8, <1>16, FS_RemoveElement
  <2>3. QED
    BY <1>1, <1>9, <2>1, <2>2
<1>18. S[k] <= v => Cardinality(low) >= k
  BY <1>8, <1>9, <1>12, FS_Subset
<1>19. ~(S[k] <= v) => ~(Cardinality(low) >= k)
  <2> HAVE ~(S[k] <= v)
  <2>1. Cardinality(low) <= k - 1
    BY <1>14, <1>17, FS_Subset
  <2>2. QED
    BY <1>1, <1>8, <2>1
<1>20. S[k] >= v => Cardinality(high) >= n - k + 1
  BY <1>8, <1>9, <1>13, FS_Subset
<1>21. ~(S[k] >= v) => ~(Cardinality(high) >= n - k + 1)
  <2> HAVE ~(S[k] >= v)
  <2>1. Cardinality(high) <= n - k
    BY <1>15, <1>17, FS_Subset
  <2>2. QED
    BY <1>1, <1>8, <2>1
<1>22. QED
  BY <1>6, <1>8, <1>18, <1>19, <1>20, <1>21 DEF n, S

(* The percentiles of a row. *)
Percents == {50, 95, 99}

(* The nearest rank is the value whose place is the share of the count,    *)
(* rounded up; it is never before the first nor after the last.            *)
LEMMA NearestIs ==
  ASSUME NEW values \in Seq(Int), Len(values) > 0, NEW percent \in Percents
  PROVE  /\ CeilDiv(percent * Len(values), 100) \in 1..Len(values)
         /\ NearestRank(values, percent)
              = SortBy(values, Smaller)[CeilDiv(percent * Len(values), 100)]
<1> DEFINE n == Len(values)
           a == percent * n
           q == CeilDiv(a, 100)
<1>1. n \in Nat /\ n > 0
  OBVIOUS
<1> HIDE DEF n
<1>2. a \in Nat /\ n <= a /\ a <= 100 * n
  <2>1. CASE percent = 50
    BY <1>1, <2>1
  <2>2. CASE percent = 95
    BY <1>1, <2>2
  <2>3. CASE percent = 99
    BY <1>1, <2>3
  <2>4. QED
    BY <2>1, <2>2, <2>3 DEF Percents
<1> HIDE DEF a
<1>3. q \in 1..n
  BY <1>1, <1>2 DEF CeilDiv
<1>4. Rank(percent, n) = q - 1
  BY DEF Rank, a
<1> HIDE DEF q
<1>5. Rank(percent, n) \in 0..(n - 1) /\ ~(Rank(percent, n) < 0) /\ ~(Rank(percent, n) >= n)
      /\ Rank(percent, n) + 1 = q
  BY <1>1, <1>3, <1>4
<1>6. StableSort(values, <) = SortBy(values, Smaller)
  BY NumberSort
<1> DEFINE S == SortBy(values, Smaller)
           i == Rank(percent, n)
<1>7. NearestRank(values, percent) = S[CASE i < 0 -> 1 [] i >= n -> n [] i \in 0..(n - 1) -> i + 1]
  BY <1>6, Zenon DEF NearestRank, n
<1> HIDE DEF S, i
<1>8. NearestRank(values, percent) = S[q]
  BY <1>5, <1>7 DEF i
<1>9. QED
  BY <1>3, <1>8 DEF S, a, q, n

(* The interpolation stays between two neighbours, or on the last value.   *)
LEMMA InterpolatedIs ==
  ASSUME NEW values \in Seq(Int), Len(values) > 0, NEW percent \in Percents
  PROVE  LET S == SortBy(values, Smaller)
             rank == percent * (Len(values) - 1)
             lo == rank \div 100
             part == rank % 100
         IN  /\ lo \in 0..(Len(values) - 1) /\ part \in 0..99 /\ rank = 100 * lo + part
             /\ part # 0 => lo + 1 < Len(values)
             /\ Interpolated(values, percent)
                  = IF part = 0 THEN 100 * S[lo + 1]
                    ELSE 100 * S[lo + 1] + part * (S[lo + 2] - S[lo + 1])
<1> DEFINE n == Len(values)
           S == SortBy(values, Smaller)
           rank == percent * (n - 1)
           lo == rank \div 100
           part == rank % 100
<1>1. n \in Nat /\ n > 0
  OBVIOUS
<1>2. StableSort(values, <) = S
  BY NumberSort
<1>3. Interpolated(values, percent)
        = IF part = 0 THEN 100 * S[lo + 1]
          ELSE 100 * S[lo + 1] + part * (S[lo + 2] - S[lo + 1])
  BY <1>2, Zenon DEF Interpolated
<1> HIDE DEF n
<1>4. rank \in Nat /\ rank <= 99 * (n - 1)
  <2>1. CASE percent = 50
    BY <1>1, <2>1
  <2>2. CASE percent = 95
    BY <1>1, <2>2
  <2>3. CASE percent = 99
    BY <1>1, <2>3
  <2>4. QED
    BY <2>1, <2>2, <2>3 DEF Percents
<1> HIDE DEF rank
<1>5. lo \in Nat /\ part \in 0..99 /\ rank = 100 * lo + part
  BY <1>4
<1> HIDE DEF lo, part, S
<1>6. lo \in 0..(n - 1)
  BY <1>1, <1>4, <1>5
<1>7. part # 0 => lo + 1 < n
  BY <1>1, <1>4, <1>5
<1>8. QED
  BY <1>3, <1>5, <1>6, <1>7 DEF n, S, rank, lo, part

(* A product of naturals grows with a factor. *)
LEMMA Products ==
  /\ \A a, b \in Nat, d \in Nat : a <= b => a * d <= b * d
  /\ \A a \in 0..99, d \in Nat : 0 <= a * d /\ a * d <= 100 * d
<1>1. \A a, b \in Nat, d \in Nat : a <= b => a * d <= b * d
  OBVIOUS
<1>2. \A a \in 0..99, d \in Nat : 0 <= a * d /\ a * d <= 100 * d
  OBVIOUS
<1>3. QED
  BY <1>1, <1>2

(* The sorted values are the values, in order. *)
LEMMA SortedValues ==
  ASSUME NEW values \in Seq(Int)
  PROVE  LET S == SortBy(values, Smaller)
         IN  /\ \A k \in 1..Len(values) : S[k] \in Int /\ \E i \in DOMAIN values : S[k] = values[i]
             /\ \A i \in DOMAIN values : \E k \in 1..Len(values) : S[k] = values[i]
             /\ \A j, k \in 1..Len(values) : j <= k => S[j] <= S[k]
<1> DEFINE n == Len(values)
           S == SortBy(values, Smaller)
           Place(i) == PlaceOf(values, Smaller, i)
<1>1. /\ n \in Nat /\ DOMAIN values = 1..n
      /\ S \in Seq(Int) /\ Len(S) = n /\ \A m \in 1..n : S[m] \in Int
  BY ElementOfSeq, SortByLook, NumbersOrder
<1>2. \A i \in 1..n : Place(i) \in 1..n /\ S[Place(i)] = values[i]
  BY SortByLook, PlacesInOrder, NumbersOrder
<1>3. \A m \in 1..n : \E i \in 1..n : Place(i) = m
  BY PlacesInOrder, NumbersOrder
<1>4. \A a, b \in 1..n : a <= b => S[a] <= S[b]
  <2> TAKE a, b \in 1..n
  <2> HAVE a <= b
  <2>1. CASE a = b
    BY <1>1, <2>1
  <2>2. CASE a < b
    <3>1. <<S[b], S[a]>> \notin Smaller
      BY <2>2, SortByInOrder, NumbersOrder
    <3>2. S[a] \in Int /\ S[b] \in Int
      BY <1>1
    <3> HIDE DEF S
    <3>3. QED
      BY <3>1, <3>2 DEF Smaller
  <2>3. QED
    BY <1>1, <2>1, <2>2
<1> HIDE DEF S, Place
<1>5. \A k \in 1..n : S[k] \in Int /\ \E i \in DOMAIN values : S[k] = values[i]
  BY <1>1, <1>2, <1>3
<1>6. \A i \in DOMAIN values : \E k \in 1..n : S[k] = values[i]
  BY <1>1, <1>2
<1>7. QED
  BY <1>4, <1>5, <1>6 DEF S

(* The smallest and the largest value of a row. *)
LEMMA Extremes ==
  ASSUME NEW values \in Seq(Int), Len(values) > 0, NEW interpolate
  PROVE  LET S == SortBy(values, Smaller)
             r == Summary(values, interpolate)
         IN  r.min = S[1] /\ r.max = S[Len(values)]
<1> DEFINE n == Len(values)
           S == SortBy(values, Smaller)
           all == {values[i] : i \in DOMAIN values}
           min == CHOOSE v \in all : \A w \in all : v <= w
           max == CHOOSE v \in all : \A w \in all : v >= w
<1>1. /\ n \in Nat /\ 1 \in 1..n /\ n \in 1..n
      /\ \A k \in 1..n : S[k] \in Int /\ \E i \in DOMAIN values : S[k] = values[i]
      /\ \A i \in DOMAIN values : \E k \in 1..n : S[k] = values[i]
      /\ \A j, k \in 1..n : j <= k => S[j] <= S[k]
  BY SortedValues
<1> HIDE DEF n, S
<1>2. /\ S[1] \in all /\ S[n] \in all
      /\ \A w \in all : w \in Int /\ S[1] <= w /\ w <= S[n]
  <2>1. S[1] \in all /\ S[n] \in all
    BY <1>1
  <2>2. ASSUME NEW w \in all
        PROVE  w \in Int /\ S[1] <= w /\ w <= S[n]
    <3>1. PICK k \in 1..n : S[k] = w
      BY <1>1
    <3>2. 1 <= k /\ k <= n
      BY <1>1
    <3>3. QED
      BY <1>1, <3>1, <3>2
  <2>3. QED
    BY <2>1, <2>2
<1> HIDE DEF all
<1>3. \A v \in all : (\A w \in all : v <= w) => v = S[1]
  BY <1>2
<1>4. \A v \in all : (\A w \in all : v >= w) => v = S[n]
  BY <1>2
<1>5. min = S[1]
  BY <1>2, <1>3
<1>6. max = S[n]
  <2>1. \A w \in all : S[n] >= w
    BY <1>2
  <2>2. QED
    BY <1>2, <1>4, <2>1
<1> HIDE DEF min, max
<1>7. Summary(values, interpolate).min = min /\ Summary(values, interpolate).max = max
  BY DEF Summary, min, max, all
<1>8. QED
  BY <1>5, <1>6, <1>7 DEF n, S

(* Scaling the values does not change how many are below one of them. *)
LEMMA ScaledCounts ==
  ASSUME NEW values \in Seq(Int), NEW scale \in {1, 100}, NEW u \in Int, NEW p \in Int
  PROVE  LET scaled == [i \in DOMAIN values |-> scale * values[i]]
         IN  /\ AtMost(scaled, p) \in Nat /\ AtLeast(scaled, p) \in Nat
             /\ scale * u <= p => AtMost(scaled, p) >= AtMost(values, u)
             /\ scale * u >= p => AtLeast(scaled, p) >= AtLeast(values, u)
<1> DEFINE scaled == [i \in DOMAIN values |-> scale * values[i]]
           n == Len(values)
           A == {i \in 1..n : scale * values[i] <= p}
           B == {i \in 1..n : scale * values[i] >= p}
           C == {i \in 1..n : values[i] <= u}
           D == {i \in 1..n : values[i] >= u}
<1>1. n \in Nat /\ DOMAIN values = 1..n /\ \A i \in 1..n : values[i] \in Int
  BY ElementOfSeq
<1>2. IsFiniteSet(1..n)
  BY <1>1, FS_Interval
<1>3. DOMAIN scaled = 1..n /\ \A i \in 1..n : scaled[i] = scale * values[i]
  BY <1>1
<1>4. AtMost(values, u) = Cardinality(C) /\ AtLeast(values, u) = Cardinality(D)
  BY <1>1, Zenon DEF AtMost, AtLeast
<1>5. AtMost(scaled, p) = Cardinality(A) /\ AtLeast(scaled, p) = Cardinality(B)
  <2>1. {i \in DOMAIN scaled : scaled[i] <= p} = A
    BY <1>3
  <2>2. {i \in DOMAIN scaled : scaled[i] >= p} = B
    BY <1>3
  <2> HIDE DEF A, B, scaled
  <2>3. QED
    BY <2>1, <2>2, Zenon DEF AtMost, AtLeast
<1>6. scale * u <= p => C \in SUBSET A
  BY <1>1
<1>7. scale * u >= p => D \in SUBSET B
  BY <1>1
<1>8. {A, B, C, D} \subseteq SUBSET (1..n)
  OBVIOUS
<1> HIDE DEF A, B, C, D
<1>9. \A X \in {A, B, C, D} : IsFiniteSet(X) /\ Cardinality(X) \in Nat
  BY <1>2, <1>8, FS_Subset, FS_CardinalityType
<1>10. scale * u <= p => Cardinality(C) <= Cardinality(A)
  BY <1>6, <1>9, FS_Subset
<1>11. scale * u >= p => Cardinality(D) <= Cardinality(B)
  BY <1>7, <1>9, FS_Subset
<1> HIDE DEF scaled
<1>12. /\ AtMost(scaled, p) \in Nat /\ AtLeast(scaled, p) \in Nat
       /\ scale * u <= p => AtMost(scaled, p) >= AtMost(values, u)
       /\ scale * u >= p => AtLeast(scaled, p) >= AtLeast(values, u)
  BY <1>4, <1>5, <1>9, <1>10, <1>11
<1>13. QED
  BY <1>12 DEF scaled

(* Of a row with nearest ranks. *)
LEMMA NearestRow ==
  ASSUME NEW values \in Seq(Int), Len(values) > 0
  PROVE  LET n == Len(values)
             r == Summary(values, FALSE)
             P(percent) == NearestRank(values, percent)
         IN  /\ r.p50 = P(50) /\ r.p95 = P(95) /\ r.p99 = P(99)
             /\ \A percent \in Percents : P(percent) \in Int
             /\ r.min <= P(50) /\ P(50) <= P(95) /\ P(95) <= P(99) /\ P(99) <= r.max
             /\ 2 * AtMost(values, P(50)) >= n /\ 2 * AtLeast(values, P(50)) >= n
             /\ \A percent \in Percents, w \in {values[i] : i \in DOMAIN values} :
                  100 * AtMost(values, w) >= percent * n <=> w >= P(percent)
<1> DEFINE n == Len(values)
           S == SortBy(values, Smaller)
           P(percent) == NearestRank(values, percent)
           q(percent) == CeilDiv(percent * n, 100)
           r == Summary(values, FALSE)
<1>1. /\ n \in Nat /\ n > 0
      /\ \A k \in 1..n : S[k] \in Int
      /\ \A j, k \in 1..n : j <= k => S[j] <= S[k]
  BY SortedValues
<1>2. \A percent \in Percents : q(percent) \in 1..n /\ P(percent) = S[q(percent)]
  BY NearestIs
<1>3. r.min = S[1] /\ r.max = S[n]
  BY Extremes
<1>4. \A i \in DOMAIN values : values[i] \in Int
  BY ElementOfSeq
<1>5. \A v \in Int, k \in 1..n : /\ AtMost(values, v) \in Nat /\ AtLeast(values, v) \in Nat
                                 /\ AtMost(values, v) >= k <=> S[k] <= v
                                 /\ AtLeast(values, v) >= n - k + 1 <=> S[k] >= v
  BY SortedCounts
<1>6. r.p50 = P(50) /\ r.p95 = P(95) /\ r.p99 = P(99)
  BY DEF Summary
<1>7. 50 \in Percents /\ 95 \in Percents /\ 99 \in Percents
  BY DEF Percents
<1> HIDE DEF n, S, P, r
<1>8. q(50) <= q(95) /\ q(95) <= q(99)
  BY <1>1 DEF CeilDiv
<1>9. 2 * q(50) >= n /\ 2 * (n - q(50) + 1) >= n
  BY <1>1 DEF CeilDiv
<1>10. ASSUME NEW percent \in Percents, NEW x \in Nat
       PROVE  100 * x >= percent * n <=> x >= q(percent)
  <2>1. CASE percent = 50
    BY <1>1, <2>1 DEF CeilDiv
  <2>2. CASE percent = 95
    BY <1>1, <2>2 DEF CeilDiv
  <2>3. CASE percent = 99
    BY <1>1, <2>3 DEF CeilDiv
  <2>4. QED
    BY <2>1, <2>2, <2>3 DEF Percents
<1> HIDE DEF q
<1>11. \A percent \in Percents : P(percent) \in Int
  BY <1>1, <1>2
<1>12. r.min <= P(50) /\ P(50) <= P(95) /\ P(95) <= P(99) /\ P(99) <= r.max
  <2>1. 1 \in 1..n /\ n \in 1..n /\ 1 <= q(50) /\ q(99) <= n
    BY <1>1, <1>2, <1>7
  <2>2. q(50) \in 1..n /\ q(95) \in 1..n /\ q(99) \in 1..n
    BY <1>2, <1>7
  <2>3. S[1] <= S[q(50)] /\ S[q(50)] <= S[q(95)]
    BY <1>1, <1>8, <2>1, <2>2
  <2>4. S[q(95)] <= S[q(99)] /\ S[q(99)] <= S[n]
    BY <1>1, <1>8, <2>1, <2>2
  <2>5. P(50) = S[q(50)] /\ P(95) = S[q(95)] /\ P(99) = S[q(99)]
    BY <1>2, <1>7
  <2>6. QED
    BY <1>3, <2>3, <2>4, <2>5
<1>13. 2 * AtMost(values, P(50)) >= n /\ 2 * AtLeast(values, P(50)) >= n
  <2> DEFINE a == AtMost(values, P(50))
             b == AtLeast(values, P(50))
  <2>1. q(50) \in 1..n /\ P(50) = S[q(50)] /\ P(50) \in Int
    BY <1>2, <1>7, <1>11
  <2>2. S[q(50)] <= P(50) /\ S[q(50)] >= P(50)
    BY <2>1
  <2>3. a \in Nat /\ b \in Nat /\ a >= q(50) /\ b >= n - q(50) + 1
    BY <1>5, <2>1, <2>2
  <2>4. q(50) \in Nat
    BY <1>1, <2>1
  <2> HIDE DEF a, b
  <2>5. 2 * a >= n /\ 2 * b >= n
    BY <1>1, <1>9, <2>3, <2>4
  <2>6. QED
    BY <2>5 DEF a, b
<1>14. ASSUME NEW percent \in Percents, NEW w \in {values[i] : i \in DOMAIN values}
       PROVE  100 * AtMost(values, w) >= percent * n <=> w >= P(percent)
  <2>1. w \in Int
    BY <1>4
  <2>2. q(percent) \in 1..n /\ P(percent) = S[q(percent)] /\ P(percent) \in Int
    BY <1>2, <1>11
  <2>3. AtMost(values, w) \in Nat /\ (AtMost(values, w) >= q(percent) <=> P(percent) <= w)
    BY <1>5, <2>1, <2>2
  <2>4. 100 * AtMost(values, w) >= percent * n <=> AtMost(values, w) >= q(percent)
    BY <1>10, <2>3
  <2>5. P(percent) <= w <=> w >= P(percent)
    BY <2>1, <2>2
  <2>6. QED
    BY <2>3, <2>4, <2>5
<1>15. QED
  BY <1>6, <1>11, <1>12, <1>13, <1>14 DEF n, P, r

(* Of a row with interpolated percentiles, in hundredths. *)
LEMMA InterpolatedRow ==
  ASSUME NEW values \in Seq(Int), Len(values) > 0
  PROVE  LET n == Len(values)
             r == Summary(values, TRUE)
             P(percent) == Interpolated(values, percent)
         IN  /\ r.p50 = P(50) /\ r.p95 = P(95) /\ r.p99 = P(99)
             /\ \A percent \in Percents : P(percent) \in Int
             /\ 100 * r.min <= P(50) /\ P(50) <= P(95) /\ P(95) <= P(99) /\ P(99) <= 100 * r.max
             /\ \E u, v \in Int : /\ 100 * u <= P(50) /\ P(50) <= 100 * v
                                  /\ 2 * AtMost(values, u) >= n /\ 2 * AtLeast(values, v) >= n
<1> DEFINE n == Len(values)
           S == SortBy(values, Smaller)
           P(percent) == Interpolated(values, percent)
           lo(percent) == (percent * (n - 1)) \div 100
           part(percent) == (percent * (n - 1)) % 100
           up(percent) == IF part(percent) = 0 THEN lo(percent) + 1 ELSE lo(percent) + 2
           r == Summary(values, TRUE)
<1>1. /\ n \in Nat /\ n > 0
      /\ \A k \in 1..n : S[k] \in Int
      /\ \A j, k \in 1..n : j <= k => S[j] <= S[k]
  BY SortedValues
<1>2. \A percent \in Percents :
        /\ lo(percent) \in 0..(n - 1) /\ part(percent) \in 0..99
        /\ percent * (n - 1) = 100 * lo(percent) + part(percent)
        /\ part(percent) # 0 => lo(percent) + 1 < n
        /\ P(percent) = IF part(percent) = 0 THEN 100 * S[lo(percent) + 1]
                        ELSE 100 * S[lo(percent) + 1]
                               + part(percent) * (S[lo(percent) + 2] - S[lo(percent) + 1])
  BY InterpolatedIs
<1>3. r.min = S[1] /\ r.max = S[n]
  BY Extremes
<1>5. \A v \in Int, k \in 1..n : /\ AtMost(values, v) \in Nat /\ AtLeast(values, v) \in Nat
                                 /\ AtMost(values, v) >= k <=> S[k] <= v
                                 /\ AtLeast(values, v) >= n - k + 1 <=> S[k] >= v
  BY SortedCounts
<1>6. r.p50 = P(50) /\ r.p95 = P(95) /\ r.p99 = P(99)
  BY DEF Summary
<1>7. 50 \in Percents /\ 95 \in Percents /\ 99 \in Percents
  BY DEF Percents
<1> HIDE DEF n, S, P, r, lo, part
<1>8. ASSUME NEW percent \in Percents
      PROVE  /\ lo(percent) + 1 \in 1..n /\ up(percent) \in 1..n
             /\ lo(percent) + 1 <= up(percent)
             /\ P(percent) \in Int
             /\ 100 * S[lo(percent) + 1] <= P(percent) /\ P(percent) <= 100 * S[up(percent)]
  <2> DEFINE l == lo(percent)
             t == part(percent)
             d == S[l + 2] - S[l + 1]
  <2>1. l \in Nat /\ l <= n - 1 /\ t \in 0..99 /\ (t # 0 => l + 1 < n)
    BY <1>1, <1>2
  <2>2. P(percent) = IF t = 0 THEN 100 * S[l + 1] ELSE 100 * S[l + 1] + t * d
    BY <1>2
  <2>3. up(percent) = IF t = 0 THEN l + 1 ELSE l + 2
    OBVIOUS
  <2> HIDE DEF l, t, up
  <2>4. l + 1 \in 1..n /\ up(percent) \in 1..n /\ l + 1 <= up(percent) /\ S[l + 1] \in Int
    BY <1>1, <2>1, <2>3
  <2>5. CASE t = 0
    BY <1>1, <2>2, <2>3, <2>4, <2>5 DEF l
  <2>6. CASE t # 0
    <3>1. l + 2 \in 1..n /\ l + 1 <= l + 2 /\ up(percent) = l + 2
      BY <1>1, <2>1, <2>3, <2>6
    <3>2. S[l + 2] \in Int /\ S[l + 1] <= S[l + 2]
      BY <1>1, <2>4, <3>1
    <3>3. d \in Nat
      BY <2>4, <3>2
    <3>4. t * d \in Int /\ 0 <= t * d /\ t * d <= 100 * d
      <4> HIDE DEF d
      <4>1. QED
        BY <2>1, <3>3, Products
    <3> DEFINE td == t * d
    <3>5. td \in Int /\ 0 <= td /\ td <= 100 * (S[l + 2] - S[l + 1])
      BY <3>4
    <3>6. P(percent) = 100 * S[l + 1] + td
      BY <2>2, <2>6
    <3> HIDE DEF td
    <3> DEFINE x == S[l + 1]
               y == S[l + 2]
    <3>9. x \in Int /\ y \in Int /\ td <= 100 * (y - x) /\ P(percent) = 100 * x + td
      BY <2>4, <3>2, <3>5, <3>6
    <3> HIDE DEF x, y
    <3>10. 100 * x <= P(percent) /\ P(percent) <= 100 * y /\ P(percent) \in Int
      BY <3>5, <3>9
    <3>7. 100 * S[l + 1] <= P(percent) /\ P(percent) <= 100 * S[l + 2] /\ P(percent) \in Int
      BY <3>10 DEF x, y
    <3>8. QED
      BY <2>4, <3>1, <3>7 DEF l
  <2>7. QED
    BY <2>5, <2>6
<1>9. ASSUME NEW a \in Percents, NEW b \in Percents, a * (n - 1) <= b * (n - 1)
      PROVE  P(a) <= P(b)
  <2>1. /\ lo(a) \in Nat /\ part(a) \in 0..99 /\ lo(b) \in Nat /\ part(b) \in 0..99
        /\ lo(a) <= n - 1 /\ lo(b) <= n - 1
        /\ 100 * lo(a) + part(a) <= 100 * lo(b) + part(b)
    <3>1. a * (n - 1) = 100 * lo(a) + part(a) /\ b * (n - 1) = 100 * lo(b) + part(b)
      BY <1>2
    <3>2. lo(a) \in 0..(n - 1) /\ part(a) \in 0..99 /\ lo(b) \in 0..(n - 1) /\ part(b) \in 0..99
      BY <1>2
    <3>3. 100 * lo(a) + part(a) <= 100 * lo(b) + part(b)
      BY <1>9, <3>1
    <3>4. QED
      BY <1>1, <3>2, <3>3
  <2>2. lo(a) < lo(b) \/ (lo(a) = lo(b) /\ part(a) <= part(b))
    <3> DEFINE la == lo(a)
               lb == lo(b)
               pa == part(a)
               pb == part(b)
    <3>1. la \in Nat /\ lb \in Nat /\ pa \in 0..99 /\ pb \in 0..99 /\ 100 * la + pa <= 100 * lb + pb
      BY <2>1
    <3> HIDE DEF la, lb, pa, pb
    <3>2. la < lb \/ (la = lb /\ pa <= pb)
      BY <3>1
    <3>3. QED
      BY <3>2 DEF la, lb, pa, pb
  <2>3. CASE lo(a) < lo(b)
    <3>1. up(a) <= lo(b) + 1
      <4> DEFINE la == lo(a)
                 lb == lo(b)
      <4>1. la \in Nat /\ lb \in Nat /\ la < lb
        BY <2>1, <2>3
      <4>2. up(a) = la + 1 \/ up(a) = la + 2
        OBVIOUS
      <4>3. QED
        <5> HIDE DEF la, up
        <5>1. up(a) <= lb + 1
          <6> HIDE DEF lb
          <6>1. QED
            BY <4>1, <4>2
        <5>2. QED
          BY <5>1
    <3>2. up(a) \in 1..n /\ lo(b) + 1 \in 1..n
      BY <1>8
    <3> HIDE DEF up
    <3>3. S[up(a)] \in Int /\ S[lo(b) + 1] \in Int /\ S[up(a)] <= S[lo(b) + 1]
      BY <1>1, <3>1, <3>2
    <3>4. /\ P(a) \in Int /\ P(b) \in Int
          /\ P(a) <= 100 * S[up(a)] /\ 100 * S[lo(b) + 1] <= P(b)
      BY <1>8
    <3>5. QED
      BY <3>3, <3>4
  <2>4. CASE lo(a) = lo(b) /\ part(a) <= part(b)
    <3> DEFINE l == lo(a)
               d == S[l + 2] - S[l + 1]
    <3>1. CASE part(a) = 0
      <4>1. P(a) = 100 * S[lo(b) + 1]
        BY <1>2, <2>4, <3>1
      <4>2. QED
        BY <1>8, <4>1
    <3>2. CASE part(a) # 0
      <4> DEFINE u == part(a)
                 v == part(b)
      <4>6. u \in Nat /\ v \in Nat /\ u <= v
        <5>1. u \in 0..99 /\ v \in 0..99 /\ u <= v
          BY <2>1, <2>4
        <5> HIDE DEF u, v
        <5>2. QED
          BY <5>1
      <4>1. v # 0 /\ l + 1 < n
        <5>1. l + 1 < n
          BY <1>2, <3>2
        <5>2. u # 0
          BY <3>2
        <5>3. v # 0
          <6> HIDE DEF u, v
          <6>1. QED
            BY <4>6, <5>2
        <5>4. QED
          BY <5>1, <5>3
      <4>2. l + 1 \in 1..n /\ l + 2 \in 1..n /\ l + 1 <= l + 2
        <5>1. l \in Nat
          BY <2>1
        <5> HIDE DEF l
        <5>2. QED
          BY <1>1, <4>1, <5>1
      <4>3. S[l + 1] \in Int /\ S[l + 2] \in Int /\ S[l + 1] <= S[l + 2]
        BY <1>1, <4>2
      <4>4. d \in Nat
        BY <4>3
      <4>5. P(a) = 100 * S[l + 1] + part(a) * d /\ P(b) = 100 * S[l + 1] + part(b) * d
        BY <1>2, <2>4, <3>2, <4>1
      <4>7. u * d <= v * d /\ u * d \in Int /\ v * d \in Int
        <5> HIDE DEF d, u, v
        <5>1. QED
          BY <4>4, <4>6, Products
      <4> DEFINE ud == u * d
                 vd == v * d
      <4>8. P(a) = 100 * S[l + 1] + ud /\ P(b) = 100 * S[l + 1] + vd /\ ud <= vd /\ ud \in Int /\ vd \in Int
        BY <4>5, <4>7
      <4> HIDE DEF ud, vd, l
      <4>9. QED
        BY <4>3, <4>8
    <3>3. QED
      BY <3>1, <3>2
  <2>5. QED
    BY <2>2, <2>3, <2>4
<1>10. P(50) <= P(95) /\ P(95) <= P(99)
  <2>1. 50 * (n - 1) <= 95 * (n - 1) /\ 95 * (n - 1) <= 99 * (n - 1)
    BY <1>1
  <2>2. QED
    BY <1>7, <1>9, <2>1
<1> HIDE DEF up
<1>11. 100 * r.min <= P(50) /\ P(99) <= 100 * r.max
  <2>1. 1 \in 1..n /\ n \in 1..n /\ lo(50) + 1 \in 1..n /\ 1 <= lo(50) + 1 /\ up(99) \in 1..n /\ up(99) <= n
    BY <1>1, <1>7, <1>8
  <2>2. S[1] <= S[lo(50) + 1] /\ S[up(99)] <= S[n] /\ S[1] \in Int /\ S[n] \in Int
        /\ S[lo(50) + 1] \in Int /\ S[up(99)] \in Int
    BY <1>1, <2>1
  <2>3. P(50) \in Int /\ P(99) \in Int /\ 100 * S[lo(50) + 1] <= P(50) /\ P(99) <= 100 * S[up(99)]
    BY <1>7, <1>8
  <2> DEFINE low == S[lo(50) + 1]
             high == S[up(99)]
             s1 == S[1]
             sn == S[n]
  <2>4. /\ low \in Int /\ high \in Int /\ s1 \in Int /\ sn \in Int /\ s1 <= low /\ high <= sn
        /\ 100 * low <= P(50) /\ P(99) <= 100 * high /\ r.min = s1 /\ r.max = sn
    BY <1>3, <2>2, <2>3
  <2> HIDE DEF low, high, s1, sn
  <2>5. QED
    BY <2>3, <2>4
<1>12. \E u, v \in Int : /\ 100 * u <= P(50) /\ P(50) <= 100 * v
                         /\ 2 * AtMost(values, u) >= n /\ 2 * AtLeast(values, v) >= n
  <2> DEFINE j == lo(50) + 1
             k == up(50)
             u == S[j]
             v == S[k]
  <2>1. j \in 1..n /\ k \in 1..n /\ 100 * u <= P(50) /\ P(50) <= 100 * v
    BY <1>7, <1>8
  <2>2. 2 * j >= n /\ 2 * (n - k + 1) >= n
    <3>1. /\ 50 * (n - 1) = 100 * lo(50) + part(50) /\ part(50) \in 0..99
          /\ lo(50) \in 0..(n - 1)
      BY <1>2, <1>7
    <3>2. lo(50) \in Int
      BY <1>1, <3>1
    <3>3. part(50) = 0 => k = lo(50) + 1
      BY DEF up
    <3>4. part(50) # 0 => k = lo(50) + 2
      BY DEF up
    <3> DEFINE l == lo(50)
               t == part(50)
    <3>5. /\ 50 * (n - 1) = 100 * l + t /\ t \in 0..99 /\ l \in Int /\ j = l + 1
          /\ (t = 0 => k = l + 1) /\ (t # 0 => k = l + 2)
      BY <3>1, <3>2, <3>3, <3>4
    <3> HIDE DEF k, l, t, j
    <3>6. CASE t = 0
      BY <1>1, <3>5, <3>6
    <3>7. CASE t # 0
      BY <1>1, <3>5, <3>7
    <3>8. QED
      BY <3>6, <3>7
  <2>3. u \in Int /\ v \in Int /\ u <= u /\ v >= v
    BY <1>1, <2>1
  <2>4. /\ AtMost(values, u) \in Nat /\ AtMost(values, u) >= j
        /\ AtLeast(values, v) \in Nat /\ AtLeast(values, v) >= n - k + 1
    BY <1>5, <2>1, <2>3
  <2>5. j \in Int /\ k \in Int
    BY <1>1, <2>1
  <2> HIDE DEF j, k, u, v
  <2>6. 2 * AtMost(values, u) >= n /\ 2 * AtLeast(values, v) >= n
    BY <1>1, <2>2, <2>4, <2>5
  <2>7. QED
    BY <2>1, <2>3, <2>6
<1>13. \A percent \in Percents : P(percent) \in Int
  BY <1>8
<1>14. QED
  BY <1>6, <1>10, <1>11, <1>12, <1>13 DEF n, P, r

-------------------------------------------------------------------------------
(* What RanksAreRight says of a row. *)
LEMMA RowRight ==
  ASSUME NEW values \in Seq(Int), Len(values) > 0, NEW interpolates \in BOOLEAN
  PROVE  LET n == Len(values)
             scale == IF interpolates THEN 100 ELSE 1
             scaled == [i \in DOMAIN values |-> scale * values[i]]
             r == Summary(values, interpolates)
             Least(v, percent) ==
               \A w \in {values[i] : i \in DOMAIN values} :
                 100 * AtMost(values, w) >= percent * n <=> w >= v
         IN  /\ scale * r.min <= r.p50 /\ r.p50 <= r.p95 /\ r.p95 <= r.p99 /\ r.p99 <= scale * r.max
             /\ 2 * AtMost(scaled, r.p50) >= n /\ 2 * AtLeast(scaled, r.p50) >= n
             /\ ~interpolates => Least(r.p50, 50) /\ Least(r.p95, 95) /\ Least(r.p99, 99)
<1> DEFINE n == Len(values)
           scale == IF interpolates THEN 100 ELSE 1
           scaled == [i \in DOMAIN values |-> scale * values[i]]
           r == Summary(values, interpolates)
           Least(v, percent) ==
             \A w \in {values[i] : i \in DOMAIN values} :
               100 * AtMost(values, w) >= percent * n <=> w >= v
<1>1. n \in Nat /\ 50 \in Percents /\ 95 \in Percents /\ 99 \in Percents
  BY DEF Percents
<1>2. r.min \in Int /\ r.max \in Int
  <2>1. /\ 1 \in 1..n /\ n \in 1..n
        /\ \A k \in 1..n : SortBy(values, Smaller)[k] \in Int
    BY SortedValues
  <2>2. r.min = SortBy(values, Smaller)[1] /\ r.max = SortBy(values, Smaller)[n]
    BY Extremes
  <2> HIDE DEF r, n
  <2>3. QED
    BY <2>1, <2>2
<1>3. CASE ~interpolates
  <2> DEFINE P(percent) == NearestRank(values, percent)
             s == Summary(values, FALSE)
  <2>1. /\ s.p50 = P(50) /\ s.p95 = P(95) /\ s.p99 = P(99)
        /\ \A percent \in Percents : P(percent) \in Int
        /\ s.min <= P(50) /\ P(50) <= P(95) /\ P(95) <= P(99) /\ P(99) <= s.max
        /\ 2 * AtMost(values, P(50)) >= n /\ 2 * AtLeast(values, P(50)) >= n
        /\ \A percent \in Percents : Least(P(percent), percent)
    BY NearestRow
  <2>2. r = s /\ scale = 1
    <3>1. interpolates = FALSE
      BY <1>3
    <3>2. QED
      BY <3>1
  <2>3. scaled = values
    <3>1. \A i \in DOMAIN values : 1 * values[i] = values[i]
      BY ElementOfSeq
    <3>2. scaled = [i \in DOMAIN values |-> values[i]]
      BY <2>2, <3>1
    <3>3. QED
      BY <3>2
  <2>4. Least(r.p50, 50) /\ Least(r.p95, 95) /\ Least(r.p99, 99)
    <3> HIDE DEF Least, P, r, s
    <3>1. QED
      BY <1>1, <2>1, <2>2
  <2> HIDE DEF r, s, P, n, scale, scaled, Least
  <2>5. /\ scale * r.min = r.min /\ scale * r.max = r.max
    BY <1>2, <2>2
  <2>6. /\ r.min <= r.p50 /\ r.p50 <= r.p95 /\ r.p95 <= r.p99 /\ r.p99 <= r.max
        /\ 2 * AtMost(scaled, r.p50) >= n /\ 2 * AtLeast(scaled, r.p50) >= n
    BY <2>1, <2>2, <2>3
  <2>7. /\ scale * r.min <= r.p50 /\ r.p50 <= r.p95 /\ r.p95 <= r.p99 /\ r.p99 <= scale * r.max
    BY <2>5, <2>6
  <2>8. QED
    BY <2>4, <2>6, <2>7 DEF r, n, scale, scaled, Least
<1>4. CASE interpolates
  <2> DEFINE P(percent) == Interpolated(values, percent)
             s == Summary(values, TRUE)
  <2>1. /\ s.p50 = P(50) /\ s.p95 = P(95) /\ s.p99 = P(99)
        /\ \A percent \in Percents : P(percent) \in Int
        /\ 100 * s.min <= P(50) /\ P(50) <= P(95) /\ P(95) <= P(99) /\ P(99) <= 100 * s.max
        /\ \E u, v \in Int : /\ 100 * u <= P(50) /\ P(50) <= 100 * v
                             /\ 2 * AtMost(values, u) >= n /\ 2 * AtLeast(values, v) >= n
    BY InterpolatedRow
  <2>2. PICK u \in Int, v \in Int : /\ 100 * u <= P(50) /\ P(50) <= 100 * v
                                    /\ 2 * AtMost(values, u) >= n /\ 2 * AtLeast(values, v) >= n
    BY <2>1
  <2>3. r = s /\ scale = 100
    <3>1. interpolates = TRUE
      BY <1>4
    <3>2. QED
      BY <3>1
  <2>4. P(50) \in Int
    BY <1>1, <2>1
  <2> DEFINE S == [i \in DOMAIN values |-> 100 * values[i]]
             p == P(50)
  <2>5. /\ AtMost(S, p) \in Nat /\ AtLeast(S, p) \in Nat
        /\ AtMost(S, p) >= AtMost(values, u)
    <3> HIDE DEF p
    <3>1. p \in Int /\ 100 * u <= p
      BY <2>2, <2>4 DEF p
    <3>2. QED
      BY <3>1, ScaledCounts
  <2>6. AtLeast(S, p) >= AtLeast(values, v)
    <3> HIDE DEF p
    <3>1. p \in Int /\ 100 * v >= p
      <4>1. p \in Int /\ p <= 100 * v
        BY <2>2, <2>4 DEF p
      <4>2. QED
        BY <4>1
    <3>2. QED
      BY <3>1, ScaledCounts
  <2>7. AtMost(values, u) \in Nat /\ AtLeast(values, v) \in Nat
    <3>1. 1 \in 1..Len(values)
      BY <1>1
    <3>2. QED
      BY <3>1, SortedCounts
  <2>8. scaled = S
    BY <2>3
  <2> HIDE DEF r, s, P, n, scale, scaled, S
  <2>9. 2 * AtMost(S, p) >= n /\ 2 * AtLeast(S, p) >= n
    <3> HIDE DEF p
    <3> DEFINE a == AtMost(S, p)
               b == AtLeast(S, p)
               c == AtMost(values, u)
               d == AtLeast(values, v)
    <3>1. a \in Nat /\ b \in Nat /\ c \in Nat /\ d \in Nat /\ a >= c /\ b >= d /\ 2 * c >= n /\ 2 * d >= n
      BY <2>2, <2>5, <2>6, <2>7
    <3> HIDE DEF a, b, c, d
    <3>2. 2 * a >= n /\ 2 * b >= n
      BY <1>1, <3>1
    <3>3. QED
      BY <3>2 DEF a, b
  <2>10. /\ scale * r.min <= r.p50 /\ r.p50 <= r.p95 /\ r.p95 <= r.p99 /\ r.p99 <= scale * r.max
         /\ 2 * AtMost(scaled, r.p50) >= n /\ 2 * AtLeast(scaled, r.p50) >= n
    BY <2>1, <2>3, <2>8, <2>9
  <2>11. QED
    BY <1>4, <2>10 DEF r, n, scale, scaled
<1>5. QED
  BY <1>3, <1>4

(* Every entry of an event carries a number. *)
LEMMA EntryNumbers ==
  ASSUME NEW e \in Events
  PROVE  \A x \in Entries(e) : x[3] \in Int
<1>1. e.micros \in Int
  BY EventAssumption DEF Events
<1>2. \A n \in ScallNumbers \cup FileDBNumbers : NumberOk(e, n) => e.fields[n] \in Int
  BY EventAssumption DEF Events, NumberOk, Has
<1>3. \A x \in OverviewEntries(e) : x[3] \in Int
  <2> DEFINE total == <<<<"total">>, "", e.micros>>
             type == <<<<"type">>, e.name, e.micros>>
             bucket == <<<<"bucket">>, BucketStart(e.at, Interval), e.micros>>
  <2>1. \A x \in {total, type, bucket} : x[3] = e.micros
    <3>1. total[3] = e.micros /\ type[3] = e.micros /\ bucket[3] = e.micros
      OBVIOUS
    <3> HIDE DEF total, type, bucket
    <3>2. QED
      BY <3>1
  <2>2. \A x \in {<<<<"overview", f>>, TextOr(e, f, Unknown), e.micros>> : f \in OverviewFields} :
          x[3] = e.micros
    OBVIOUS
  <2>3. QED
    BY <1>1, <2>1, <2>2, Zenon DEF OverviewEntries
<1>4. \A x \in SqlEntries(e) : x[3] \in Int
  BY <1>1, <1>2 DEF SqlEntries, When, FileDBNumbers
<1>5. \A x \in LockEntries(e) : x[3] \in Int
  <2> DEFINE key == <<e.name, TextOr(e, "Context", ""), NamesIn(e, "Tables"), NamesIn(e, "Regions")>>
             pair == <<e.name, e.fields["Waiter"], e.fields["Blocker"], TextOr(e, "Context", "")>>
             main == {<<<<"lock", "event">>, e.name, e.micros>>, <<<<"lock", "conflict">>, key, e.micros>>}
             context == {<<<<"lock", "context">>, e.fields["Context"], e.micros>>}
             tables == {<<<<"lock", "table">>, t, e.micros>> : t \in NamesIn(e, "Tables")}
             regions == {<<<<"lock", "region">>, r, e.micros>> : r \in NamesIn(e, "Regions")}
             relation == {<<<<"lock", "relation">>, pair, e.micros>>}
  <2>1. LockEntries(e) \subseteq main \cup context \cup tables \cup regions \cup relation
    <3> HIDE DEF main, context, tables, regions, relation
    <3>1. LockEntries(e) =
            IF IsLock(e)
            THEN main \cup (IF Has(e, "Context") THEN context ELSE {}) \cup tables \cup regions
                   \cup (IF Related(e) THEN relation ELSE {})
            ELSE {}
      BY Zenon DEF LockEntries, When, main, context, tables, regions, relation
    <3>2. QED
      BY <3>1
  <2>2. \A x \in main : x[3] = e.micros
    <3> HIDE DEF key
    <3>1. QED
      OBVIOUS
  <2>3. \A x \in context \cup tables \cup regions : x[3] = e.micros
    OBVIOUS
  <2>4. \A x \in relation : x[3] = e.micros
    <3> HIDE DEF pair
    <3>1. QED
      OBVIOUS
  <2> HIDE DEF main, context, tables, regions, relation
  <2>5. QED
    BY <1>1, <2>1, <2>2, <2>3, <2>4
<1>6. \A x \in ScallEntries(e) : x[3] \in Int
  BY <1>1, <1>2 DEF ScallEntries
<1>7. \A x \in ProcessEntries(e) : x[3] \in Int
  BY <1>1 DEF ProcessEntries, When
<1>8. \A x \in LicenseEntries(e) : x[3] \in Int
  <2> DEFINE row == [f \in {"Func", "res", "process", "Usr"} |-> TextOr(e, f, "")]
             key == <<HaspOrigin(e), TextOr(e, "process", ""), TextOr(e, "Usr", "")>>
  <2>1. LicenseEntries(e) \subseteq {<<<<"license", "row">>, row, e.micros>>,
                                    <<<<"license", "hasp">>, key, e.micros>>}
    <3> HIDE DEF row, key
    <3>1. LicenseEntries(e) =
            CASE e.name = "LIC" -> {<<<<"license", "row">>, row, e.micros>>}
              [] e.name = "HASP" -> {<<<<"license", "hasp">>, key, e.micros>>}
              [] e.name \notin {"LIC", "HASP"} -> {}
      BY Zenon DEF LicenseEntries, row, key
    <3>2. QED
      BY <3>1
  <2> HIDE DEF row, key
  <2>2. QED
    BY <1>1, <2>1
<1>9. \A x \in FileDBEntries(e) : x[3] \in Int
  BY <1>1, <1>2 DEF FileDBEntries
<1>10. QED
  BY <1>3, <1>4, <1>5, <1>6, <1>7, <1>8, <1>9 DEF Entries

(* A group is there because something was added to it. *)
Valued == \A g \in DOMAIN groups : groups[g] \in Seq(Int) /\ Len(groups[g]) > 0

(* Every group of the analyzers holds at least one number, and only numbers. *)
LEMMA GroupsStayValued ==
  ASSUME Valued, NEW e \in Events
  PROVE  LET G == Added(groups, Entries(e))
         IN  \A g \in DOMAIN G : G[g] \in Seq(Int) /\ Len(G[g]) > 0
<1> DEFINE entries == Entries(e)
           new == {<<x[1], x[2]>> : x \in entries}
           G == Added(groups, entries)
           old(g) == IF g \in DOMAIN groups THEN groups[g] ELSE <<>>
           add(g) == IF g \in new THEN <<ValueOf(entries, g)>> ELSE <<>>
<1>1. \A x \in entries : x[3] \in Int
  BY EntryNumbers
<1>2. DOMAIN G = DOMAIN groups \cup new /\ \A g \in DOMAIN G : G[g] = old(g) \o add(g)
  BY DEF Added
<1> HIDE DEF entries, G
<1>3. \A g \in new : ValueOf(entries, g) \in Int
  <2> TAKE g \in new
  <2> DEFINE it == CHOOSE x \in entries : <<x[1], x[2]>> = g
  <2>1. \E x \in entries : <<x[1], x[2]>> = g
    OBVIOUS
  <2>2. it \in entries
    BY <2>1
  <2>3. QED
    BY <1>1, <2>2 DEF ValueOf
<1>4. \A g : old(g) \in Seq(Int) /\ (g \in DOMAIN groups => Len(old(g)) > 0)
  BY EmptySeq DEF Valued
<1>5. \A g : add(g) \in Seq(Int) /\ (g \in new => Len(add(g)) = 1)
  BY <1>3, EmptySeq
<1> HIDE DEF old, add, new
<1>6. ASSUME NEW g \in DOMAIN G
      PROVE  G[g] \in Seq(Int) /\ Len(G[g]) > 0
  <2>1. old(g) \in Seq(Int) /\ add(g) \in Seq(Int) /\ G[g] = old(g) \o add(g)
    BY <1>2, <1>4, <1>5
  <2>2. G[g] \in Seq(Int) /\ Len(G[g]) = Len(old(g)) + Len(add(g))
    BY <2>1, ConcatProperties
  <2>3. Len(old(g)) > 0 \/ Len(add(g)) = 1
    BY <1>2, <1>4, <1>5
  <2> DEFINE a == Len(old(g))
             b == Len(add(g))
  <2>4. a \in Nat /\ b \in Nat
    BY <2>1, LenProperties
  <2> HIDE DEF a, b
  <2>5. Len(G[g]) = a + b /\ (a > 0 \/ b = 1)
    BY <2>2, <2>3 DEF a, b
  <2>6. QED
    BY <2>2, <2>4, <2>5
<1>7. QED
  BY <1>6 DEF G, entries

-------------------------------------------------------------------------------
(* A set of natural numbers that is not empty has a least member. *)
LEMMA LeastExists ==
  ASSUME NEW S \in SUBSET Nat, S # {}
  PROVE  \E m \in S : \A k \in S : m <= k
<1> DEFINE less == OpToRel(<, Nat)
<1>1. IsWellFoundedOn(less, Nat)
  BY NatLessThanWellFounded
<1>2. \A x, y \in Nat : x < y => <<x, y>> \in less
  BY DEF OpToRel
<1> HIDE DEF less
<1>3. PICK m \in S : \A k \in S : ~(<<k, m>> \in less)
  BY <1>1, WFMin
<1>4. \A k \in S : k \in Nat /\ ~(k < m)
  BY <1>2, <1>3
<1>5. QED
  BY <1>4

(* Induction over the subsets of a finite set, as a fact about the set of   *)
(* those that have a property: the library's theorem takes an operator.     *)
LEMMA SubsetsByRemoval ==
  ASSUME NEW S, IsFiniteSet(S), NEW C,
         {} \in C,
         \A s \in SUBSET S : s # {} /\ (\A x \in s : s \ {x} \in C) => s \in C
  PROVE  SUBSET S \subseteq C
<1> DEFINE bad == (SUBSET S) \ C
           sizes == {Cardinality(s) : s \in bad}
<1>1. \A s \in SUBSET S : IsFiniteSet(s) /\ Cardinality(s) \in Nat
  BY FS_Subset, FS_CardinalityType
<1>2. sizes \in SUBSET Nat
  BY <1>1
<1>3. SUFFICES ASSUME bad # {} PROVE FALSE
  OBVIOUS
<1>4. sizes # {}
  BY <1>3
<1>5. PICK m \in sizes : \A k \in sizes : m <= k
  <2> HIDE DEF sizes
  <2>1. QED
    BY <1>2, <1>4, LeastExists
<1>6. PICK s \in bad : Cardinality(s) = m
  BY <1>5
<1>7. s \in SUBSET S /\ s \notin C
  BY <1>6
<1>8. s # {}
  BY <1>7, Zenon
<1>9. PICK x \in s : s \ {x} \notin C
  BY <1>7, <1>8
<1>10. s \ {x} \in bad
  BY <1>7, <1>9
<1>11. /\ Cardinality(s \ {x}) = Cardinality(s) - 1
       /\ Cardinality(s) \in Nat /\ Cardinality(s \ {x}) \in Nat
  BY <1>1, <1>7, <1>9, <1>10, FS_RemoveElement
<1>12. Cardinality(s \ {x}) \in sizes
  BY <1>10
<1> DEFINE a == Cardinality(s)
           b == Cardinality(s \ {x})
<1>13. a = m /\ b = a - 1 /\ a \in Nat /\ b \in Nat /\ m <= b
  BY <1>5, <1>6, <1>11, <1>12
<1> HIDE DEF a, b
<1>14. QED
  BY <1>13

(* Induction over the natural numbers, likewise. *)
LEMMA NumbersByStep ==
  ASSUME NEW S, 0 \in S, \A n \in Nat : n \in S => n + 1 \in S
  PROVE  Nat \subseteq S
<1> DEFINE others == Nat \ S
<1>1. SUFFICES ASSUME others # {} PROVE FALSE
  OBVIOUS
<1>2. PICK m \in others : \A k \in others : m <= k
  <2>1. others \in SUBSET Nat
    OBVIOUS
  <2> HIDE DEF others
  <2>2. QED
    BY <1>1, <2>1, LeastExists
<1>3. m \in Nat /\ m # 0
  BY <1>2
<1>4. m - 1 \in Nat /\ m - 1 \notin others
  BY <1>2, <1>3
<1>5. m - 1 \in S /\ (m - 1) + 1 = m
  BY <1>3, <1>4
<1>6. QED
  BY <1>2, <1>4, <1>5

(* A sum over a set is built by one element after another. *)
One(s) == CHOOSE x \in s : TRUE

Builds(h, f, S) ==
  \A s \in SUBSET S : h[s] = IF s = {} THEN 0 ELSE f[One(s)] + h[s \ {One(s)}]

Recurses(h, f, S) ==
  h = [s \in SUBSET S |-> IF s = {} THEN 0 ELSE f[One(s)] + h[s \ {One(s)}]]

(* There is such a sum. *)
LEMMA SumExists ==
  ASSUME NEW S, IsFiniteSet(S), NEW f
  PROVE  \E h : Recurses(h, f, S)
<1> DEFINE E(h, s) == IF s = {} THEN 0 ELSE f[One(s)] + h[s \ {One(s)}]
           Below(k) == {s \in SUBSET S : Cardinality(s) <= k}
           K == {k \in Nat : \E h : h = [s \in Below(k) |-> E(h, s)]}
<1>1. \A s \in SUBSET S : IsFiniteSet(s) /\ Cardinality(s) \in Nat
  BY FS_Subset, FS_CardinalityType
<1>2. \A s \in SUBSET S : s # {} =>
        One(s) \in s /\ s \ {One(s)} \in SUBSET S /\ Cardinality(s \ {One(s)}) = Cardinality(s) - 1
  BY <1>1, FS_RemoveElement DEF One
<1>3. 0 \in K
  <2>1. Below(0) \subseteq {{}}
    BY <1>1, FS_EmptySet
  <2> DEFINE h == [s \in Below(0) |-> 0]
  <2>2. \A s \in Below(0) : E(h, s) = 0
    BY <2>1
  <2>3. h = [s \in Below(0) |-> E(h, s)]
    BY <2>2
  <2>4. QED
    BY <2>3
<1>4. ASSUME NEW k \in Nat, k \in K
      PROVE  k + 1 \in K
  <2>1. PICK h : h = [s \in Below(k) |-> E(h, s)]
    BY <1>4
  <2> DEFINE g == [s \in Below(k + 1) |-> E(h, s)]
  <2>2. \A s \in Below(k) : s \in Below(k + 1)
    BY <1>1
  <2>3. \A s \in Below(k) : g[s] = h[s]
    BY <2>1, <2>2
  <2>4. \A s \in Below(k + 1) : s # {} => s \ {One(s)} \in Below(k)
    BY <1>1, <1>2
  <2>5. \A s \in Below(k + 1) : E(g, s) = E(h, s)
    <3> HIDE DEF g, Below
    <3>1. QED
      BY <2>3, <2>4
  <2>6. g = [s \in Below(k + 1) |-> E(g, s)]
    <3> DEFINE F(s) == E(g, s)
               G(s) == E(h, s)
    <3>1. \A s \in Below(k + 1) : F(s) = G(s)
      BY <2>5
    <3>2. g = [s \in Below(k + 1) |-> G(s)]
      OBVIOUS
    <3> HIDE DEF F, G, Below, g
    <3>3. g = [s \in Below(k + 1) |-> F(s)]
      BY <3>1, <3>2
    <3>4. QED
      BY <3>3 DEF F
  <2> HIDE DEF g, E, Below
  <2>7. QED
    BY <2>6
<1>5. Cardinality(S) \in Nat
  BY <1>1
<1>6. Cardinality(S) \in K
  <2> HIDE DEF K
  <2>1. QED
    BY <1>3, <1>4, <1>5, NumbersByStep
<1>7. Below(Cardinality(S)) = SUBSET S
  BY FS_Subset
<1>8. \E h : h = [s \in SUBSET S |-> E(h, s)]
  <2> HIDE DEF E, Below
  <2>1. QED
    BY <1>6, <1>7
<1>9. QED
  BY <1>8 DEF Recurses

(* Sums that are built alike over the same elements are the same. *)
LEMMA SumUnique ==
  ASSUME NEW h, NEW f, NEW S, NEW k, NEW g, NEW T,
         Builds(h, f, S), Builds(k, g, T), IsFiniteSet(S), T \in SUBSET S,
         \A x \in T : f[x] = g[x]
  PROVE  \A s \in SUBSET T : h[s] = k[s]
<1> DEFINE C == {s \in SUBSET T : h[s] = k[s]}
<1>1. IsFiniteSet(T)
  BY FS_Subset
<1>2. {} \in C
  BY DEF Builds
<1>3. ASSUME NEW s \in SUBSET T, s # {}, \A x \in s : s \ {x} \in C
      PROVE  s \in C
  <2>1. One(s) \in s
    BY <1>3 DEF One
  <2>2. h[s \ {One(s)}] = k[s \ {One(s)}] /\ f[One(s)] = g[One(s)]
    BY <1>3, <2>1
  <2>3. /\ h[s] = f[One(s)] + h[s \ {One(s)}]
        /\ k[s] = g[One(s)] + k[s \ {One(s)}]
    BY <1>3 DEF Builds
  <2>4. QED
    BY <2>2, <2>3
<1>4. SUBSET T \subseteq C
  <2> HIDE DEF C
  <2>1. QED
    BY <1>1, <1>2, <1>3, SubsetsByRemoval
<1>5. QED
  BY <1>4

(* SumFunctionOnSet of the community modules is built so. *)
LEMMA SumIsBuilt ==
  ASSUME NEW S, IsFiniteSet(S), NEW f
  PROVE  \E h : Builds(h, f, S) /\ SumFunctionOnSet(f, S) = h[S]
<1> DEFINE h == CHOOSE h : Recurses(h, f, S)
<1>1. Recurses(h, f, S)
  BY SumExists, Zenon
<1>2. SumFunctionOnSet(f, S) = h[S]
  BY DEF SumFunctionOnSet, FoldFunctionOnSet, MapThenFoldSet, One, Recurses
<1> HIDE DEF h
<1>3. Builds(h, f, S)
  BY <1>1 DEF Recurses, Builds
<1>4. QED
  BY <1>2, <1>3

(* A sum depends on the summands only ... *)
LEMMA SumAlike ==
  ASSUME NEW S, IsFiniteSet(S), NEW f, NEW g, \A x \in S : f[x] = g[x]
  PROVE  SumFunctionOnSet(f, S) = SumFunctionOnSet(g, S)
<1>1. PICK h : Builds(h, f, S) /\ SumFunctionOnSet(f, S) = h[S]
  BY SumIsBuilt
<1>2. PICK k : Builds(k, g, S) /\ SumFunctionOnSet(g, S) = k[S]
  BY SumIsBuilt
<1>3. S \in SUBSET S
  OBVIOUS
<1>4. \A s \in SUBSET S : h[s] = k[s]
  <2> HIDE DEF Builds
  <2>1. QED
    BY <1>1, <1>2, <1>3, SumUnique
<1>5. QED
  BY <1>1, <1>2, <1>3, <1>4

(* ... and any of them can be taken out. *)
LEMMA SumSteps ==
  ASSUME NEW S, IsFiniteSet(S), NEW f, \A x \in S : f[x] \in Int
  PROVE  /\ SumFunctionOnSet(f, {}) = 0
         /\ SumFunctionOnSet(f, S) \in Int
         /\ \A x \in S : SumFunctionOnSet(f, S) = f[x] + SumFunctionOnSet(f, S \ {x})
<1>1. PICK h : Builds(h, f, S) /\ SumFunctionOnSet(f, S) = h[S]
  BY SumIsBuilt
<1>2. \A T \in SUBSET S : SumFunctionOnSet(f, T) = h[T]
  <2> TAKE T \in SUBSET S
  <2>1. IsFiniteSet(T)
    BY FS_Subset
  <2>2. PICK k : Builds(k, f, T) /\ SumFunctionOnSet(f, T) = k[T]
    BY <2>1, SumIsBuilt
  <2>3. \A s \in SUBSET T : h[s] = k[s]
    <3>1. \A x \in T : f[x] = f[x]
      OBVIOUS
    <3>2. QED
      BY <1>1, <2>2, <3>1, SumUnique
  <2>4. QED
    BY <2>2, <2>3
<1>3. h[{}] = 0
  BY <1>1 DEF Builds
<1> DEFINE I == {s \in SUBSET S : h[s] \in Int}
           C == {s \in SUBSET S : \A x \in s : h[s] = f[x] + h[s \ {x}]}
<1>8. \A s \in SUBSET S : h[s] \in Int
  <2>1. {} \in I
    BY <1>3
  <2>2. ASSUME NEW s \in SUBSET S, s # {}, \A x \in s : s \ {x} \in I
        PROVE  s \in I
    <3>1. One(s) \in s
      BY <2>2 DEF One
    <3>2. h[s] = f[One(s)] + h[s \ {One(s)}] /\ f[One(s)] \in Int /\ h[s \ {One(s)}] \in Int
      BY <1>1, <2>2, <3>1 DEF Builds
    <3>3. QED
      BY <3>2
  <2>3. SUBSET S \subseteq I
    <3> HIDE DEF I
    <3>1. QED
      BY <2>1, <2>2, SubsetsByRemoval
  <2>4. QED
    BY <2>3
<1>4. {} \in C
  OBVIOUS
<1>5. ASSUME NEW s \in SUBSET S, s # {}, \A x \in s : s \ {x} \in C
      PROVE  s \in C
  <2> DEFINE o == One(s)
  <2>1. o \in s
    BY <1>5 DEF One
  <2>2. h[s] = f[o] + h[s \ {o}]
    BY <1>1, <1>5 DEF Builds
  <2> HIDE DEF o
  <2>3. h[s \ {o}] \in Int /\ f[o] \in Int
    BY <1>8, <2>1
  <2>5. ASSUME NEW x \in s, x # o
        PROVE  h[s] = f[x] + h[s \ {x}]
    <3> DEFINE r == (s \ {o}) \ {x}
    <3>1. r = (s \ {x}) \ {o}
      OBVIOUS
    <3>2. h[s \ {o}] = f[x] + h[r]
      BY <1>5, <2>1, <2>5
    <3>3. h[s \ {x}] = f[o] + h[r]
      <4>1. s \ {x} \in C /\ o \in s \ {x}
        BY <1>5, <2>1, <2>5
      <4>2. h[s \ {x}] = f[o] + h[(s \ {x}) \ {o}]
        BY <4>1
      <4>3. QED
        BY <3>1, <4>2
    <3>4. h[r] \in Int /\ f[x] \in Int
      BY <1>8
    <3> HIDE DEF r
    <3>5. QED
      BY <2>2, <2>3, <3>2, <3>3, <3>4
  <2>6. QED
    BY <2>2, <2>5
<1>6. SUBSET S \subseteq C
  <2> HIDE DEF C
  <2>1. QED
    BY <1>4, <1>5, SubsetsByRemoval
<1>7. \A x \in S : h[S] = f[x] + h[S \ {x}]
  <2>1. S \in C
    BY <1>6
  <2>2. QED
    BY <2>1
<1>9. \A x \in S : S \ {x} \in SUBSET S
  OBVIOUS
<1> HIDE DEF I, C
<1>10. S \in SUBSET S /\ {} \in SUBSET S
  OBVIOUS
<1>11. QED
  BY <1>2, <1>3, <1>7, <1>8, <1>9, <1>10

(* When a summand changes or comes in, the sum moves by the difference. *)
LEMMA SumGrows ==
  ASSUME NEW f, NEW S, NEW g, NEW T, NEW x,
         IsFiniteSet(S), T = S \cup {x}, g[x] \in Int,
         \A y \in S : f[y] \in Int /\ (y # x => g[y] = f[y])
  PROVE  SumFunctionOnSet(g, T)
           = SumFunctionOnSet(f, S) + (g[x] - (IF x \in S THEN f[x] ELSE 0))
<1> DEFINE R == S \ {x}
           a == SumFunctionOnSet(f, S)
           b == SumFunctionOnSet(g, T)
           c == SumFunctionOnSet(f, R)
           d == SumFunctionOnSet(g, R)
<1>1. IsFiniteSet(T) /\ IsFiniteSet(R)
  BY FS_AddElement, FS_RemoveElement
<1>2. R = T \ {x} /\ x \in T
  OBVIOUS
<1>3. b = g[x] + d
  BY <1>1, <1>2, SumSteps
<1>4. c = d
  BY <1>1, SumAlike
<1>5. a \in Int /\ c \in Int
  BY <1>1, SumSteps
<1>6. CASE x \in S
  <2>1. a = f[x] + c /\ f[x] \in Int /\ g[x] \in Int
    BY <1>2, <1>6, SumSteps
  <2> HIDE DEF a, b, c, d
  <2>2. b = a + (g[x] - f[x])
    BY <1>3, <1>4, <1>5, <2>1
  <2>3. QED
    BY <1>5, <1>6, <2>2 DEF a, b
<1>7. CASE x \notin S
  <2>1. a = c /\ g[x] \in Int
    <3>1. R = S
      BY <1>7
    <3>2. QED
      BY <1>2, <3>1
  <2> HIDE DEF a, b, c, d
  <2>2. b = a + (g[x] - 0)
    BY <1>3, <1>4, <1>5, <2>1
  <2>3. QED
    BY <1>5, <1>7, <2>2 DEF a, b
<1>8. QED
  BY <1>6, <1>7

(* The sum of a sequence grows by what is appended. *)
LEMMA SumOfSteps ==
  /\ SumOf(<<>>) = 0
  /\ \A values \in Seq(Int) : SumOf(values) \in Int
  /\ \A values \in Seq(Int), v \in Int : SumOf(values \o <<v>>) = SumOf(values) + v
<1>1. \A values : SumOf(values) = SumFunctionOnSet(values, DOMAIN values)
  BY DEF SumOf, FoldSeq, FoldFunction, SumFunctionOnSet, FoldFunctionOnSet
<1>2. \A values \in Seq(Int) : /\ Len(values) \in Nat /\ DOMAIN values = 1..Len(values)
                               /\ IsFiniteSet(DOMAIN values) /\ \A i \in DOMAIN values : values[i] \in Int
  <2> TAKE values \in Seq(Int)
  <2> DEFINE n == Len(values)
  <2>1. n \in Nat /\ DOMAIN values = 1..n /\ \A i \in DOMAIN values : values[i] \in Int
    BY ElementOfSeq
  <2> HIDE DEF n
  <2>2. IsFiniteSet(1..n)
    BY <2>1, FS_Interval
  <2>3. QED
    BY <2>1, <2>2 DEF n
<1>3. SumOf(<<>>) = 0
  <2>1. DOMAIN <<>> = {}
    OBVIOUS
  <2>2. IsFiniteSet({})
    BY FS_EmptySet
  <2>3. SumFunctionOnSet(<<>>, {}) = 0
    BY <2>2, SumSteps
  <2>4. QED
    BY <1>1, <2>1, <2>3
<1>4. \A values \in Seq(Int) : SumOf(values) \in Int
  BY <1>1, <1>2, SumSteps
<1>5. ASSUME NEW values \in Seq(Int), NEW v \in Int
      PROVE  SumOf(values \o <<v>>) = SumOf(values) + v
  <2> DEFINE n == Len(values)
             more == values \o <<v>>
             S == DOMAIN values
             T == DOMAIN more
  <2>1. /\ n \in Nat /\ S = 1..n /\ IsFiniteSet(S) /\ \A i \in S : values[i] \in Int
    BY <1>2
  <2>2. more \in Seq(Int) /\ T = 1..(n + 1) /\ more[n + 1] = v /\ \A i \in 1..n : more[i] = values[i]
    <3>1. Len(<<v>>) = 1 /\ <<v>> \in Seq(Int) /\ <<v>>[1] = v
      OBVIOUS
    <3>2. more \in Seq(Int) /\ Len(more) = n + 1
      BY <2>1, <3>1, ConcatProperties
    <3>3. T = 1..(n + 1)
      BY <3>2
    <3>4. \A i \in 1..(n + 1) : more[i] = IF i <= n THEN values[i] ELSE <<v>>[i - n]
      BY <2>1, <3>1, ConcatProperties
    <3> HIDE DEF more, T, n
    <3>5. more[n + 1] = v
      <4>1. n + 1 \in 1..(n + 1) /\ ~(n + 1 <= n) /\ n + 1 - n = 1
        BY <2>1
      <4> DEFINE m == n + 1
      <4>2. m \in 1..(n + 1) /\ ~(m <= n) /\ m - n = 1
        BY <2>1
      <4> HIDE DEF m
      <4>3. more[m] = <<v>>[m - n]
        BY <3>4, <4>2
      <4>4. more[m] = v
        BY <3>1, <4>2, <4>3
      <4>5. QED
        BY <4>4 DEF m
    <3>6. \A i \in 1..n : more[i] = values[i]
      <4>1. \A i \in 1..n : i \in 1..(n + 1) /\ i <= n
        BY <2>1
      <4>2. QED
        BY <3>4, <4>1
    <3>7. QED
      BY <3>2, <3>3, <3>5, <3>6
  <2>3. \A i \in T : more[i] \in Int
    BY <2>2, ElementOfSeq
  <2>4. T = S \cup {n + 1} /\ n + 1 \notin S
    <3> HIDE DEF n, S, T
    <3>1. QED
      BY <2>1, <2>2
  <2>5. \A i \in S \ {n + 1} : more[i] = values[i]
    BY <2>1, <2>2
  <2> HIDE DEF n, S, T, more
  <2> DEFINE a == SumFunctionOnSet(values, S)
             b == SumFunctionOnSet(more, T)
  <2>6. a \in Int /\ b = a + (more[n + 1] - 0)
    <3> DEFINE m == n + 1
    <3>1. /\ T = S \cup {m} /\ m \notin S /\ IsFiniteSet(S) /\ more[m] \in Int
          /\ \A y \in S : values[y] \in Int /\ (y # m => more[y] = values[y])
      BY <2>1, <2>3, <2>4, <2>5
    <3> HIDE DEF m
    <3>2. SumFunctionOnSet(more, T)
               = SumFunctionOnSet(values, S) + (more[m] - (IF m \in S THEN values[m] ELSE 0))
      BY <3>1, SumGrows
    <3>3. a \in Int
      BY <2>1, SumSteps
    <3>4. QED
      BY <3>1, <3>2, <3>3 DEF m
  <2> HIDE DEF a, b
  <2>7. b = a + v
    BY <2>2, <2>6
  <2>8. SumOf(values) = a /\ SumOf(more) = b
    BY <1>1 DEF a, b, S, T
  <2>9. QED
    BY <2>7, <2>8 DEF more
<1>6. QED
  BY <1>3, <1>4, <1>5

(* The counters are numbers. *)
Counted == \A c : Copies(c) \in Nat

(* A counter of an event moves by one. *)
LEMMA CopiesMove ==
  ASSUME NEW e, quality' = quality (+) SetToBag(Counts(e)), Counted, NEW c
  PROVE  Copies(c)' = Copies(c) + (IF c \in Counts(e) THEN 1 ELSE 0)
<1> DEFINE C == Counts(e)
<1>1. /\ DOMAIN quality' = DOMAIN quality \cup C
      /\ \A x \in DOMAIN quality \cup C :
           quality'[x] = (IF x \in DOMAIN quality THEN quality[x] ELSE 0) + (IF x \in C THEN 1 ELSE 0)
  BY DEF (+), SetToBag, BagToSet
<1> HIDE DEF C
<1>2. Copies(c) \in Nat
  BY DEF Counted
<1>3. QED
  BY <1>1, <1>2 DEF Copies, C

-------------------------------------------------------------------------------
(* What is added to a dimension: nothing, or one value. *)
Adds(entries, dim, added) ==
  /\ \A x, y \in entries : x[1] = dim /\ y[1] = dim => x = y
  /\ added <=> \E x \in entries : x[1] = dim

AddsTo(e, dim, added) == Adds(Entries(e), dim, added)

(* The dimensions of an analyzer carry its name. *)
LEMMA WhoseEntries ==
  ASSUME NEW e, NEW x \in Entries(e)
  PROVE  /\ x[1][1] \in {"total", "type", "bucket", "overview"} => x \in OverviewEntries(e)
         /\ x[1][1] = "lock" => x \in LockEntries(e)
         /\ x[1][1] = "scall" => x \in ScallEntries(e)
         /\ x[1][1] \in {"proc", "scom"} => x \in ProcessEntries(e)
         /\ x[1][1] = "license" => x \in LicenseEntries(e)
         /\ x[1][1] = "filedb" => x \in FileDBEntries(e)
<1>1. \A y \in OverviewEntries(e) : y[1][1] \in {"total", "type", "bucket", "overview"}
  <2> DEFINE total == <<<<"total">>, "", e.micros>>
             type == <<<<"type">>, e.name, e.micros>>
             bucket == <<<<"bucket">>, BucketStart(e.at, Interval), e.micros>>
             fields == {<<<<"overview", f>>, TextOr(e, f, Unknown), e.micros>> : f \in OverviewFields}
  <2>1. total[1][1] = "total" /\ type[1][1] = "type" /\ bucket[1][1] = "bucket"
    OBVIOUS
  <2>2. \A y \in fields : y[1][1] = "overview"
    OBVIOUS
  <2>3. OverviewEntries(e) = {total, type, bucket} \cup fields
    BY DEF OverviewEntries
  <2> HIDE DEF total, type, bucket, fields
  <2>4. QED
    BY <2>1, <2>2, <2>3
<1>2. \A y \in SqlEntries(e) : y[1][1] = "sql"
  BY DEF SqlEntries, When
<1>3. \A y \in LockEntries(e) : y[1][1] = "lock"
  <2> DEFINE key == <<e.name, TextOr(e, "Context", ""), NamesIn(e, "Tables"), NamesIn(e, "Regions")>>
             pair == <<e.name, e.fields["Waiter"], e.fields["Blocker"], TextOr(e, "Context", "")>>
             main == {<<<<"lock", "event">>, e.name, e.micros>>, <<<<"lock", "conflict">>, key, e.micros>>}
             context == {<<<<"lock", "context">>, e.fields["Context"], e.micros>>}
             tables == {<<<<"lock", "table">>, t, e.micros>> : t \in NamesIn(e, "Tables")}
             regions == {<<<<"lock", "region">>, r, e.micros>> : r \in NamesIn(e, "Regions")}
             relation == {<<<<"lock", "relation">>, pair, e.micros>>}
  <2>1. LockEntries(e) \subseteq main \cup context \cup tables \cup regions \cup relation
    <3> HIDE DEF main, context, tables, regions, relation
    <3>1. LockEntries(e) =
            IF IsLock(e)
            THEN main \cup (IF Has(e, "Context") THEN context ELSE {}) \cup tables \cup regions
                   \cup (IF Related(e) THEN relation ELSE {})
            ELSE {}
      BY Zenon DEF LockEntries, When, main, context, tables, regions, relation
    <3>2. QED
      BY <3>1
  <2> HIDE DEF key, pair
  <2>2. \A y \in main \cup context \cup tables \cup regions \cup relation : y[1][1] = "lock"
    OBVIOUS
  <2>3. QED
    BY <2>1, <2>2
<1>4. \A y \in ScallEntries(e) : y[1][1] = "scall"
  BY DEF ScallEntries
<1>5. \A y \in ProcessEntries(e) : y[1][1] \in {"proc", "scom"}
  BY DEF ProcessEntries, When
<1>6. \A y \in LicenseEntries(e) : y[1][1] = "license"
  <2> DEFINE row == [f \in {"Func", "res", "process", "Usr"} |-> TextOr(e, f, "")]
             key == <<HaspOrigin(e), TextOr(e, "process", ""), TextOr(e, "Usr", "")>>
  <2>1. LicenseEntries(e) \subseteq {<<<<"license", "row">>, row, e.micros>>,
                                    <<<<"license", "hasp">>, key, e.micros>>}
    <3> HIDE DEF row, key
    <3>1. LicenseEntries(e) =
            CASE e.name = "LIC" -> {<<<<"license", "row">>, row, e.micros>>}
              [] e.name = "HASP" -> {<<<<"license", "hasp">>, key, e.micros>>}
              [] e.name \notin {"LIC", "HASP"} -> {}
      BY Zenon DEF LicenseEntries, row, key
    <3>2. QED
      BY <3>1
  <2> HIDE DEF row, key
  <2>2. QED
    BY <2>1
<1>7. \A y \in FileDBEntries(e) : y[1][1] = "filedb"
  BY DEF FileDBEntries
<1>8. \/ x \in OverviewEntries(e) \/ x \in SqlEntries(e) \/ x \in LockEntries(e) \/ x \in ScallEntries(e)
      \/ x \in ProcessEntries(e) \/ x \in LicenseEntries(e) \/ x \in FileDBEntries(e)
  BY Zenon DEF Entries
<1>9. QED
  BY <1>1, <1>2, <1>3, <1>4, <1>5, <1>6, <1>7, <1>8

(* The tables of the overview take every event. *)
LEMMA OverviewAdds ==
  ASSUME NEW e,
         NEW dim \in {<<"total">>, <<"type">>, <<"bucket">>} \cup {<<"overview", f>> : f \in OverviewFields}
  PROVE  AddsTo(e, dim, TRUE) /\ \A x \in Entries(e) : x[1] = dim => x[3] = e.micros
<1> DEFINE total == <<<<"total">>, "", e.micros>>
           type == <<<<"type">>, e.name, e.micros>>
           bucket == <<<<"bucket">>, BucketStart(e.at, Interval), e.micros>>
           field(f) == <<<<"overview", f>>, TextOr(e, f, Unknown), e.micros>>
<1>1. OverviewEntries(e) = {total, type, bucket} \cup {field(f) : f \in OverviewFields}
  BY DEF OverviewEntries
<1>2. /\ total[1] = <<"total">> /\ type[1] = <<"type">> /\ bucket[1] = <<"bucket">>
      /\ total[3] = e.micros /\ type[3] = e.micros /\ bucket[3] = e.micros
      /\ \A f : field(f)[1] = <<"overview", f>> /\ field(f)[3] = e.micros
  OBVIOUS
<1>3. dim[1] \in {"total", "type", "bucket", "overview"}
  OBVIOUS
<1>4. \A f, g : <<"overview", f>> = <<"overview", g>> => f = g
  OBVIOUS
<1>5. \A x \in Entries(e) : x[1] = dim => x \in OverviewEntries(e)
  BY <1>3, WhoseEntries
<1>6. OverviewEntries(e) \subseteq Entries(e)
  BY DEF Entries
<1> HIDE DEF total, type, bucket, field
<1>7. \A x, y \in OverviewEntries(e) : x[1] = dim /\ y[1] = dim => x = y
  <2>1. <<"total">> # <<"type">> /\ <<"total">> # <<"bucket">> /\ <<"type">> # <<"bucket">>
    OBVIOUS
  <2>2. \A f : <<"overview", f>> \notin {<<"total">>, <<"type">>, <<"bucket">>}
    OBVIOUS
  <2>3. QED
    BY <1>1, <1>2, <1>4, <2>1, <2>2
<1>8. \E x \in OverviewEntries(e) : x[1] = dim
  BY <1>1, <1>2
<1>9. \A x \in OverviewEntries(e) : x[3] = e.micros
  BY <1>1, <1>2
<1>10. QED
  BY <1>5, <1>6, <1>7, <1>8, <1>9 DEF AddsTo, Adds

(* Each lock is in one row by event and in one by conflict. *)
LEMMA LockAdds ==
  ASSUME NEW e
  PROVE  /\ AddsTo(e, <<"lock", "event">>, IsLock(e))
         /\ AddsTo(e, <<"lock", "conflict">>, IsLock(e))
         /\ AddsTo(e, <<"lock", "context">>, IsLock(e) /\ Has(e, "Context"))
         /\ AddsTo(e, <<"lock", "relation">>, IsLock(e) /\ Related(e))
<1> DEFINE key == <<e.name, TextOr(e, "Context", ""), NamesIn(e, "Tables"), NamesIn(e, "Regions")>>
           pair == <<e.name, e.fields["Waiter"], e.fields["Blocker"], TextOr(e, "Context", "")>>
           event == <<<<"lock", "event">>, e.name, e.micros>>
           conflict == <<<<"lock", "conflict">>, key, e.micros>>
           context == <<<<"lock", "context">>, e.fields["Context"], e.micros>>
           tables == {<<<<"lock", "table">>, t, e.micros>> : t \in NamesIn(e, "Tables")}
           regions == {<<<<"lock", "region">>, r, e.micros>> : r \in NamesIn(e, "Regions")}
           relation == <<<<"lock", "relation">>, pair, e.micros>>
<1>1. LockEntries(e) =
        IF IsLock(e)
        THEN {event, conflict} \cup (IF Has(e, "Context") THEN {context} ELSE {}) \cup tables \cup regions
               \cup (IF Related(e) THEN {relation} ELSE {})
        ELSE {}
  <2> HIDE DEF event, conflict, context, tables, regions, relation
  <2>1. QED
    BY Zenon DEF LockEntries, When, event, conflict, context, tables, regions, relation
<1> HIDE DEF key, pair
<1>2. /\ event[1] = <<"lock", "event">> /\ conflict[1] = <<"lock", "conflict">>
      /\ context[1] = <<"lock", "context">> /\ relation[1] = <<"lock", "relation">>
      /\ \A x \in tables : x[1] = <<"lock", "table">>
      /\ \A x \in regions : x[1] = <<"lock", "region">>
  OBVIOUS
<1>3. \A d, f : <<"lock", d>> = <<"lock", f>> => d = f
  OBVIOUS
<1>4. \A d, x : x \in Entries(e) /\ x[1] = <<"lock", d>> => x \in LockEntries(e)
  BY WhoseEntries
<1>5. LockEntries(e) \subseteq Entries(e)
  BY DEF Entries
<1> HIDE DEF event, conflict, context, tables, regions, relation
<1>6. \A x \in LockEntries(e) :
        /\ x[1] = <<"lock", "event">> => x = event
        /\ x[1] = <<"lock", "conflict">> => x = conflict
        /\ x[1] = <<"lock", "context">> => x = context
        /\ x[1] = <<"lock", "relation">> => x = relation
  BY <1>1, <1>2, <1>3
<1>7. /\ event \in LockEntries(e) <=> IsLock(e)
      /\ conflict \in LockEntries(e) <=> IsLock(e)
      /\ context \in LockEntries(e) <=> IsLock(e) /\ Has(e, "Context")
      /\ relation \in LockEntries(e) <=> IsLock(e) /\ Related(e)
  BY <1>1, <1>2, <1>3
<1>8. AddsTo(e, <<"lock", "event">>, IsLock(e))
  BY <1>2, <1>4, <1>5, <1>6, <1>7 DEF AddsTo, Adds
<1>9. AddsTo(e, <<"lock", "conflict">>, IsLock(e))
  BY <1>2, <1>4, <1>5, <1>6, <1>7 DEF AddsTo, Adds
<1>10. AddsTo(e, <<"lock", "context">>, IsLock(e) /\ Has(e, "Context"))
  BY <1>2, <1>4, <1>5, <1>6, <1>7 DEF AddsTo, Adds
<1>11. AddsTo(e, <<"lock", "relation">>, IsLock(e) /\ Related(e))
  BY <1>2, <1>4, <1>5, <1>6, <1>7 DEF AddsTo, Adds
<1>12. QED
  BY <1>8, <1>9, <1>10, <1>11

(* A call is in one row of each of its tables. *)
LEMMA ScallAdds ==
  ASSUME NEW e
  PROVE  /\ \A f \in ScallFields \cup {"call"} : AddsTo(e, <<"scall", f>>, e.name = "SCALL")
         /\ \A f \in ScallFields \cup {"call"}, n \in ScallNumbers :
              AddsTo(e, <<"scall", f, n>>, e.name = "SCALL" /\ NumberOk(e, n))
<1> DEFINE call == [f \in {"Interface", "IName", "Method"} |-> TextOr(e, f, Missing)]
           key(f) == IF f = "call" THEN call ELSE TextOr(e, f, Missing)
           row(f) == <<<<"scall", f>>, key(f), e.micros>>
           number(f, n) == <<<<"scall", f, n>>, key(f), e.fields[n]>>
           F == ScallFields \cup {"call"}
           N == {n \in ScallNumbers : NumberOk(e, n)}
<1>1. ScallKeys(e) = {<<f, key(f)>> : f \in F}
  <2>1. "call" \notin ScallFields
    BY DEF ScallFields
  <2> DEFINE text(f) == TextOr(e, f, Missing)
  <2>2. ScallKeys(e) = {<<"call", call>>} \cup {<<f, text(f)>> : f \in ScallFields}
    BY DEF ScallKeys
  <2> HIDE DEF call, text
  <2>3. \A f \in ScallFields : key(f) = text(f)
    BY <2>1 DEF text
  <2>4. QED
    BY <2>2, <2>3
<1> HIDE DEF key
<1>2. ScallEntries(e) = IF e.name = "SCALL"
        THEN {row(f) : f \in F} \cup {number(f, n) : f \in F, n \in N} ELSE {}
  <2>1. \A k \in ScallKeys(e) : \E f \in F : k[1] = f /\ k[2] = key(f)
    BY <1>1
  <2>2. \A f \in F : \E k \in ScallKeys(e) : k[1] = f /\ k[2] = key(f)
    <3> TAKE f \in F
    <3> HIDE DEF F
    <3> DEFINE k == <<f, key(f)>>
    <3>1. k \in ScallKeys(e) /\ k[1] = f /\ k[2] = key(f)
      BY <1>1
    <3>2. QED
      BY <3>1
  <2> DEFINE rows == {row(f) : f \in F}
             numbers == {number(f, n) : f \in F, n \in N}
             A == {<<<<"scall", k[1]>>, k[2], e.micros>> : k \in ScallKeys(e)}
             B == UNION {{<<<<"scall", k[1], n>>, k[2], e.fields[n]>> : k \in ScallKeys(e)} : n \in N}
  <2>3. A = rows
    BY <2>1, <2>2
  <2>4. B = numbers
    BY <2>1, <2>2
  <2>5. ScallEntries(e) = IF e.name # "SCALL" THEN {} ELSE A \cup B
    BY Zenon DEF ScallEntries
  <2>6. ScallEntries(e) = IF e.name # "SCALL" THEN {} ELSE rows \cup numbers
    <3> HIDE DEF rows, numbers, A, B
    <3>1. QED
      BY <2>3, <2>4, <2>5
  <2>7. QED
    BY <2>6
<1>3. \A d, n, x : x \in Entries(e) /\ (x[1] = <<"scall", d>> \/ x[1] = <<"scall", d, n>>)
                => x \in ScallEntries(e)
  BY WhoseEntries
<1>4. ScallEntries(e) \subseteq Entries(e)
  BY DEF Entries
<1>5. \A f, n : row(f)[1] = <<"scall", f>> /\ number(f, n)[1] = <<"scall", f, n>>
  OBVIOUS
<1>6. \A f, n, g, m : /\ <<"scall", f>> = <<"scall", g>> => f = g
                      /\ <<"scall", f, n>> = <<"scall", g, m>> => f = g /\ n = m
                      /\ <<"scall", f>> # <<"scall", g, m>>
  OBVIOUS
<1> HIDE DEF row, number, F, N
<1>7. ASSUME NEW f \in F
      PROVE  AddsTo(e, <<"scall", f>>, e.name = "SCALL")
  <2> DEFINE dim == <<"scall", f>>
  <2>1. \A x \in ScallEntries(e) : x[1] = dim => x = row(f) /\ e.name = "SCALL"
    BY <1>2, <1>5, <1>6
  <2>2. e.name = "SCALL" => row(f) \in ScallEntries(e) /\ row(f)[1] = dim
    BY <1>2, <1>5
  <2>3. \A x \in Entries(e) : x[1] = dim => x \in ScallEntries(e)
    BY <1>3
  <2> HIDE DEF dim
  <2>4. AddsTo(e, dim, e.name = "SCALL")
    BY <1>4, <2>1, <2>2, <2>3 DEF AddsTo, Adds
  <2>5. QED
    BY <2>4 DEF dim
<1>8. ASSUME NEW f \in F, NEW n
      PROVE  AddsTo(e, <<"scall", f, n>>, e.name = "SCALL" /\ n \in N)
  <2> DEFINE dim == <<"scall", f, n>>
  <2>1. \A x \in ScallEntries(e) : x[1] = dim => x = number(f, n) /\ e.name = "SCALL" /\ n \in N
    BY <1>2, <1>5, <1>6
  <2>2. e.name = "SCALL" /\ n \in N => number(f, n) \in ScallEntries(e) /\ number(f, n)[1] = dim
    BY <1>2, <1>5
  <2>3. \A x \in Entries(e) : x[1] = dim => x \in ScallEntries(e)
    BY <1>3
  <2> HIDE DEF dim
  <2>4. AddsTo(e, dim, e.name = "SCALL" /\ n \in N)
    BY <1>4, <2>1, <2>2, <2>3 DEF AddsTo, Adds
  <2>5. QED
    BY <2>4 DEF dim
<1>9. \A n \in ScallNumbers : n \in N <=> NumberOk(e, n)
  BY DEF N
<1>10. QED
  <2>1. \A f \in ScallFields \cup {"call"} : AddsTo(e, <<"scall", f>>, e.name = "SCALL")
    BY <1>7 DEF F
  <2>2. ASSUME NEW f \in ScallFields \cup {"call"}, NEW n \in ScallNumbers
        PROVE  AddsTo(e, <<"scall", f, n>>, e.name = "SCALL" /\ NumberOk(e, n))
    <3>1. AddsTo(e, <<"scall", f, n>>, e.name = "SCALL" /\ n \in N)
      BY <1>8 DEF F
    <3>2. QED
      BY <1>9, <3>1 DEF AddsTo, Adds
  <2>3. QED
    BY <2>1, <2>2

(* A function of SCOM is in one row of each of its tables. *)
LEMMA ProcessAdds ==
  ASSUME NEW e
  PROVE  /\ AddsTo(e, <<"proc", "process">>, e.name = "PROC")
         /\ \A t \in {"operation", "process", "composite"} :
              AddsTo(e, <<"scom", t>>, e.name = "SCOM" /\ FunctionOk(e))
         /\ AddsTo(e, <<"scom", "relation">>,
                   e.name = "SCOM" /\ FunctionOk(e) /\ FunctionOutcome(e) = "relation")
<1> DEFINE process == TextOr(e, "process", Missing)
           func == e.fields["Func"]
           proc(f) == <<<<"proc", f>>, TextOr(e, f, Missing), e.micros>>
           key(t) == CASE t = "operation" -> func[1]
                       [] t = "process" -> process
                       [] t = "composite" -> <<func[1], process>>
                       [] t = "relation" -> <<process, func[1], func[3], func[4]>>
           row(t) == <<<<"scom", t>>, key(t), e.micros>>
           T == {"operation", "process", "composite"}
           calls == e.name = "SCOM" /\ FunctionOk(e)
           relates == FunctionOutcome(e) = "relation"
<1>1. ProcessEntries(e) =
        IF e.name = "PROC" THEN {proc(f) : f \in {"process", "OSThread"}}
        ELSE IF calls THEN {row(t) : t \in T} \cup (IF relates THEN {row("relation")} ELSE {})
        ELSE {}
  <2> DEFINE a == {<<<<"scom", "operation">>, func[1], e.micros>>,
                   <<<<"scom", "process">>, process, e.micros>>,
                   <<<<"scom", "composite">>, <<func[1], process>>, e.micros>>}
             b == <<<<"scom", "relation">>, <<process, func[1], func[3], func[4]>>, e.micros>>
             p == {proc(f) : f \in {"process", "OSThread"}}
  <2>1. ProcessEntries(e) =
          CASE e.name = "PROC" -> p
            [] e.name = "SCOM" /\ FunctionOk(e) -> a \cup When(relates, {b})
            [] e.name \notin {"PROC", "SCOM"} \/ (e.name = "SCOM" /\ ~FunctionOk(e)) -> {}
    BY DEF ProcessEntries
  <2>2. row("relation") = b
    OBVIOUS
  <2>3. a = {row("operation"), row("process"), row("composite")}
    OBVIOUS
  <2> HIDE DEF a, b, p, row, relates
  <2>4. a = {row(t) : t \in T}
    BY <2>3
  <2>5. e.name = "PROC" => ProcessEntries(e) = p
    BY <2>1
  <2>6. calls => ProcessEntries(e) = a \cup (IF relates THEN {b} ELSE {})
    BY <2>1 DEF When
  <2>7. e.name # "PROC" /\ ~calls => ProcessEntries(e) = {}
    BY <2>1
  <2>8. QED
    BY <2>2, <2>4, <2>5, <2>6, <2>7 DEF p
<1>2. \A d, x : x \in Entries(e) /\ (x[1] = <<"proc", d>> \/ x[1] = <<"scom", d>>) => x \in ProcessEntries(e)
  BY WhoseEntries
<1>3. ProcessEntries(e) \subseteq Entries(e)
  BY DEF Entries
<1>4. \A f : proc(f)[1] = <<"proc", f>> /\ row(f)[1] = <<"scom", f>>
  OBVIOUS
<1>5. \A f, g : /\ <<"proc", f>> = <<"proc", g>> => f = g
                /\ <<"scom", f>> = <<"scom", g>> => f = g
                /\ <<"scom", f>> # <<"proc", g>>
  OBVIOUS
<1> HIDE DEF row, proc
<1>6. AddsTo(e, <<"proc", "process">>, e.name = "PROC")
  BY <1>1, <1>2, <1>3, <1>4, <1>5 DEF AddsTo, Adds
<1> HIDE DEF calls, relates
<1>10. e.name = "PROC" => ~calls
  BY DEF calls
<1>7. ASSUME NEW t \in T
      PROVE  AddsTo(e, <<"scom", t>>, calls)
  <2> DEFINE dim == <<"scom", t>>
  <2>1. \A x \in ProcessEntries(e) : x[1] = dim => x = row(t) /\ calls
    BY <1>1, <1>4, <1>5
  <2>2. calls => row(t) \in ProcessEntries(e) /\ row(t)[1] = dim
    BY <1>1, <1>4, <1>10
  <2>3. \A x \in Entries(e) : x[1] = dim => x \in ProcessEntries(e)
    BY <1>2
  <2> HIDE DEF dim
  <2>4. AddsTo(e, dim, calls)
    BY <1>3, <2>1, <2>2, <2>3 DEF AddsTo, Adds
  <2>5. QED
    BY <2>4 DEF dim
<1>8. AddsTo(e, <<"scom", "relation">>, calls /\ relates)
  <2> DEFINE dim == <<"scom", "relation">>
  <2>1. \A x \in ProcessEntries(e) : x[1] = dim => x = row("relation") /\ calls /\ relates
    BY <1>1, <1>4, <1>5
  <2>2. calls /\ relates => row("relation") \in ProcessEntries(e) /\ row("relation")[1] = dim
    BY <1>1, <1>4, <1>10
  <2>3. \A x \in Entries(e) : x[1] = dim => x \in ProcessEntries(e)
    BY <1>2
  <2> HIDE DEF dim
  <2>4. AddsTo(e, dim, calls /\ relates)
    BY <1>3, <2>1, <2>2, <2>3 DEF AddsTo, Adds
  <2>5. QED
    BY <2>4 DEF dim
<1>9. QED
  BY <1>6, <1>7, <1>8 DEF calls, relates, AddsTo, Adds

(* A license event is in one row, a query of HASP in one of its own. *)
LEMMA LicenseAdds ==
  ASSUME NEW e
  PROVE  /\ AddsTo(e, <<"license", "row">>, e.name = "LIC")
         /\ AddsTo(e, <<"license", "hasp">>, e.name = "HASP")
<1> DEFINE key == [f \in {"Func", "res", "process", "Usr"} |-> TextOr(e, f, "")]
           query == <<HaspOrigin(e), TextOr(e, "process", ""), TextOr(e, "Usr", "")>>
           row == <<<<"license", "row">>, key, e.micros>>
           hasp == <<<<"license", "hasp">>, query, e.micros>>
<1>1. LicenseEntries(e) = IF e.name = "LIC" THEN {row} ELSE IF e.name = "HASP" THEN {hasp} ELSE {}
  <2> HIDE DEF row, hasp
  <2>1. LicenseEntries(e) = CASE e.name = "LIC" -> {row}
                              [] e.name = "HASP" -> {hasp}
                              [] e.name \notin {"LIC", "HASP"} -> {}
    BY Zenon DEF LicenseEntries, row, hasp
  <2>2. QED
    BY <2>1
<1> HIDE DEF key, query
<1>2. row[1] = <<"license", "row">> /\ hasp[1] = <<"license", "hasp">>
  OBVIOUS
<1>3. \A d, x : x \in Entries(e) /\ x[1] = <<"license", d>> => x \in LicenseEntries(e)
  BY WhoseEntries
<1>4. LicenseEntries(e) \subseteq Entries(e)
  BY DEF Entries
<1>5. <<"license", "row">> # <<"license", "hasp">>
  OBVIOUS
<1> HIDE DEF row, hasp
<1>6. QED
  BY <1>1, <1>2, <1>3, <1>4, <1>5 DEF AddsTo, Adds

(* A property of an event of the file database is in one row if it is there. *)
LEMMA FileDBAdds ==
  ASSUME NEW e
  PROVE  /\ AddsTo(e, <<"filedb", "class">>, e.name = "DBV8DBEng")
         /\ \A f \in FileDBFields : AddsTo(e, <<"filedb", f>>, e.name = "DBV8DBEng" /\ Has(e, f))
         /\ \A n \in FileDBNumbers :
              AddsTo(e, <<"filedb", "class", n>>, e.name = "DBV8DBEng" /\ NumberOk(e, n))
<1> DEFINE key(f) == IF f = "class" THEN ClassifyFunc(e)
                     ELSE IF f = "FileName" THEN NormalizeFileName(e.fields[f]) ELSE e.fields[f]
           row(f) == <<<<"filedb", f>>, key(f), e.micros>>
           number(f, n) == <<<<"filedb", f, n>>, key(f), e.fields[n]>>
           F == {"class"} \cup (FileDBFields \cap DOMAIN e.fields)
           N == {n \in FileDBNumbers : NumberOk(e, n)}
<1>1. FileDBKeys(e) = {<<f, key(f)>> : f \in F}
  <2>1. "class" \notin FileDBFields
    BY DEF FileDBFields
  <2> DEFINE text(f) == IF f = "FileName" THEN NormalizeFileName(e.fields[f]) ELSE e.fields[f]
             class == ClassifyFunc(e)
  <2>2. FileDBKeys(e) = {<<"class", class>>} \cup {<<f, text(f)>> : f \in FileDBFields \cap DOMAIN e.fields}
    BY DEF FileDBKeys
  <2> HIDE DEF text
  <2>3. key("class") = class /\ \A f \in FileDBFields : key(f) = text(f)
    BY <2>1 DEF text
  <2> HIDE DEF key, class
  <2>4. QED
    BY <2>2, <2>3
<1> HIDE DEF key
<1>2. FileDBEntries(e) = IF e.name = "DBV8DBEng"
        THEN {row(f) : f \in F} \cup {number(f, n) : f \in F, n \in N} ELSE {}
  <2>1. \A k \in FileDBKeys(e) : \E f \in F : k[1] = f /\ k[2] = key(f)
    BY <1>1
  <2>2. \A f \in F : \E k \in FileDBKeys(e) : k[1] = f /\ k[2] = key(f)
    <3> TAKE f \in F
    <3> HIDE DEF F
    <3> DEFINE k == <<f, key(f)>>
    <3>1. k \in FileDBKeys(e) /\ k[1] = f /\ k[2] = key(f)
      BY <1>1
    <3>2. QED
      BY <3>1
  <2> DEFINE rows == {row(f) : f \in F}
             numbers == {number(f, n) : f \in F, n \in N}
             A == {<<<<"filedb", k[1]>>, k[2], e.micros>> : k \in FileDBKeys(e)}
             B == UNION {{<<<<"filedb", k[1], n>>, k[2], e.fields[n]>> : k \in FileDBKeys(e)} : n \in N}
  <2>3. A = rows
    BY <2>1, <2>2
  <2>4. B = numbers
    BY <2>1, <2>2
  <2>5. FileDBEntries(e) = IF e.name # "DBV8DBEng" THEN {} ELSE A \cup B
    BY Zenon DEF FileDBEntries
  <2>6. FileDBEntries(e) = IF e.name # "DBV8DBEng" THEN {} ELSE rows \cup numbers
    <3> HIDE DEF rows, numbers, A, B
    <3>1. QED
      BY <2>3, <2>4, <2>5
  <2>7. QED
    BY <2>6
<1>3. \A d, n, x : x \in Entries(e) /\ (x[1] = <<"filedb", d>> \/ x[1] = <<"filedb", d, n>>)
                => x \in FileDBEntries(e)
  BY WhoseEntries
<1>4. FileDBEntries(e) \subseteq Entries(e)
  BY DEF Entries
<1>5. \A f, n : row(f)[1] = <<"filedb", f>> /\ number(f, n)[1] = <<"filedb", f, n>>
  OBVIOUS
<1>6. \A f, n, g, m : /\ <<"filedb", f>> = <<"filedb", g>> => f = g
                      /\ <<"filedb", f, n>> = <<"filedb", g, m>> => f = g /\ n = m
                      /\ <<"filedb", f>> # <<"filedb", g, m>>
  OBVIOUS
<1> HIDE DEF row, number, F, N
<1>7. ASSUME NEW f
      PROVE  AddsTo(e, <<"filedb", f>>, e.name = "DBV8DBEng" /\ f \in F)
  <2> DEFINE dim == <<"filedb", f>>
  <2>1. \A x \in FileDBEntries(e) : x[1] = dim => x = row(f) /\ e.name = "DBV8DBEng" /\ f \in F
    BY <1>2, <1>5, <1>6
  <2>2. e.name = "DBV8DBEng" /\ f \in F => row(f) \in FileDBEntries(e) /\ row(f)[1] = dim
    BY <1>2, <1>5
  <2>3. \A x \in Entries(e) : x[1] = dim => x \in FileDBEntries(e)
    BY <1>3
  <2> HIDE DEF dim
  <2>4. AddsTo(e, dim, e.name = "DBV8DBEng" /\ f \in F)
    BY <1>4, <2>1, <2>2, <2>3 DEF AddsTo, Adds
  <2>5. QED
    BY <2>4 DEF dim
<1>8. ASSUME NEW f \in F, NEW n
      PROVE  AddsTo(e, <<"filedb", f, n>>, e.name = "DBV8DBEng" /\ n \in N)
  <2> DEFINE dim == <<"filedb", f, n>>
  <2>1. \A x \in FileDBEntries(e) : x[1] = dim => x = number(f, n) /\ e.name = "DBV8DBEng" /\ n \in N
    BY <1>2, <1>5, <1>6
  <2>2. e.name = "DBV8DBEng" /\ n \in N => number(f, n) \in FileDBEntries(e) /\ number(f, n)[1] = dim
    BY <1>2, <1>5
  <2>3. \A x \in Entries(e) : x[1] = dim => x \in FileDBEntries(e)
    BY <1>3
  <2> HIDE DEF dim
  <2>4. AddsTo(e, dim, e.name = "DBV8DBEng" /\ n \in N)
    BY <1>4, <2>1, <2>2, <2>3 DEF AddsTo, Adds
  <2>5. QED
    BY <2>4 DEF dim
<1>9. "class" \in F /\ \A f \in FileDBFields : f \in F <=> Has(e, f)
  <2>1. "class" \notin FileDBFields
    BY DEF FileDBFields
  <2>2. QED
    BY <2>1 DEF F, Has
<1>10. \A n \in FileDBNumbers : n \in N <=> NumberOk(e, n)
  BY DEF N
<1>11. \A f \in FileDBFields : AddsTo(e, <<"filedb", f>>, e.name = "DBV8DBEng" /\ Has(e, f))
  BY <1>7, <1>9 DEF AddsTo, Adds
<1>12. \A n \in FileDBNumbers : AddsTo(e, <<"filedb", "class", n>>, e.name = "DBV8DBEng" /\ NumberOk(e, n))
  BY <1>8, <1>9, <1>10 DEF AddsTo, Adds
<1>13. AddsTo(e, <<"filedb", "class">>, e.name = "DBV8DBEng")
  BY <1>7, <1>9 DEF AddsTo, Adds
<1>14. QED
  BY <1>11, <1>12, <1>13

Widens(S, T, added) == \E g : T = S \cup (IF added THEN {g} ELSE {})

Sequences(G) == \A g \in DOMAIN G : G[g] \in Seq(Int)
Numbers(E) == \A x \in E : x[3] \in Int

(* Adding the entries of an event moves the count of a dimension by one if  *)
(* there is an entry for it, and the total by its value.                    *)
LEMMA CountMoves ==
  ASSUME NEW G, Sequences(G), NEW E, Numbers(E),
         NEW dim, IsFiniteSet(GroupsIn(G, dim)), NEW added, Adds(E, dim, added)
  PROVE  /\ IsFiniteSet(GroupsIn(Added(G, E), dim))
         /\ CountOf(G, dim) \in Int
         /\ CountOf(Added(G, E), dim) = CountOf(G, dim) + (IF added THEN 1 ELSE 0)
         /\ \A x \in E : x[1] = dim =>
              TotalOf(G, dim) \in Int /\ TotalOf(Added(G, E), dim) = TotalOf(G, dim) + x[3]
         /\ Widens(GroupsIn(G, dim), GroupsIn(Added(G, E), dim), added)
<1> DEFINE new == {<<x[1], x[2]>> : x \in E}
           H == Added(G, E)
           S == GroupsIn(G, dim)
           T == GroupsIn(H, dim)
           old(g) == IF g \in DOMAIN G THEN G[g] ELSE <<>>
           lens == [g \in S |-> Len(G[g])]
           sums == [g \in S |-> SumOf(G[g])]
           lens2 == [g \in T |-> Len(H[g])]
           sums2 == [g \in T |-> SumOf(H[g])]
<1>1. /\ DOMAIN H = DOMAIN G \cup new
      /\ \A g \in DOMAIN H : H[g] = old(g) \o (IF g \in new THEN <<ValueOf(E, g)>> ELSE <<>>)
  BY DEF Added
<1>2. /\ CountOf(G, dim) = SumFunctionOnSet(lens, S) /\ TotalOf(G, dim) = SumFunctionOnSet(sums, S)
      /\ CountOf(H, dim) = SumFunctionOnSet(lens2, T) /\ TotalOf(H, dim) = SumFunctionOnSet(sums2, T)
  BY DEF CountOf, TotalOf, SumFunction
<1>3. S \subseteq DOMAIN G /\ T \subseteq DOMAIN H /\ \A g \in S : g[1] = dim
  BY DEF GroupsIn
<1>4. IsFiniteSet(S)
  OBVIOUS
<1>5. \A s \in Seq(Int) : /\ Len(s) \in Nat /\ SumOf(s) \in Int /\ s \o <<>> = s
                          /\ \A v \in Int : Len(s \o <<v>>) = Len(s) + 1 /\ SumOf(s \o <<v>>) = SumOf(s) + v
  <2> TAKE s \in Seq(Int)
  <2>1. Len(s) \in Nat /\ SumOf(s) \in Int /\ \A v \in Int : SumOf(s \o <<v>>) = SumOf(s) + v
    BY SumOfSteps
  <2>2. s \o <<>> = s
    BY ConcatEmptySeq
  <2>3. \A v \in Int : Len(s \o <<v>>) = Len(s) + 1
    BY ConcatProperties
  <2>4. QED
    BY <2>1, <2>2, <2>3
<1>6. \A g \in S : lens[g] \in Int /\ sums[g] \in Int /\ lens[g] = Len(G[g]) /\ sums[g] = SumOf(G[g])
  BY <1>3, <1>5 DEF Sequences
<1>7. CountOf(G, dim) \in Int /\ TotalOf(G, dim) \in Int
  <2> HIDE DEF S, lens, sums
  <2>1. QED
    BY <1>2, <1>4, <1>6, SumSteps
<1>8. CASE ~added
  <2>1. \A x \in E : x[1] # dim
    BY <1>8 DEF Adds
  <2>2. \A g \in new : g[1] # dim
    BY <2>1
  <2> HIDE DEF new, H
  <2>3. T = S
    BY <1>1, <2>2 DEF GroupsIn
  <2>4. \A g \in S : H[g] = G[g]
    <3> TAKE g \in S
    <3>1. g \in DOMAIN G /\ g \notin new /\ g \in DOMAIN H /\ G[g] \in Seq(Int)
      BY <1>1, <1>3, <2>2 DEF Sequences
    <3>2. H[g] = G[g] \o <<>>
      BY <1>1, <3>1
    <3>3. QED
      BY <1>5, <3>1, <3>2
  <2>5. SumFunctionOnSet(lens2, T) = SumFunctionOnSet(lens, S)
    <3>1. \A g \in S : lens2[g] = lens[g]
      BY <2>3, <2>4
    <3> HIDE DEF lens, lens2, S, T
    <3>2. QED
      BY <1>4, <2>3, <3>1, SumAlike
  <2> HIDE DEF S, T, lens, lens2
  <2>6. CountOf(H, dim) = CountOf(G, dim) + (IF added THEN 1 ELSE 0)
    BY <1>2, <1>7, <1>8, <2>5
  <2>7. IsFiniteSet(T) /\ T = S \cup {}
    BY <1>4, <2>3
  <2>8. QED
    BY <1>7, <1>8, <2>1, <2>6, <2>7 DEF S, T, H, Widens
<1>9. CASE added
  <2>1. PICK x \in E : x[1] = dim
    BY <1>9 DEF Adds
  <2>2. \A y \in E : y[1] = dim => y = x
    BY <2>1 DEF Adds
  <2> DEFINE o == <<x[1], x[2]>>
  <2>3. o \in new /\ o[1] = dim /\ \A g \in new : g[1] = dim => g = o
    BY <2>1, <2>2
  <2>4. ValueOf(E, o) = x[3]
    <3> DEFINE it == CHOOSE y \in E : <<y[1], y[2]>> = o
    <3>1. it \in E /\ <<it[1], it[2]>> = o
      OBVIOUS
    <3>2. it[1] = dim
      BY <2>1, <3>1
    <3>3. it = x
      BY <2>2, <3>1, <3>2
    <3>4. QED
      BY <3>3 DEF ValueOf
  <2>5. x[3] \in Int
    BY DEF Numbers
  <2> HIDE DEF new, H, o
  <2>6. T = S \cup {o}
    BY <1>1, <2>3 DEF GroupsIn
  <2>7. \A g \in S : g # o => H[g] = G[g]
    <3> TAKE g \in S
    <3> HAVE g # o
    <3>1. g \in DOMAIN G /\ g \notin new /\ g \in DOMAIN H /\ G[g] \in Seq(Int)
      BY <1>1, <1>3, <2>3 DEF Sequences
    <3>2. H[g] = G[g] \o <<>>
      BY <1>1, <3>1
    <3>3. QED
      BY <1>5, <3>1, <3>2
  <2>8. H[o] = old(o) \o <<x[3]>> /\ old(o) \in Seq(Int) /\ (o \in S => old(o) = G[o])
        /\ (o \notin S => old(o) = <<>>)
    <3>1. o \in DOMAIN H
      BY <1>1, <2>3
    <3>2. H[o] = old(o) \o <<x[3]>>
      BY <1>1, <2>3, <2>4, <3>1
    <3>3. o \in S <=> o \in DOMAIN G
      BY <2>3 DEF GroupsIn
    <3>4. QED
      BY <3>2, <3>3, EmptySeq DEF Sequences
  <2> HIDE DEF old
  <2>9. /\ Len(H[o]) = Len(old(o)) + 1 /\ SumOf(H[o]) = SumOf(old(o)) + x[3]
        /\ Len(old(o)) \in Nat /\ SumOf(old(o)) \in Int
    BY <1>5, <2>5, <2>8
  <2>10. Len(<<>>) = 0 /\ SumOf(<<>>) = 0
    BY SumOfSteps
  <2>11. /\ lens2[o] = Len(H[o]) /\ sums2[o] = SumOf(H[o])
         /\ \A g \in S : g # o => lens2[g] = lens[g] /\ sums2[g] = sums[g]
    BY <2>6, <2>7
  <2> HIDE DEF S, T, lens, lens2, sums, sums2
  <2>12. lens2[o] \in Int /\ sums2[o] \in Int
    BY <2>5, <2>9, <2>11
  <2>13. SumFunctionOnSet(lens2, T) = SumFunctionOnSet(lens, S) + (lens2[o] - (IF o \in S THEN lens[o] ELSE 0))
    <3>1. lens2[o] \in Int /\ \A y \in S : lens[y] \in Int /\ (y # o => lens2[y] = lens[y])
      BY <1>6, <2>11, <2>12
    <3>2. QED
      BY <1>4, <2>6, <3>1, SumGrows
  <2>14. SumFunctionOnSet(sums2, T) = SumFunctionOnSet(sums, S) + (sums2[o] - (IF o \in S THEN sums[o] ELSE 0))
    <3>1. sums2[o] \in Int /\ \A y \in S : sums[y] \in Int /\ (y # o => sums2[y] = sums[y])
      BY <1>6, <2>11, <2>12
    <3>2. QED
      BY <1>4, <2>6, <3>1, SumGrows
  <2>15. (IF o \in S THEN lens[o] ELSE 0) = Len(old(o)) /\ (IF o \in S THEN sums[o] ELSE 0) = SumOf(old(o))
    BY <1>6, <2>8, <2>10
  <2> DEFINE a == Len(old(o))
             b == SumOf(old(o))
  <2>16. CountOf(H, dim) = CountOf(G, dim) + ((a + 1) - a) /\ a \in Nat
    BY <1>2, <2>9, <2>11, <2>13, <2>15
  <2>17. TotalOf(H, dim) = TotalOf(G, dim) + ((b + x[3]) - b) /\ b \in Int
    BY <1>2, <2>9, <2>11, <2>14, <2>15
  <2> HIDE DEF a, b
  <2>18. CountOf(H, dim) = CountOf(G, dim) + (IF added THEN 1 ELSE 0)
    BY <1>7, <1>9, <2>16
  <2>19. TotalOf(H, dim) = TotalOf(G, dim) + x[3]
    BY <1>7, <2>5, <2>17
  <2>20. IsFiniteSet(T)
    BY <1>4, <2>6, FS_AddElement
  <2>21. QED
    BY <1>7, <1>9, <2>2, <2>6, <2>18, <2>19, <2>20 DEF S, T, H, Widens
<1>10. QED
  BY <1>8, <1>9

-------------------------------------------------------------------------------
(* The counters of an analyzer carry its names. *)
LEMMA WhoseCounts ==
  ASSUME NEW e, NEW c \in Counts(e)
  PROVE  /\ c[1] = "lock" => c \in LockCounts(e)
         /\ c[1] = "scall" => c \in ScallCounts(e)
         /\ c[1] \in {"proc", "scom", "process"} => c \in ProcessCounts(e)
         /\ c[1] \in {"license", "hasp", "system"} => c \in LicenseCounts(e)
         /\ c[1] = "filedb" => c \in FileDBCounts(e) \cup Dropped(e)
<1>1. \A d \in LockCounts(e) : d[1] = "lock"
  BY DEF LockCounts, When
<1>2. \A d \in ScallCounts(e) : d[1] = "scall"
  BY DEF ScallCounts
<1>3. \A d \in ProcessCounts(e) : d[1] \in {"proc", "scom", "process"}
  BY DEF ProcessCounts
<1>4. \A d \in LicenseCounts(e) : d[1] \in {"license", "hasp", "system"}
  BY DEF LicenseCounts
<1>5. \A d \in FileDBCounts(e) : d[1] = "filedb"
  <2> DEFINE ignored == {<<"filedb", "ignored">>}
             events == {<<"filedb", "events">>}
             missing == {<<"filedb", "missing", f>> :
                          f \in Blank(e, FileDBFields \cup FileDBNumbers \cup {"Trans"})}
             malformed == {<<"filedb", "malformed", f>> : f \in Bad(e, FileDBNumbers)}
             failed == {<<"filedb", "explicit error">>}
  <2>1. FileDBCounts(e) = IF e.name # "DBV8DBEng" THEN ignored
                          ELSE events \cup missing \cup malformed \cup (IF Has(e, "Error") THEN failed ELSE {})
    BY Zenon DEF FileDBCounts, When, ignored, events, missing, malformed, failed
  <2>2. /\ \A d \in ignored : d[1] = "filedb"
        /\ \A d \in events : d[1] = "filedb"
        /\ \A d \in missing : d[1] = "filedb"
        /\ \A d \in malformed : d[1] = "filedb"
        /\ \A d \in failed : d[1] = "filedb"
    OBVIOUS
  <2> HIDE DEF ignored, events, missing, malformed, failed
  <2>3. QED
    BY <2>1, <2>2
<1>6. \A d \in Dropped(e) : d[1] = "filedb"
  <2> DEFINE L == {l \in {"filedb", "filedb errors"} : Offered(e, l) /\ Len(samples[l]) = SampleLimit}
  <2>1. Dropped(e) = {<<"filedb", "dropped", l>> : l \in L}
    BY Zenon DEF Dropped
  <2> HIDE DEF L
  <2>2. QED
    BY <2>1
<1>7. \/ c \in LockCounts(e) \/ c \in ScallCounts(e) \/ c \in ProcessCounts(e)
      \/ c \in LicenseCounts(e) \/ c \in FileDBCounts(e) \/ c \in Dropped(e)
  BY Zenon DEF Counts
<1>8. QED
  BY <1>1, <1>2, <1>3, <1>4, <1>5, <1>6, <1>7

(* What of a lock is counted. *)
LEMMA LockCounted ==
  ASSUME NEW e
  PROVE  /\ <<"lock", "events">> \in Counts(e) <=> IsLock(e)
         /\ <<"lock", "ignored">> \in Counts(e) <=> ~IsLock(e)
         /\ <<"lock", "missing", "Context">> \in Counts(e) <=> IsLock(e) /\ ~Has(e, "Context")
         /\ <<"lock", "relations">> \in Counts(e) <=> IsLock(e) /\ Related(e)
<1>1. \A c : c[1] = "lock" => (c \in Counts(e) <=> c \in LockCounts(e))
  BY WhoseCounts DEF Counts
<1>2. /\ <<"lock", "events">> \in LockCounts(e) <=> IsLock(e)
      /\ <<"lock", "ignored">> \in LockCounts(e) <=> ~IsLock(e)
      /\ <<"lock", "relations">> \in LockCounts(e) <=> IsLock(e) /\ Related(e)
  BY DEF LockCounts, When
<1>3. <<"lock", "missing", "Context">> \in LockCounts(e) <=> IsLock(e) /\ ~Has(e, "Context")
  BY DEF LockCounts, When, Blank
<1>4. QED
  BY <1>1, <1>2, <1>3

(* What of a call is counted. *)
LEMMA ScallCounted ==
  ASSUME NEW e
  PROVE  /\ <<"scall", "events">> \in Counts(e) <=> e.name = "SCALL"
         /\ <<"scall", "ignored">> \in Counts(e) <=> e.name # "SCALL"
         /\ \A n \in ScallNumbers :
              /\ <<"scall", "missing", n>> \in Counts(e) <=> e.name = "SCALL" /\ ~Has(e, n)
              /\ <<"scall", "malformed", n>> \in Counts(e)
                   <=> e.name = "SCALL" /\ Has(e, n) /\ ~NumberOk(e, n)
<1>1. \A c : c[1] = "scall" => (c \in Counts(e) <=> c \in ScallCounts(e))
  BY WhoseCounts DEF Counts
<1>2. /\ <<"scall", "events">> \in ScallCounts(e) <=> e.name = "SCALL"
      /\ <<"scall", "ignored">> \in ScallCounts(e) <=> e.name # "SCALL"
  BY DEF ScallCounts
<1>3. ASSUME NEW n \in ScallNumbers
      PROVE  /\ <<"scall", "missing", n>> \in ScallCounts(e) <=> e.name = "SCALL" /\ ~Has(e, n)
             /\ <<"scall", "malformed", n>> \in ScallCounts(e)
                  <=> e.name = "SCALL" /\ Has(e, n) /\ ~NumberOk(e, n)
  BY DEF ScallCounts, Blank, Bad, NumberOk
<1>4. QED
  BY <1>1, <1>2, <1>3

(* How a function may end, and how if it was parsed. *)
Outcomes == {"missing", "malformed", "unknown", "few arguments", "missing names", "relation"}
ParsedOutcomes == {"unknown", "few arguments", "missing names", "relation"}

(* What of a process and of a function is counted. *)
LEMMA ProcessCounted ==
  ASSUME NEW e
  PROVE  /\ <<"proc", "events">> \in Counts(e) <=> e.name = "PROC"
         /\ <<"scom", "events">> \in Counts(e) <=> e.name = "SCOM"
         /\ <<"process", "ignored">> \in Counts(e) <=> e.name \notin {"PROC", "SCOM"}
         /\ \A o \in Outcomes :
              <<"scom", o>> \in Counts(e) <=> e.name = "SCOM" /\ FunctionOutcome(e) = o
<1>1. \A c : c[1] \in {"proc", "scom", "process"} => (c \in Counts(e) <=> c \in ProcessCounts(e))
  BY WhoseCounts DEF Counts
<1> DEFINE missing(fields) == {<<"process", "missing", f>> : f \in Blank(e, fields)}
           ends == <<"scom", FunctionOutcome(e)>>
<1>2. ProcessCounts(e) =
        CASE e.name = "PROC" -> {<<"proc", "events">>} \cup missing({"process", "OSThread"})
          [] e.name = "SCOM" -> {<<"scom", "events">>, ends} \cup missing({"process"})
          [] e.name \notin {"PROC", "SCOM"} -> {<<"process", "ignored">>}
  <2> HIDE DEF ends
  <2>1. QED
    BY Zenon DEF ProcessCounts, ends
<1>3. \A fields : \A c \in missing(fields) : c[1] = "process" /\ c[2] = "missing"
  OBVIOUS
<1>4. ends[1] = "scom" /\ ends[2] = FunctionOutcome(e) /\ ends = <<"scom", FunctionOutcome(e)>>
  OBVIOUS
<1> HIDE DEF missing, ends
<1>5. /\ <<"proc", "events">> \in ProcessCounts(e) <=> e.name = "PROC"
      /\ <<"process", "ignored">> \in ProcessCounts(e) <=> e.name \notin {"PROC", "SCOM"}
  BY <1>2, <1>3, <1>4
<1>6. <<"scom", "events">> \in ProcessCounts(e) <=> e.name = "SCOM"
  BY <1>2, <1>3, <1>4
<1>7. ASSUME NEW o \in Outcomes
      PROVE  <<"scom", o>> \in ProcessCounts(e) <=> e.name = "SCOM" /\ FunctionOutcome(e) = o
  <2>1. o # "events"
    BY DEF Outcomes
  <2>2. QED
    BY <1>2, <1>3, <1>4, <2>1
<1>8. QED
  BY <1>1, <1>5, <1>6, <1>7

(* A function has one outcome, which says whether it was parsed. *)
LEMMA OneOutcome ==
  ASSUME NEW e, Has(e, "Func") => e.fields["Func"] \in Seq(STRING)
  PROVE  /\ FunctionOutcome(e) \in Outcomes
         /\ FunctionOk(e) <=> FunctionOutcome(e) \in ParsedOutcomes
<1> DEFINE f == e.fields["Func"]
           n == Len(f)
           known == KnownOperation(f[1])
           names == f[3] = "" \/ f[4] = ""
<1>1. FunctionOutcome(e) =
        CASE ~Has(e, "Func") -> "missing"
          [] Has(e, "Func") /\ ~FunctionOk(e) -> "malformed"
          [] FunctionOk(e) /\ ~known -> "unknown"
          [] FunctionOk(e) /\ known /\ n - 1 < 3 -> "few arguments"
          [] FunctionOk(e) /\ known /\ n - 1 >= 3 /\ names -> "missing names"
          [] FunctionOk(e) /\ known /\ n - 1 >= 3 /\ f[3] # "" /\ f[4] # "" -> "relation"
  BY Zenon DEF FunctionOutcome
<1>2. FunctionOk(e) => Has(e, "Func")
  BY DEF FunctionOk
<1>3. FunctionOk(e) => n \in Nat
  BY <1>2
<1>4. known \in BOOLEAN /\ names \in BOOLEAN /\ (~names <=> f[3] # "" /\ f[4] # "")
  <2>1. known \in BOOLEAN
    <3>1. \A op : KnownOperation(op) \in BOOLEAN
      BY DEF KnownOperation
    <3> HIDE DEF f
    <3>2. QED
      BY <3>1
  <2> HIDE DEF f
  <2>2. names \in BOOLEAN /\ (~names <=> f[3] # "" /\ f[4] # "")
    OBVIOUS
  <2>3. QED
    BY <2>1, <2>2
<1>5. FunctionOk(e) \in BOOLEAN /\ Has(e, "Func") \in BOOLEAN
  BY DEF FunctionOk, Has
<1> DEFINE enough == n - 1 >= 3
<1>6. FunctionOk(e) => (n - 1 < 3 <=> ~enough)
  BY <1>3
<1> HIDE DEF f, n, known, names, enough
<1>7. CASE ~Has(e, "Func")
  <2>1. FunctionOutcome(e) = "missing"
    BY <1>1, <1>2, <1>7
  <2>2. QED
    BY <1>2, <1>7, <2>1 DEF Outcomes, ParsedOutcomes
<1>8. CASE Has(e, "Func") /\ ~FunctionOk(e)
  <2>1. FunctionOutcome(e) = "malformed"
    BY <1>1, <1>8
  <2>2. QED
    BY <1>8, <2>1 DEF Outcomes, ParsedOutcomes
<1>9. CASE FunctionOk(e)
  <2>1. FunctionOutcome(e) \in ParsedOutcomes
    <3>1. \/ ~known
          \/ known /\ ~enough
          \/ known /\ enough /\ names
          \/ known /\ enough /\ ~names
      BY <1>4
    <3>2. QED
      BY <1>1, <1>2, <1>4, <1>6, <1>9, <3>1 DEF ParsedOutcomes, enough
  <2>2. QED
    BY <1>9, <2>1 DEF Outcomes, ParsedOutcomes
<1>10. QED
  BY <1>7, <1>8, <1>9

(* Where the answer to a HASP query comes from. *)
Origins == {"cache", "os", "unknown"}

(* What of a license and of a HASP query is counted. *)
LEMMA LicenseCounted ==
  ASSUME NEW e
  PROVE  /\ <<"license", "events">> \in Counts(e) <=> e.name = "LIC"
         /\ <<"hasp", "events">> \in Counts(e) <=> e.name = "HASP"
         /\ <<"license", "ignored">> \in Counts(e) <=> e.name \notin {"LIC", "HASP"}
         /\ \A c \in {"acquire", "success", "failure"} :
              <<"license", c>> \in Counts(e) <=> e.name = "LIC" /\ c \in Classes(e)
         /\ \A o \in Origins : <<"hasp", o>> \in Counts(e) <=> e.name = "HASP" /\ HaspOrigin(e) = o
         /\ HaspOrigin(e) \in Origins
         /\ "success" \in Classes(e) => "acquire" \in Classes(e)
         /\ "acquire" \in Classes(e) => "success" \in Classes(e) \/ "failure" \in Classes(e)
<1>1. \A c : c[1] \in {"license", "hasp", "system"} => (c \in Counts(e) <=> c \in LicenseCounts(e))
  BY WhoseCounts DEF Counts
<1> DEFINE missing == {<<"license", "missing", f>> : f \in Blank(e, {"Func", "res", "txt"})}
           classes == {<<"license", c>> : c \in Classes(e)}
           systems == {<<"system", s>> : s \in NamesIn(e, "system")}
           origin == <<"hasp", HaspOrigin(e)>>
           events == <<"license", "events">>
           ignored == <<"license", "ignored">>
           queries == <<"hasp", "events">>
<1>2. LicenseCounts(e) =
        CASE e.name = "LIC" -> {events} \cup missing \cup classes
          [] e.name = "HASP" -> {queries, origin} \cup systems
          [] e.name \notin {"LIC", "HASP"} -> {ignored}
  BY Zenon DEF LicenseCounts, missing, classes, systems, origin, events, ignored, queries
<1>3. /\ \A c \in missing : c[1] = "license" /\ c[2] = "missing"
      /\ \A c \in classes : c[1] = "license" /\ c[2] \in Classes(e)
      /\ \A c \in Classes(e) : <<"license", c>> \in classes
      /\ \A c \in systems : c[1] = "system"
  OBVIOUS
<1>4. /\ origin[1] = "hasp" /\ origin[2] = HaspOrigin(e)
      /\ events[1] = "license" /\ events[2] = "events"
      /\ ignored[1] = "license" /\ ignored[2] = "ignored"
      /\ queries[1] = "hasp" /\ queries[2] = "events"
      /\ \A x, y : <<x, y>>[1] = x /\ <<x, y>>[2] = y
  OBVIOUS
<1>5. \A c \in Classes(e) : c \in {"acquire", "release", "expired", "wrong type", "failure", "success"}
  BY DEF Classes, When
<1>6. HaspOrigin(e) \in Origins
  <2>1. \/ "from cache" \in Words(e)
        \/ "from cache" \notin Words(e) /\ "from os" \in Words(e)
        \/ Words(e) \cap {"from cache", "from os"} = {}
    OBVIOUS
  <2>2. QED
    BY <2>1 DEF HaspOrigin, Origins
<1>7. /\ "success" \in Classes(e) => "acquire" \in Classes(e)
      /\ "acquire" \in Classes(e) => "success" \in Classes(e) \/ "failure" \in Classes(e)
  <2> DEFINE acquire == TextOr(e, "res", "") \in {"seize", "acquire"}
             failure == Words(e) \cap {"failed", "expired", "wrong type"} # {}
             last == {"several", "last succeeds"} \subseteq Words(e)
             others == {"expired", "wrong type"} \cap Words(e)
             released == IF TextOr(e, "res", "") = "release" THEN {"release"} ELSE {}
  <2>1. Classes(e) = (IF acquire THEN {"acquire"} ELSE {}) \cup released \cup others
                       \cup (IF failure THEN {"failure"} ELSE {})
                       \cup (IF acquire /\ (~failure \/ last) THEN {"success"} ELSE {})
    BY Zenon DEF Classes, When, released, others, acquire, failure, last
  <2>2. others \subseteq {"expired", "wrong type"} /\ released \subseteq {"release"}
    OBVIOUS
  <2> HIDE DEF acquire, failure, last, others, released
  <2>3. QED
    BY <2>1, <2>2
<1>8. events \in LicenseCounts(e) <=> e.name = "LIC"
  <2>1. events # origin /\ events # queries /\ events # ignored
    BY <1>4
  <2> HIDE DEF missing, classes, systems, origin, events, ignored, queries
  <2>2. QED
    BY <1>2, <1>3, <1>4, <2>1
<1>9. queries \in LicenseCounts(e) <=> e.name = "HASP"
  <2>1. queries # events /\ queries # ignored
    BY <1>4
  <2> HIDE DEF missing, classes, systems, origin, events, ignored, queries
  <2>2. QED
    BY <1>2, <1>3, <1>4, <2>1
<1>10. ignored \in LicenseCounts(e) <=> e.name \notin {"LIC", "HASP"}
  <2>1. ignored # events /\ ignored # queries /\ ignored # origin
    BY <1>4
  <2>2. "ignored" \notin Classes(e)
    BY <1>5
  <2> HIDE DEF missing, classes, systems, origin, events, ignored, queries
  <2>3. QED
    BY <1>2, <1>3, <1>4, <2>1, <2>2
<1>11. ASSUME NEW c \in {"acquire", "success", "failure"}
       PROVE  <<"license", c>> \in LicenseCounts(e) <=> e.name = "LIC" /\ c \in Classes(e)
  <2> DEFINE d == <<"license", c>>
  <2>1. /\ d[1] = "license" /\ d[2] = c
        /\ d # events /\ d # ignored /\ d # queries /\ d # origin
    BY <1>4
  <2>2. c \in Classes(e) => d \in classes
    BY <1>3
  <2> HIDE DEF d, missing, classes, systems, origin, events, ignored, queries
  <2>3. d \in LicenseCounts(e) <=> e.name = "LIC" /\ c \in Classes(e)
    BY <1>2, <1>3, <2>1, <2>2
  <2>4. QED
    BY <2>3 DEF d
<1>12. ASSUME NEW o \in Origins
       PROVE  <<"hasp", o>> \in LicenseCounts(e) <=> e.name = "HASP" /\ HaspOrigin(e) = o
  <2> DEFINE d == <<"hasp", o>>
  <2>1. /\ d[1] = "hasp" /\ d[2] = o
        /\ d # events /\ d # ignored /\ d # queries
    BY <1>4 DEF Origins
  <2>2. d = origin <=> HaspOrigin(e) = o
    BY <1>4, <2>1
  <2> HIDE DEF d, missing, classes, systems, origin, events, ignored, queries
  <2>3. d \in LicenseCounts(e) <=> e.name = "HASP" /\ HaspOrigin(e) = o
    BY <1>2, <1>3, <2>1, <2>2
  <2>4. QED
    BY <2>3 DEF d
<1>13. events[1] = "license" /\ queries[1] = "hasp" /\ ignored[1] = "license"
  BY <1>4
<1>14. QED
  <2>1. /\ events \in Counts(e) <=> e.name = "LIC"
        /\ queries \in Counts(e) <=> e.name = "HASP"
        /\ ignored \in Counts(e) <=> e.name \notin {"LIC", "HASP"}
    BY <1>1, <1>4, <1>8, <1>9, <1>10
  <2>2. /\ \A c \in {"acquire", "success", "failure"} :
             <<"license", c>> \in Counts(e) <=> e.name = "LIC" /\ c \in Classes(e)
        /\ \A o \in Origins : <<"hasp", o>> \in Counts(e) <=> e.name = "HASP" /\ HaspOrigin(e) = o
    BY <1>1, <1>4, <1>11, <1>12
  <2>3. QED
    BY <1>6, <1>7, <2>1, <2>2

(* What of an operation on a file is counted. *)
LEMMA FileDBCounted ==
  ASSUME NEW e
  PROVE  /\ <<"filedb", "events">> \in Counts(e) <=> e.name = "DBV8DBEng"
         /\ <<"filedb", "ignored">> \in Counts(e) <=> e.name # "DBV8DBEng"
         /\ <<"filedb", "explicit error">> \in Counts(e) <=> e.name = "DBV8DBEng" /\ Has(e, "Error")
         /\ \A f \in FileDBFields \cup FileDBNumbers :
              <<"filedb", "missing", f>> \in Counts(e) <=> e.name = "DBV8DBEng" /\ ~Has(e, f)
         /\ \A n \in FileDBNumbers :
              <<"filedb", "malformed", n>> \in Counts(e)
                <=> e.name = "DBV8DBEng" /\ Has(e, n) /\ ~NumberOk(e, n)
         /\ \A list \in {"filedb", "filedb errors"} :
              <<"filedb", "dropped", list>> \in Counts(e)
                <=> Offered(e, list) /\ Len(samples[list]) = SampleLimit
<1> DEFINE ignored == <<"filedb", "ignored">>
           events == <<"filedb", "events">>
           failed == <<"filedb", "explicit error">>
           B == Blank(e, FileDBFields \cup FileDBNumbers \cup {"Trans"})
           M == Bad(e, FileDBNumbers)
           L == {l \in {"filedb", "filedb errors"} : Offered(e, l) /\ Len(samples[l]) = SampleLimit}
           missing == {<<"filedb", "missing", f>> : f \in B}
           malformed == {<<"filedb", "malformed", f>> : f \in M}
           dropped == {<<"filedb", "dropped", l>> : l \in L}
<1>1. \A c : c[1] = "filedb" => (c \in Counts(e) <=> c \in FileDBCounts(e) \cup dropped)
  <2>1. dropped = Dropped(e)
    BY Zenon DEF Dropped, dropped, L
  <2> HIDE DEF dropped
  <2>2. QED
    BY <2>1, WhoseCounts DEF Counts
<1>2. FileDBCounts(e) = IF e.name # "DBV8DBEng" THEN {ignored}
                        ELSE {events} \cup missing \cup malformed
                             \cup (IF Has(e, "Error") THEN {failed} ELSE {})
  BY Zenon DEF FileDBCounts, When, ignored, events, missing, malformed, failed, B, M
<1>3. /\ \A f \in FileDBFields \cup FileDBNumbers : f \in B <=> ~Has(e, f)
      /\ \A n \in FileDBNumbers : n \in M <=> Has(e, n) /\ ~NumberOk(e, n)
      /\ \A l \in {"filedb", "filedb errors"} : l \in L <=> Offered(e, l) /\ Len(samples[l]) = SampleLimit
  <2>1. \A f \in FileDBFields \cup FileDBNumbers : f \in B <=> ~Has(e, f)
    BY DEF Blank
  <2>2. \A n \in FileDBNumbers : n \in M <=> Has(e, n) /\ ~NumberOk(e, n)
    BY DEF Bad, NumberOk
  <2>3. \A l \in {"filedb", "filedb errors"} : l \in L <=> Offered(e, l) /\ Len(samples[l]) = SampleLimit
    OBVIOUS
  <2>4. QED
    BY <2>1, <2>2, <2>3
<1>4. e.name # "DBV8DBEng" => L = {}
  BY DEF Offered
<1> HIDE DEF B, M, L
<1>5. /\ \A f : <<"filedb", "missing", f>> \in missing <=> f \in B
      /\ \A f : <<"filedb", "malformed", f>> \in malformed <=> f \in M
      /\ \A l : <<"filedb", "dropped", l>> \in dropped <=> l \in L
  OBVIOUS
<1>6. /\ \A c \in missing : Len(c) = 3 /\ c[2] = "missing"
      /\ \A c \in malformed : Len(c) = 3 /\ c[2] = "malformed"
      /\ \A c \in dropped : Len(c) = 3 /\ c[2] = "dropped"
      /\ ignored[2] = "ignored" /\ events[2] = "events" /\ failed[2] = "explicit error"
      /\ ignored[1] = "filedb" /\ events[1] = "filedb" /\ failed[1] = "filedb"
  OBVIOUS
<1>7. \A x, y : <<"filedb", x, y>>[1] = "filedb" /\ <<"filedb", x, y>>[2] = x
  OBVIOUS
<1> HIDE DEF missing, malformed, dropped, ignored, events, failed
<1>8. /\ events \in Counts(e) <=> e.name = "DBV8DBEng"
      /\ ignored \in Counts(e) <=> e.name # "DBV8DBEng"
      /\ failed \in Counts(e) <=> e.name = "DBV8DBEng" /\ Has(e, "Error")
  BY <1>1, <1>2, <1>6
<1>9. ASSUME NEW f
      PROVE  /\ <<"filedb", "missing", f>> \in Counts(e) <=> e.name = "DBV8DBEng" /\ f \in B
             /\ <<"filedb", "malformed", f>> \in Counts(e) <=> e.name = "DBV8DBEng" /\ f \in M
             /\ <<"filedb", "dropped", f>> \in Counts(e) <=> f \in L
  <2> DEFINE a == <<"filedb", "missing", f>>
             b == <<"filedb", "malformed", f>>
             d == <<"filedb", "dropped", f>>
  <2>1. /\ a[1] = "filedb" /\ a[2] = "missing" /\ b[1] = "filedb" /\ b[2] = "malformed"
        /\ d[1] = "filedb" /\ d[2] = "dropped"
    BY <1>7
  <2>2. (a \in missing <=> f \in B) /\ (b \in malformed <=> f \in M) /\ (d \in dropped <=> f \in L)
    BY <1>5
  <2> HIDE DEF a, b, d
  <2>3. a \in Counts(e) <=> e.name = "DBV8DBEng" /\ f \in B
    BY <1>1, <1>2, <1>6, <2>1, <2>2
  <2>4. b \in Counts(e) <=> e.name = "DBV8DBEng" /\ f \in M
    BY <1>1, <1>2, <1>6, <2>1, <2>2
  <2>5. d \in Counts(e) <=> f \in L
    BY <1>1, <1>2, <1>6, <2>1, <2>2
  <2>6. QED
    BY <2>3, <2>4, <2>5 DEF a, b, d
<1>10. QED
  <2>1. \A f \in FileDBFields \cup FileDBNumbers :
          <<"filedb", "missing", f>> \in Counts(e) <=> e.name = "DBV8DBEng" /\ ~Has(e, f)
    BY <1>3, <1>9
  <2>2. \A n \in FileDBNumbers :
          <<"filedb", "malformed", n>> \in Counts(e) <=> e.name = "DBV8DBEng" /\ Has(e, n) /\ ~NumberOk(e, n)
    BY <1>3, <1>9
  <2>3. \A list \in {"filedb", "filedb errors"} :
          <<"filedb", "dropped", list>> \in Counts(e) <=> Offered(e, list) /\ Len(samples[list]) = SampleLimit
    BY <1>3, <1>9
  <2>4. QED
    BY <1>8, <2>1, <2>2, <2>3 DEF events, ignored, failed

Once(b) == IF b THEN 1 ELSE 0

(* A dimension of which no event adds more than one value. *)
Single(dim) == \A e \in Events : \E added \in BOOLEAN : AddsTo(e, dim, added)

(* What the books are kept in: the samples and groups of the log, finitely   *)
(* many groups of each such dimension, and counters that are numbers.        *)
InBooks ==
  /\ Logged /\ SamplesInv /\ Valued
  /\ \A dim : Single(dim) => IsFiniteSet(GroupsIn(groups, dim))
  /\ Counted

(* An event moves the count of a table by one if it has an entry for it, ... *)
LEMMA TableMoves ==
  ASSUME InBooks, NEW e \in Events, CountEvent(e), NEW dim, Single(dim), NEW added, AddsTo(e, dim, added)
  PROVE  /\ CountIn(dim) \in Int
         /\ CountIn(dim)' = CountIn(dim) + Once(added)
<1> DEFINE E == Entries(e)
<1>1. Sequences(groups) /\ Numbers(E)
  <2>1. Sequences(groups)
    BY DEF InBooks, Valued, Sequences
  <2>2. Numbers(E)
    BY EntryNumbers DEF Numbers
  <2>3. QED
    BY <2>1, <2>2
<1>2. IsFiniteSet(GroupsIn(groups, dim)) /\ Adds(E, dim, added)
  BY DEF InBooks, AddsTo
<1>3. groups' = Added(groups, E)
  BY DEF CountEvent
<1> HIDE DEF E
<1>4. /\ CountOf(groups, dim) \in Int
      /\ CountOf(Added(groups, E), dim) = CountOf(groups, dim) + (IF added THEN 1 ELSE 0)
  BY <1>1, <1>2, CountMoves
<1>5. QED
  BY <1>3, <1>4 DEF CountIn, Once

(* ... the total by the value, ... *)
LEMMA TotalMoves ==
  ASSUME InBooks, NEW e \in Events, CountEvent(e), NEW dim, Single(dim),
         NEW x \in Entries(e), x[1] = dim
  PROVE  TotalIn(dim) \in Int /\ TotalIn(dim)' = TotalIn(dim) + x[3]
<1> DEFINE E == Entries(e)
<1>1. Sequences(groups) /\ Numbers(E)
  <2>1. Sequences(groups)
    BY DEF InBooks, Valued, Sequences
  <2>2. Numbers(E)
    BY EntryNumbers DEF Numbers
  <2>3. QED
    BY <2>1, <2>2
<1>2. PICK added \in BOOLEAN : Adds(E, dim, added)
  BY DEF Single, AddsTo
<1>3. groups' = Added(groups, E) /\ IsFiniteSet(GroupsIn(groups, dim)) /\ x \in E
  BY DEF CountEvent, InBooks
<1> HIDE DEF E
<1>4. \A y \in E : y[1] = dim =>
        /\ TotalOf(groups, dim) \in Int
        /\ TotalOf(Added(groups, E), dim) = TotalOf(groups, dim) + y[3]
  BY <1>1, <1>2, <1>3, CountMoves
<1>5. QED
  BY <1>3, <1>4 DEF TotalIn

(* ... and its groups by at most one. *)
LEMMA GroupsMove ==
  ASSUME InBooks, NEW e \in Events, groups' = Added(groups, Entries(e)),
         NEW dim, Single(dim), NEW added, AddsTo(e, dim, added)
  PROVE  /\ IsFiniteSet(GroupsIn(groups, dim)) /\ IsFiniteSet(GroupsIn(groups', dim))
         /\ Widens(GroupsIn(groups, dim), GroupsIn(groups', dim), added)
<1> DEFINE E == Entries(e)
<1>1. Sequences(groups) /\ Numbers(E)
  <2>1. Sequences(groups)
    BY DEF InBooks, Valued, Sequences
  <2>2. Numbers(E)
    BY EntryNumbers DEF Numbers
  <2>3. QED
    BY <2>1, <2>2
<1>2. groups' = Added(groups, E) /\ IsFiniteSet(GroupsIn(groups, dim)) /\ Adds(E, dim, added)
  BY DEF InBooks, AddsTo
<1> HIDE DEF E
<1>3. /\ IsFiniteSet(GroupsIn(Added(groups, E), dim))
      /\ Widens(GroupsIn(groups, dim), GroupsIn(Added(groups, E), dim), added)
  BY <1>1, <1>2, CountMoves
<1>4. QED
  BY <1>2, <1>3

(* A counter moves by one if it is among those of the event. *)
LEMMA CounterMoves ==
  ASSUME InBooks, NEW e, CountEvent(e), NEW c
  PROVE  Copies(c) \in Nat /\ Copies(c)' = Copies(c) + Once(c \in Counts(e))
<1>1. quality' = quality (+) SetToBag(Counts(e)) /\ Counted
  BY DEF CountEvent, InBooks
<1>2. Copies(c)' = Copies(c) + (IF c \in Counts(e) THEN 1 ELSE 0)
  BY <1>1, CopiesMove
<1>3. QED
  BY <1>1, <1>2 DEF Once, Counted

(* The tables of which AddsUp speaks are such dimensions. *)
LEMMA SingleTables ==
  /\ \A dim \in {<<"total">>, <<"type">>, <<"bucket">>} \cup {<<"overview", f>> : f \in OverviewFields} :
       Single(dim)
  /\ \A t \in {"event", "conflict", "context", "relation"} : Single(<<"lock", t>>)
  /\ \A f \in ScallFields \cup {"call"} :
       Single(<<"scall", f>>) /\ \A n \in ScallNumbers : Single(<<"scall", f, n>>)
  /\ Single(<<"proc", "process">>)
  /\ \A t \in {"operation", "process", "composite", "relation"} : Single(<<"scom", t>>)
  /\ Single(<<"license", "row">>) /\ Single(<<"license", "hasp">>)
  /\ Single(<<"filedb", "class">>)
  /\ \A f \in FileDBFields : Single(<<"filedb", f>>)
  /\ \A n \in FileDBNumbers : Single(<<"filedb", "class", n>>)
<1>3. \A dim \in {<<"total">>, <<"type">>, <<"bucket">>} \cup {<<"overview", f>> : f \in OverviewFields} :
        Single(dim)
  <2> TAKE dim \in {<<"total">>, <<"type">>, <<"bucket">>} \cup {<<"overview", f>> : f \in OverviewFields}
  <2>1. \A e : AddsTo(e, dim, TRUE)
    BY OverviewAdds
  <2>2. QED
    BY <2>1 DEF Single
<1>4. ASSUME NEW e
      PROVE  /\ IsLock(e) \in BOOLEAN /\ Has(e, "Context") \in BOOLEAN /\ Related(e) \in BOOLEAN
             /\ FunctionOk(e) \in BOOLEAN /\ \A f : Has(e, f) \in BOOLEAN /\ NumberOk(e, f) \in BOOLEAN
  BY DEF IsLock, Has, Related, FunctionOk, NumberOk
<1>5. \A t \in {"event", "conflict", "context", "relation"} : Single(<<"lock", t>>)
  BY <1>4, LockAdds DEF Single
<1>6. \A f \in ScallFields \cup {"call"} :
        Single(<<"scall", f>>) /\ \A n \in ScallNumbers : Single(<<"scall", f, n>>)
  <2> TAKE f \in ScallFields \cup {"call"}
  <2>1. \A e : AddsTo(e, <<"scall", f>>, e.name = "SCALL")
    BY ScallAdds
  <2>2. \A e : \A n \in ScallNumbers : AddsTo(e, <<"scall", f, n>>, e.name = "SCALL" /\ NumberOk(e, n))
    BY ScallAdds
  <2>3. QED
    BY <2>1, <2>2 DEF Single
<1>7. Single(<<"proc", "process">>)
  BY ProcessAdds DEF Single
<1>8. \A t \in {"operation", "process", "composite", "relation"} : Single(<<"scom", t>>)
  BY ProcessAdds DEF Single
<1>9. Single(<<"license", "row">>) /\ Single(<<"license", "hasp">>)
  BY LicenseAdds DEF Single
<1>10. Single(<<"filedb", "class">>)
  BY FileDBAdds DEF Single
<1>11. \A f \in FileDBFields : Single(<<"filedb", f>>)
  BY FileDBAdds DEF Single
<1>12. \A n \in FileDBNumbers : Single(<<"filedb", "class", n>>)
  BY FileDBAdds DEF Single
<1>13. QED
  BY <1>3, <1>5, <1>6, <1>7, <1>8, <1>9, <1>10, <1>11, <1>12

(* Every table of the overview takes every event and its time. *)
LEMMA OverviewBalances ==
  ASSUME InBooks, NEW e \in Events, CountEvent(e), OverviewAddsUp
  PROVE  OverviewAddsUp'
<1> DEFINE D == {<<"total">>, <<"type">>, <<"bucket">>} \cup {<<"overview", f>> : f \in OverviewFields}
           times == [i \in DOMAIN log |-> log[i].micros]
<1>1. log \in Seq(Events) /\ e.micros \in Int /\ log' = Append(log, e)
  BY EventNumbers DEF InBooks, Logged, CountEvent
<1>2. Len(log) \in Nat /\ DOMAIN log = 1..Len(log) /\ \A i \in 1..Len(log) : log[i] \in Events
  BY <1>1, ElementOfSeq
<1>3. Len(log') = Len(log) + 1
  BY <1>1, AppendProperties
<1>4. SumOf([i \in DOMAIN log' |-> log'[i].micros]) = SumOf(times) + e.micros
  <2>1. \A i \in 1..Len(log) : log[i].micros \in Int
    BY <1>2, EventNumbers
  <2> DEFINE n == Len(log)
  <2>2. times \in Seq(Int) /\ Len(times) = n /\ \A i \in 1..n : times[i] = log[i].micros
    <3>1. times \in [1..n -> Int]
      BY <1>2, <2>1
    <3>2. n \in Nat
      BY <1>2
    <3> HIDE DEF times, n
    <3>3. times \in Seq(Int) /\ Len(times) = n
      BY <3>1, <3>2
    <3>4. QED
      BY <1>2, <3>3 DEF times, n
  <2> DEFINE more == [i \in DOMAIN log' |-> log'[i].micros]
             added == times \o <<e.micros>>
  <2>3. DOMAIN log' = 1..(n + 1) /\ log'[n + 1] = e /\ \A i \in 1..n : log'[i] = log[i]
    <3>1. DOMAIN log' = 1..(n + 1)
      BY <1>1, <1>2, AppendProperties
    <3>2. log'[n + 1] = e /\ \A i \in 1..n : log'[i] = log[i]
      BY <1>1, <1>2, AppendProperties
    <3>3. QED
      BY <3>1, <3>2
  <2>4. /\ <<e.micros>> \in Seq(Int) /\ Len(<<e.micros>>) = 1 /\ <<e.micros>>[1] = e.micros
    BY <1>1
  <2>5. /\ added \in Seq(Int) /\ Len(added) = n + 1
        /\ \A i \in 1..(n + 1) : added[i] = IF i <= n THEN times[i] ELSE <<e.micros>>[i - n]
    <3> HIDE DEF times, n
    <3>1. QED
      BY <2>2, <2>4, ConcatProperties
  <2>6. n \in Nat
    BY <1>2
  <2> HIDE DEF n
  <2>7. DOMAIN more = 1..(n + 1) /\ \A i \in 1..(n + 1) : more[i] = log'[i].micros
    BY <2>3
  <2>8. DOMAIN added = 1..(n + 1)
    <3> HIDE DEF added
    <3>1. QED
      BY <2>5, <2>6
  <2>9. \A i \in 1..(n + 1) : added[i] = more[i]
    <3> TAKE i \in 1..(n + 1)
    <3>1. i \in 1..n \/ i = n + 1
      BY <2>6
    <3>2. CASE i \in 1..n
      <4> HIDE DEF added, more, times
      <4>1. added[i] = times[i]
        BY <2>5, <2>6, <3>2
      <4>2. more[i] = log[i].micros
        BY <2>3, <2>7, <3>2
      <4>3. QED
        BY <2>2, <3>2, <4>1, <4>2
    <3>3. CASE i = n + 1
      <4>1. ~(i <= n) /\ i - n = 1
        BY <2>6, <3>3
      <4> HIDE DEF added, more, times
      <4>2. added[i] = <<e.micros>>[i - n]
        BY <2>5, <4>1
      <4>3. added[i] = e.micros
        BY <2>4, <4>1, <4>2
      <4>4. more[i] = e.micros
        BY <2>3, <2>7, <3>3
      <4>5. QED
        BY <4>3, <4>4
    <3>4. QED
      BY <3>1, <3>2, <3>3
  <2>10. more = [i \in 1..(n + 1) |-> more[i]]
    BY <2>3
  <2>11. added = [i \in 1..(n + 1) |-> added[i]]
    <3>1. added = [i \in 1..Len(added) |-> added[i]]
      <4>1. \A s \in Seq(Int) : s = [i \in 1..Len(s) |-> s[i]]
        OBVIOUS
      <4> HIDE DEF added
      <4>2. QED
        BY <2>5, <4>1
    <3> HIDE DEF added
    <3>2. QED
      BY <2>5, <3>1
  <2>12. more = added
    <3> HIDE DEF more, added
    <3>1. QED
      BY <2>9, <2>10, <2>11
  <2>13. SumOf(added) = SumOf(times) + e.micros
    <3> HIDE DEF times
    <3>1. QED
      BY <1>1, <2>2, SumOfSteps
  <2>14. QED
    BY <2>12, <2>13
<1> HIDE DEF times
<1>5. ASSUME NEW dim \in D
      PROVE  CountIn(dim)' = Len(log') /\ TotalIn(dim)' = SumOf([i \in DOMAIN log' |-> log'[i].micros])
  <2>1. Single(dim) /\ AddsTo(e, dim, TRUE) /\ \A x \in Entries(e) : x[1] = dim => x[3] = e.micros
    BY SingleTables, OverviewAdds
  <2>2. CountIn(dim)' = CountIn(dim) + Once(TRUE)
    BY <2>1, TableMoves
  <2>3. PICK x \in Entries(e) : x[1] = dim
    BY <2>1 DEF AddsTo, Adds
  <2>4. TotalIn(dim)' = TotalIn(dim) + x[3]
    BY <2>1, <2>3, TotalMoves
  <2>5. CountIn(dim) = Len(log) /\ TotalIn(dim) = SumOf(times)
    BY DEF OverviewAddsUp, times
  <2>6. CountIn(dim)' = Len(log')
    BY <1>3, <2>2, <2>5 DEF Once
  <2>7. TotalIn(dim)' = SumOf([i \in DOMAIN log' |-> log'[i].micros])
    BY <1>4, <2>1, <2>3, <2>4, <2>5
  <2>8. QED
    BY <2>6, <2>7
<1>6. QED
  BY <1>5 DEF OverviewAddsUp

(* Locks: an event moves the tables and the counters of its analyzer alike. *)
LEMMA LocksBalance ==
  ASSUME InBooks, NEW e \in Events, CountEvent(e), LocksAddUp
  PROVE  LocksAddUp'
<1> DEFINE lock == IsLock(e)
           has == Has(e, "Context")
           related == Related(e)
<1>1. lock \in BOOLEAN /\ has \in BOOLEAN /\ related \in BOOLEAN
  BY DEF IsLock, Has, Related
<1> HIDE DEF lock, has, related
<1>2. /\ AddsTo(e, <<"lock", "event">>, lock)
      /\ AddsTo(e, <<"lock", "conflict">>, lock)
      /\ AddsTo(e, <<"lock", "context">>, lock /\ has)
      /\ AddsTo(e, <<"lock", "relation">>, lock /\ related)
  BY LockAdds DEF lock, has, related
<1>3. /\ Single(<<"lock", "event">>) /\ Single(<<"lock", "conflict">>)
      /\ Single(<<"lock", "context">>) /\ Single(<<"lock", "relation">>)
  BY SingleTables
<1>4. /\ CountIn(<<"lock", "event">>) \in Int
      /\ CountIn(<<"lock", "event">>)' = CountIn(<<"lock", "event">>) + Once(lock)
  BY <1>2, <1>3, TableMoves
<1>5. CountIn(<<"lock", "conflict">>)' = CountIn(<<"lock", "conflict">>) + Once(lock)
  BY <1>2, <1>3, TableMoves
<1>6. /\ CountIn(<<"lock", "context">>) \in Int
      /\ CountIn(<<"lock", "context">>)' = CountIn(<<"lock", "context">>) + Once(lock /\ has)
  BY <1>2, <1>3, TableMoves
<1>7. /\ <<"lock", "events">> \in Counts(e) <=> lock
      /\ <<"lock", "missing", "Context">> \in Counts(e) <=> lock /\ ~has
      /\ <<"lock", "relations">> \in Counts(e) <=> lock /\ related
  BY LockCounted DEF lock, has, related
<1>8. Copies(<<"lock", "events">>)' = Copies(<<"lock", "events">>) + Once(lock)
  BY <1>7, CounterMoves DEF Once
<1>9. /\ Copies(<<"lock", "missing", "Context">>) \in Nat
      /\ Copies(<<"lock", "missing", "Context">>)'
           = Copies(<<"lock", "missing", "Context">>) + Once(lock /\ ~has)
  BY <1>7, CounterMoves DEF Once
<1>10. /\ Copies(<<"lock", "relations">>) \in Nat
       /\ Copies(<<"lock", "relations">>)' = Copies(<<"lock", "relations">>) + Once(lock /\ related)
  BY <1>7, CounterMoves DEF Once
<1>11. /\ CountIn(<<"lock", "event">>) = Copies(<<"lock", "events">>)
       /\ CountIn(<<"lock", "conflict">>) = Copies(<<"lock", "events">>)
       /\ CountIn(<<"lock", "context">>) + Copies(<<"lock", "missing", "Context">>)
            = Copies(<<"lock", "events">>)
  BY DEF LocksAddUp
<1>12. /\ CountIn(<<"lock", "event">>)' = Copies(<<"lock", "events">>)'
       /\ CountIn(<<"lock", "conflict">>)' = Copies(<<"lock", "events">>)'
  BY <1>4, <1>5, <1>8, <1>11
<1>13. CountIn(<<"lock", "context">>)' + Copies(<<"lock", "missing", "Context">>)'
         = Copies(<<"lock", "events">>)'
  <2>1. Once(lock /\ has) + Once(lock /\ ~has) = Once(lock)
    BY <1>1 DEF Once
  <2>2. Once(lock /\ has) \in Int /\ Once(lock /\ ~has) \in Int
    BY DEF Once
  <2>3. QED
    BY <1>6, <1>8, <1>9, <1>11, <2>1, <2>2
<1>14. LET relations == GroupsIn(groups', <<"lock", "relation">>)
       IN  /\ Cardinality(relations) <= Copies(<<"lock", "relations">>)'
           /\ relations = {} <=> Copies(<<"lock", "relations">>)' = 0
  <2> DEFINE S == GroupsIn(groups, <<"lock", "relation">>)
             T == GroupsIn(groups', <<"lock", "relation">>)
             a == Copies(<<"lock", "relations">>)
             b == Copies(<<"lock", "relations">>)'
  <2>1. groups' = Added(groups, Entries(e))
    BY DEF CountEvent
  <2>2. IsFiniteSet(S) /\ IsFiniteSet(T) /\ Widens(S, T, lock /\ related)
    BY <1>2, <1>3, <2>1, GroupsMove
  <2>3. Cardinality(S) <= a /\ (S = {} <=> a = 0) /\ a \in Nat /\ b = a + Once(lock /\ related)
    BY <1>10 DEF LocksAddUp
  <2> HIDE DEF S, T, a, b
  <2>4. PICK g : T = S \cup (IF lock /\ related THEN {g} ELSE {})
    BY <2>2 DEF Widens
  <2>5. CASE lock /\ related
    <3>1. T = S \cup {g} /\ b = a + 1
      BY <2>3, <2>4, <2>5 DEF Once
    <3>2. Cardinality(S) \in Nat /\ Cardinality(T) <= Cardinality(S) + 1
      <4>1. Cardinality(S) \in Nat
        BY <2>2, FS_CardinalityType
      <4>2. Cardinality(T) = IF g \in S THEN Cardinality(S) ELSE Cardinality(S) + 1
        BY <2>2, <3>1, FS_AddElement
      <4>3. QED
        BY <4>1, <4>2
    <3>3. T # {} /\ b # 0
      BY <2>3, <3>1
    <3>4. Cardinality(T) <= b
      <4>1. Cardinality(T) \in Nat
        BY <2>2, FS_CardinalityType
      <4>2. QED
        BY <2>3, <3>1, <3>2, <4>1
    <3>5. QED
      BY <3>3, <3>4 DEF T, b
  <2>6. CASE ~(lock /\ related)
    <3>1. T = S /\ b = a
      BY <2>3, <2>4, <2>6 DEF Once
    <3>2. QED
      BY <2>3, <3>1 DEF T, b
  <2>7. QED
    BY <2>5, <2>6
<1>15. QED
  BY <1>12, <1>13, <1>14 DEF LocksAddUp

(* Calls: a number of a call is in its tables, missing or malformed. *)
LEMMA CallsBalance ==
  ASSUME InBooks, NEW e \in Events, CountEvent(e), CallsAddUp
  PROVE  CallsAddUp'
<1> DEFINE call == e.name = "SCALL"
           all == Copies(<<"scall", "events">>)
<1>1. call \in BOOLEAN
  OBVIOUS
<1> HIDE DEF call
<1>2. all' = all + Once(call)
  BY ScallCounted, CounterMoves DEF call, Once
<1>3. ASSUME NEW f \in ScallFields \cup {"call"}
      PROVE  CountIn(<<"scall", f>>)' = all'
  <2>1. Single(<<"scall", f>>) /\ AddsTo(e, <<"scall", f>>, call)
    BY SingleTables, ScallAdds DEF call
  <2>2. CountIn(<<"scall", f>>)' = CountIn(<<"scall", f>>) + Once(call)
    BY <2>1, TableMoves
  <2>3. CountIn(<<"scall", f>>) = all
    BY DEF CallsAddUp
  <2>4. QED
    BY <1>2, <2>2, <2>3
<1>4. ASSUME NEW n \in ScallNumbers, NEW f \in {"call", "process"}
      PROVE  CountIn(<<"scall", f, n>>)' + Copies(<<"scall", "missing", n>>)'
               + Copies(<<"scall", "malformed", n>>)' = all'
  <2> DEFINE has == Has(e, n)
             ok == NumberOk(e, n)
             count == CountIn(<<"scall", f, n>>)
             missing == Copies(<<"scall", "missing", n>>)
             malformed == Copies(<<"scall", "malformed", n>>)
  <2>1. has \in BOOLEAN /\ ok \in BOOLEAN /\ (ok => has)
    BY DEF Has, NumberOk
  <2>2. Single(<<"scall", f, n>>) /\ AddsTo(e, <<"scall", f, n>>, call /\ ok)
    <3>1. f \in ScallFields \cup {"call"}
      BY DEF ScallFields
    <3>2. QED
      BY <3>1, SingleTables, ScallAdds DEF call
  <2>3. /\ <<"scall", "missing", n>> \in Counts(e) <=> call /\ ~has
        /\ <<"scall", "malformed", n>> \in Counts(e) <=> call /\ has /\ ~ok
    BY ScallCounted DEF call
  <2> HIDE DEF has, ok
  <2>4. count \in Int /\ count' = count + Once(call /\ ok)
    BY <2>2, TableMoves
  <2>5. missing \in Nat /\ missing' = missing + Once(call /\ ~has)
    BY <2>3, CounterMoves DEF Once
  <2>6. malformed \in Nat /\ malformed' = malformed + Once(call /\ has /\ ~ok)
    BY <2>3, CounterMoves DEF Once
  <2>7. count + missing + malformed = all
    BY DEF CallsAddUp
  <2> HIDE DEF count, missing, malformed, all
  <2>8. /\ Once(call /\ ok) + Once(call /\ ~has) + Once(call /\ has /\ ~ok) = Once(call)
        /\ Once(call /\ ok) \in Int /\ Once(call /\ ~has) \in Int /\ Once(call /\ has /\ ~ok) \in Int
    BY <1>1, <2>1 DEF Once
  <2>9. count' + missing' + malformed' = all'
    BY <1>2, <2>4, <2>5, <2>6, <2>7, <2>8
  <2>10. QED
    BY <2>9 DEF count, missing, malformed
<1>5. QED
  BY <1>3, <1>4 DEF CallsAddUp

(* Sums that move with their summands. *)
LEMMA SixMove ==
  ASSUME NEW m \in Int, NEW n \in Int, NEW p \in Int, NEW q \in Int, NEW r \in Int, NEW s \in Int,
         NEW m2 \in Int, NEW n2 \in Int, NEW p2 \in Int, NEW q2 \in Int, NEW r2 \in Int, NEW s2 \in Int,
         NEW a \in Int, NEW b \in Int, NEW c \in Int, NEW d \in Int, NEW f \in Int, NEW g \in Int,
         NEW h \in Int, NEW k \in Int, NEW t, NEW t2,
         m2 = m + a, n2 = n + b, p2 = p + c, q2 = q + d, r2 = r + f, s2 = s + g,
         c + d + f + g = h, k = h + a + b, t = p + q + r + s + m + n, t2 = t + k
  PROVE  /\ p2 + q2 + r2 + s2 = p + q + r + s + h
         /\ t2 = p2 + q2 + r2 + s2 + m2 + n2
  OBVIOUS

(* Functions: each has one outcome, and is in the tables if it was parsed. *)
LEMMA FunctionsBalance ==
  ASSUME InBooks, NEW e \in Events, CountEvent(e), FunctionsAddUp
  PROVE  FunctionsAddUp'
<1> DEFINE scom == e.name = "SCOM"
           ends == FunctionOutcome(e)
           ok == FunctionOk(e)
           all == Copies(<<"scom", "events">>)
           m1 == Copies(<<"scom", "missing">>)
           m2 == Copies(<<"scom", "malformed">>)
           p1 == Copies(<<"scom", "unknown">>)
           p2 == Copies(<<"scom", "few arguments">>)
           p3 == Copies(<<"scom", "missing names">>)
           p4 == Copies(<<"scom", "relation">>)
<1>1. scom => ends \in Outcomes /\ (ok <=> ends \in ParsedOutcomes)
  <2>1. scom => (Has(e, "Func") => e.fields["Func"] \in Seq(STRING))
    BY EventAssumption DEF Events
  <2>2. QED
    BY <2>1, OneOutcome
<1>2. /\ <<"scom", "events">> \in Counts(e) <=> scom
      /\ \A o \in Outcomes : <<"scom", o>> \in Counts(e) <=> scom /\ ends = o
      /\ <<"proc", "events">> \in Counts(e) <=> e.name = "PROC"
  BY ProcessCounted
<1>3. /\ AddsTo(e, <<"proc", "process">>, e.name = "PROC")
      /\ \A t \in {"operation", "process", "composite"} : AddsTo(e, <<"scom", t>>, scom /\ ok)
      /\ AddsTo(e, <<"scom", "relation">>, scom /\ ok /\ ends = "relation")
  BY ProcessAdds
<1>4. /\ Single(<<"proc", "process">>)
      /\ \A t \in {"operation", "process", "composite", "relation"} : Single(<<"scom", t>>)
  BY SingleTables
<1> HIDE DEF scom, ends, ok
<1>5. CountIn(<<"proc", "process">>)' = Copies(<<"proc", "events">>)'
  <2>1. CountIn(<<"proc", "process">>)' = CountIn(<<"proc", "process">>) + Once(e.name = "PROC")
    BY <1>3, <1>4, TableMoves
  <2>2. Copies(<<"proc", "events">>)' = Copies(<<"proc", "events">>) + Once(e.name = "PROC")
    BY <1>2, CounterMoves DEF Once
  <2>3. CountIn(<<"proc", "process">>) = Copies(<<"proc", "events">>)
    BY DEF FunctionsAddUp
  <2>4. QED
    BY <2>1, <2>2, <2>3
<1>6. all \in Nat /\ all' = all + Once(scom)
  BY <1>2, CounterMoves DEF Once
<1>7. ASSUME NEW o \in Outcomes
      PROVE  /\ Copies(<<"scom", o>>) \in Nat
             /\ Copies(<<"scom", o>>)' = Copies(<<"scom", o>>) + Once(scom /\ ends = o)
  BY <1>2, CounterMoves DEF Once
<1>8. /\ m1 \in Int /\ m2 \in Int /\ p1 \in Int /\ p2 \in Int /\ p3 \in Int /\ p4 \in Int
  <2>1. \A c : Copies(c) \in Int
    BY DEF InBooks, Counted
  <2>2. QED
    BY <2>1, Zenon
<1>9. /\ m1 \in Nat /\ m1' = m1 + Once(scom /\ ends = "missing")
      /\ m2 \in Nat /\ m2' = m2 + Once(scom /\ ends = "malformed")
      /\ p1 \in Nat /\ p1' = p1 + Once(scom /\ ends = "unknown")
      /\ p2 \in Nat /\ p2' = p2 + Once(scom /\ ends = "few arguments")
      /\ p3 \in Nat /\ p3' = p3 + Once(scom /\ ends = "missing names")
      /\ p4 \in Nat /\ p4' = p4 + Once(scom /\ ends = "relation")
  <2>1. /\ "missing" \in Outcomes /\ "malformed" \in Outcomes /\ "unknown" \in Outcomes
        /\ "few arguments" \in Outcomes /\ "missing names" \in Outcomes /\ "relation" \in Outcomes
    BY DEF Outcomes
  <2>2. m1 \in Nat /\ m1' = m1 + Once(scom /\ ends = "missing")
    BY <1>7, <2>1
  <2>3. m2 \in Nat /\ m2' = m2 + Once(scom /\ ends = "malformed")
    BY <1>7, <2>1
  <2>4. p1 \in Nat /\ p1' = p1 + Once(scom /\ ends = "unknown")
    BY <1>7, <2>1
  <2>5. p2 \in Nat /\ p2' = p2 + Once(scom /\ ends = "few arguments")
    BY <1>7, <2>1
  <2>6. p3 \in Nat /\ p3' = p3 + Once(scom /\ ends = "missing names")
    BY <1>7, <2>1
  <2>7. p4 \in Nat /\ p4' = p4 + Once(scom /\ ends = "relation")
    BY <1>7, <2>1
  <2>8. QED
    BY <2>2, <2>3, <2>4, <2>5, <2>6, <2>7
<1>10. /\ all = p1 + p2 + p3 + p4 + m1 + m2
      /\ \A t \in {"operation", "process", "composite"} : CountIn(<<"scom", t>>) = p1 + p2 + p3 + p4
      /\ CountIn(<<"scom", "relation">>) = p4
  BY DEF FunctionsAddUp
<1>11. \A t \in {"operation", "process", "composite"} :
         CountIn(<<"scom", t>>)' = CountIn(<<"scom", t>>) + Once(scom /\ ok)
  BY <1>3, <1>4, TableMoves
<1>12. CountIn(<<"scom", "relation">>)'
         = CountIn(<<"scom", "relation">>) + Once(scom /\ ok /\ ends = "relation")
  BY <1>3, <1>4, TableMoves
<1>13. Once(scom /\ ok /\ ends = "relation") = Once(scom /\ ends = "relation")
  BY <1>1 DEF Once, ParsedOutcomes
<1> HIDE DEF all, m1, m2, p1, p2, p3, p4
<1>14. /\ all' = p1' + p2' + p3' + p4' + m1' + m2'
       /\ p1' + p2' + p3' + p4' = p1 + p2 + p3 + p4 + Once(scom /\ ok)
  <2> DEFINE o(outcome) == Once(scom /\ ends = outcome)
             a1 == o("missing")
             a2 == o("malformed")
             b1 == o("unknown")
             b2 == o("few arguments")
             b3 == o("missing names")
             b4 == o("relation")
             d == Once(scom)
             h == Once(scom /\ ok)
  <2>1. /\ a1 \in Int /\ a2 \in Int /\ b1 \in Int /\ b2 \in Int /\ b3 \in Int /\ b4 \in Int
        /\ d \in Int /\ h \in Int
    BY DEF Once
  <2>2. b1 + b2 + b3 + b4 = h /\ d = h + a1 + a2
    <3>1. CASE ~scom
      BY <3>1 DEF Once
    <3>2. CASE scom /\ ends \in {"missing", "malformed"}
      <4>1. ~ok
        BY <1>1, <3>2 DEF ParsedOutcomes
      <4>2. b1 = 0 /\ b2 = 0 /\ b3 = 0 /\ b4 = 0 /\ h = 0 /\ d = 1
        BY <3>2, <4>1 DEF Once
      <4>3. (a1 = 1 /\ a2 = 0) \/ (a1 = 0 /\ a2 = 1)
        BY <3>2 DEF Once
      <4> HIDE DEF a1, a2, b1, b2, b3, b4, d, h
      <4>4. QED
        BY <4>2, <4>3
    <3>3. CASE scom /\ ends \in ParsedOutcomes
      <4>1. ok
        BY <1>1, <3>3
      <4>2. a1 = 0 /\ a2 = 0 /\ h = 1 /\ d = 1
        BY <3>3, <4>1 DEF Once, ParsedOutcomes
      <4>3. \/ b1 = 1 /\ b2 = 0 /\ b3 = 0 /\ b4 = 0
            \/ b1 = 0 /\ b2 = 1 /\ b3 = 0 /\ b4 = 0
            \/ b1 = 0 /\ b2 = 0 /\ b3 = 1 /\ b4 = 0
            \/ b1 = 0 /\ b2 = 0 /\ b3 = 0 /\ b4 = 1
        <5>1. \/ ends = "unknown" \/ ends = "few arguments"
              \/ ends = "missing names" \/ ends = "relation"
          BY <3>3 DEF ParsedOutcomes
        <5>2. QED
          BY <3>3, <5>1 DEF Once
      <4> HIDE DEF a1, a2, b1, b2, b3, b4, d, h
      <4>4. QED
        BY <4>2, <4>3
    <3>4. QED
      BY <1>1, <3>1, <3>2, <3>3 DEF Outcomes, ParsedOutcomes
  <2>3. /\ m1' = m1 + a1 /\ m2' = m2 + a2 /\ p1' = p1 + b1 /\ p2' = p2 + b2
        /\ p3' = p3 + b3 /\ p4' = p4 + b4 /\ all' = all + d
    BY <1>6, <1>9
  <2> HIDE DEF a1, a2, b1, b2, b3, b4, d, h
  <2>4. /\ p1 \in Int /\ p2 \in Int /\ p3 \in Int /\ p4 \in Int /\ m1 \in Int /\ m2 \in Int
        /\ p1' \in Int /\ p2' \in Int /\ p3' \in Int /\ p4' \in Int /\ m1' \in Int /\ m2' \in Int
    <3>1. /\ p1 \in Int /\ p2 \in Int /\ p3 \in Int /\ p4 \in Int /\ m1 \in Int /\ m2 \in Int
      BY <1>8
    <3>2. p1' \in Int /\ p2' \in Int /\ p3' \in Int
      BY <2>1, <2>3, <3>1
    <3>3. p4' \in Int /\ m1' \in Int /\ m2' \in Int
      BY <2>1, <2>3, <3>1
    <3>4. QED
      BY <3>1, <3>2, <3>3
  <2>5. /\ p1' + p2' + p3' + p4' = p1 + p2 + p3 + p4 + h
        /\ all' = p1' + p2' + p3' + p4' + m1' + m2'
    BY <1>10, <2>1, <2>2, <2>3, <2>4, SixMove
  <2>6. QED
    BY <2>5 DEF h
<1>15. \A t \in {"operation", "process", "composite"} : CountIn(<<"scom", t>>)' = p1' + p2' + p3' + p4'
  BY <1>10, <1>11, <1>14
<1>16. CountIn(<<"scom", "relation">>)' = p4'
  BY <1>9, <1>10, <1>12, <1>13
<1>17. QED
  BY <1>5, <1>14, <1>15, <1>16 DEF FunctionsAddUp, all, m1, m2, p1, p2, p3, p4

(* Licenses: what succeeds was acquired, what was acquired succeeds or fails,*)
(* and a query has one origin.                                               *)
LEMMA LicensesBalance ==
  ASSUME InBooks, NEW e \in Events, CountEvent(e), LicensesAddUp
  PROVE  LicensesAddUp'
<1> DEFINE lic == e.name = "LIC"
           hasp == e.name = "HASP"
           in(c) == c \in Classes(e)
           origin == HaspOrigin(e)
           events == Copies(<<"license", "events">>)
           queries == Copies(<<"hasp", "events">>)
           acquired == Copies(<<"license", "acquire">>)
           succeeded == Copies(<<"license", "success">>)
           failed == Copies(<<"license", "failure">>)
           o1 == Copies(<<"hasp", "cache">>)
           o2 == Copies(<<"hasp", "os">>)
           o3 == Copies(<<"hasp", "unknown">>)
<1>1. /\ <<"license", "events">> \in Counts(e) <=> lic
      /\ <<"hasp", "events">> \in Counts(e) <=> hasp
      /\ <<"license", "acquire">> \in Counts(e) <=> lic /\ in("acquire")
      /\ <<"license", "success">> \in Counts(e) <=> lic /\ in("success")
      /\ <<"license", "failure">> \in Counts(e) <=> lic /\ in("failure")
      /\ <<"hasp", "cache">> \in Counts(e) <=> hasp /\ origin = "cache"
      /\ <<"hasp", "os">> \in Counts(e) <=> hasp /\ origin = "os"
      /\ <<"hasp", "unknown">> \in Counts(e) <=> hasp /\ origin = "unknown"
  BY LicenseCounted DEF Origins
<1>2. /\ origin \in Origins
      /\ in("success") => in("acquire")
      /\ in("acquire") => in("success") \/ in("failure")
  BY LicenseCounted
<1>3. /\ AddsTo(e, <<"license", "row">>, lic) /\ AddsTo(e, <<"license", "hasp">>, hasp)
      /\ Single(<<"license", "row">>) /\ Single(<<"license", "hasp">>)
  BY LicenseAdds, SingleTables
<1> DEFINE s == in("success")
           a == in("acquire")
           f == in("failure")
<1>4. s \in BOOLEAN /\ a \in BOOLEAN /\ f \in BOOLEAN /\ lic \in BOOLEAN /\ hasp \in BOOLEAN
  OBVIOUS
<1> HIDE DEF lic, hasp, origin, s, a, f
<1>5. /\ CountIn(<<"license", "row">>)' = CountIn(<<"license", "row">>) + Once(lic)
      /\ CountIn(<<"license", "hasp">>)' = CountIn(<<"license", "hasp">>) + Once(hasp)
  BY <1>3, TableMoves
<1>6. events' = events + Once(lic) /\ queries' = queries + Once(hasp)
  BY <1>1, CounterMoves DEF Once
<1>7. /\ acquired \in Nat /\ acquired' = acquired + Once(lic /\ a)
      /\ succeeded \in Nat /\ succeeded' = succeeded + Once(lic /\ s)
      /\ failed \in Nat /\ failed' = failed + Once(lic /\ f)
  BY <1>1, CounterMoves DEF Once, s, a, f
<1>8. /\ o1 \in Nat /\ o1' = o1 + Once(hasp /\ origin = "cache")
      /\ o2 \in Nat /\ o2' = o2 + Once(hasp /\ origin = "os")
      /\ o3 \in Nat /\ o3' = o3 + Once(hasp /\ origin = "unknown")
  BY <1>1, CounterMoves DEF Once
<1>9. /\ CountIn(<<"license", "row">>) = events
      /\ succeeded <= acquired /\ acquired <= succeeded + failed
      /\ queries = CountIn(<<"license", "hasp">>) /\ queries = o1 + o2 + o3
  BY DEF LicensesAddUp
<1>10. CountIn(<<"license", "row">>)' = events' /\ queries' = CountIn(<<"license", "hasp">>)'
  BY <1>5, <1>6, <1>9
<1> HIDE DEF events, queries, acquired, succeeded, failed, o1, o2, o3
<1>11. succeeded' <= acquired' /\ acquired' <= succeeded' + failed'
  <2> DEFINE x == Once(lic /\ s)
             y == Once(lic /\ a)
             z == Once(lic /\ f)
  <2>1. x \in Int /\ y \in Int /\ z \in Int /\ x <= y /\ y <= x + z
    BY <1>2, <1>4 DEF Once, s, a, f
  <2>2. succeeded' = succeeded + x /\ acquired' = acquired + y /\ failed' = failed + z
    BY <1>7
  <2>3. succeeded \in Nat /\ acquired \in Nat /\ failed \in Nat
    BY <1>7
  <2> HIDE DEF x, y, z
  <2>4. QED
    BY <1>9, <2>1, <2>2, <2>3
<1>12. queries' = o1' + o2' + o3'
  <2> DEFINE x == Once(hasp /\ origin = "cache")
             y == Once(hasp /\ origin = "os")
             z == Once(hasp /\ origin = "unknown")
             h == Once(hasp)
  <2>1. x \in Int /\ y \in Int /\ z \in Int /\ h = x + y + z
    BY <1>2, <1>4 DEF Once, Origins
  <2>2. o1' = o1 + x /\ o2' = o2 + y /\ o3' = o3 + z
    BY <1>8
  <2>3. o1 \in Nat /\ o2 \in Nat /\ o3 \in Nat
    BY <1>8
  <2>4. queries' = queries + h
    BY <1>6
  <2> HIDE DEF x, y, z, h
  <2>5. QED
    BY <1>9, <2>1, <2>2, <2>3, <2>4
<1>13. QED
  BY <1>9, <1>10, <1>11, <1>12
     DEF LicensesAddUp, events, queries, acquired, succeeded, failed, o1, o2, o3

(* Every event is counted or ignored by each of the analyzers. *)
LEMMA ConsumptionBalances ==
  ASSUME InBooks, NEW e \in Events, CountEvent(e), EachConsumesAll
  PROVE  EachConsumesAll'
<1>1. Len(log) \in Nat /\ Len(log') = Len(log) + 1
  <2>1. log \in Seq(Events) /\ log' = Append(log, e)
    BY DEF InBooks, Logged, CountEvent
  <2>2. QED
    BY <2>1, AppendProperties
<1>2. ASSUME NEW c
      PROVE  Copies(c) \in Nat /\ Copies(c)' = Copies(c) + Once(c \in Counts(e))
  BY CounterMoves
<1>3. Copies(<<"lock", "events">>)' + Copies(<<"lock", "ignored">>)' = Len(log')
  <2> DEFINE u == Copies(<<"lock", "events">>)
             v == Copies(<<"lock", "ignored">>)
  <2>1. /\ u \in Nat /\ u' = u + Once(IsLock(e))
        /\ v \in Nat /\ v' = v + Once(~IsLock(e))
    BY <1>2, LockCounted DEF Once
  <2>2. u + v = Len(log)
    BY DEF EachConsumesAll
  <2> HIDE DEF u, v
  <2>3. u' + v' = Len(log')
    BY <1>1, <2>1, <2>2 DEF Once
  <2>4. QED
    BY <2>3 DEF u, v
<1>4. Copies(<<"scall", "events">>)' + Copies(<<"scall", "ignored">>)' = Len(log')
  <2> DEFINE u == Copies(<<"scall", "events">>)
             v == Copies(<<"scall", "ignored">>)
  <2>1. /\ u \in Nat /\ u' = u + Once(e.name = "SCALL")
        /\ v \in Nat /\ v' = v + Once(e.name # "SCALL")
    BY <1>2, ScallCounted DEF Once
  <2>2. u + v = Len(log)
    BY DEF EachConsumesAll
  <2> HIDE DEF u, v
  <2>3. u' + v' = Len(log')
    BY <1>1, <2>1, <2>2 DEF Once
  <2>4. QED
    BY <2>3 DEF u, v
<1>5. Copies(<<"proc", "events">>)' + Copies(<<"scom", "events">>)' + Copies(<<"process", "ignored">>)'
        = Len(log')
  <2> DEFINE u == Copies(<<"proc", "events">>)
             v == Copies(<<"scom", "events">>)
             w == Copies(<<"process", "ignored">>)
  <2>1. /\ u \in Nat /\ u' = u + Once(e.name = "PROC")
        /\ v \in Nat /\ v' = v + Once(e.name = "SCOM")
        /\ w \in Nat /\ w' = w + Once(e.name \notin {"PROC", "SCOM"})
    BY <1>2, ProcessCounted DEF Once
  <2>2. u + v + w = Len(log)
    BY DEF EachConsumesAll
  <2> HIDE DEF u, v, w
  <2>3. u' + v' + w' = Len(log')
    BY <1>1, <2>1, <2>2 DEF Once
  <2>4. QED
    BY <2>3 DEF u, v, w
<1>6. Copies(<<"license", "events">>)' + Copies(<<"hasp", "events">>)' + Copies(<<"license", "ignored">>)'
        = Len(log')
  <2> DEFINE u == Copies(<<"license", "events">>)
             v == Copies(<<"hasp", "events">>)
             w == Copies(<<"license", "ignored">>)
  <2>1. /\ u \in Nat /\ u' = u + Once(e.name = "LIC")
        /\ v \in Nat /\ v' = v + Once(e.name = "HASP")
        /\ w \in Nat /\ w' = w + Once(e.name \notin {"LIC", "HASP"})
    BY <1>2, LicenseCounted DEF Once
  <2>2. u + v + w = Len(log)
    BY DEF EachConsumesAll
  <2> HIDE DEF u, v, w
  <2>3. u' + v' + w' = Len(log')
    BY <1>1, <2>1, <2>2 DEF Once
  <2>4. QED
    BY <2>3 DEF u, v, w
<1>7. Copies(<<"filedb", "events">>)' + Copies(<<"filedb", "ignored">>)' = Len(log')
  <2> DEFINE u == Copies(<<"filedb", "events">>)
             v == Copies(<<"filedb", "ignored">>)
  <2>1. /\ u \in Nat /\ u' = u + Once(e.name = "DBV8DBEng")
        /\ v \in Nat /\ v' = v + Once(e.name # "DBV8DBEng")
    BY <1>2, FileDBCounted DEF Once
  <2>2. u + v = Len(log)
    BY DEF EachConsumesAll
  <2> HIDE DEF u, v
  <2>3. u' + v' = Len(log')
    BY <1>1, <2>1, <2>2 DEF Once
  <2>4. QED
    BY <2>3 DEF u, v
<1>8. QED
  BY <1>3, <1>4, <1>5, <1>6, <1>7 DEF EachConsumesAll

(* The length of a list of the best. *)
LEMMA BestLength ==
  ASSUME NEW E, NEW R, Orders(R, E), NEW L \in Seq(E), NEW O, ComeFirst(R, O, E), NEW k \in Nat
  PROVE  Len(BestOfList(L, R, O, k)) = Fewer(Chosen(L, O), k)
<1>1. /\ BestOfList(L, R, O, k) \in Seq(E)
      /\ Len(BestOfList(L, R, O, k)) = Fewer(Chosen(L, O), k)
      /\ Fewer(Chosen(L, O), k) \in 0..Len(L)
      /\ \A m \in 1..Fewer(Chosen(L, O), k) : BestOfList(L, R, O, k)[m] = SortBy(L, R)[m]
      /\ SortBy(BestOfList(L, R, O, k), R) = BestOfList(L, R, O, k)
  BY BestOfListIs, Zenon
<1>2. QED
  BY <1>1, Zenon

(* A list of samples is as long as the events offered to it, up to its limit.*)
LEMMA SamplesGrow ==
  ASSUME InBooks, NEW e \in Events, CountEvent(e), NEW list \in Lists
  PROVE  /\ Len(samples[list]) \in 0..SampleLimit
         /\ Len(samples'[list]) = Len(samples[list])
                                    + Once(Offered(e, list) /\ Len(samples[list]) # SampleLimit)
<1> DEFINE O == Of(list)
           R == Before(list)
           C == {i \in 1..Len(log) : log[i] \in O}
           D == {i \in 1..Len(log') : log'[i] \in O}
<1>1. log \in Seq(Events) /\ log' = Append(log, e) /\ SamplesInv /\ SamplesInv'
  BY SamplesStep DEF InBooks, Logged, CountEvent
<1>2. log' \in Seq(Events) /\ Orders(R, Events) /\ ComeFirst(R, O, Events) /\ SampleLimit \in Nat
  BY <1>1, AppendProperties, BeforeOrders, CountersAssumption
<1>3. /\ Len(samples[list]) = Fewer(Chosen(log, O), SampleLimit)
      /\ Chosen(log, O) \in 0..Len(log)
  <2>1. samples[list] = BestOfList(log, R, O, SampleLimit)
    BY <1>1 DEF SamplesInv
  <2> HIDE DEF R, O
  <2>2. QED
    BY <1>1, <1>2, <2>1, BestOfListIs, ChosenAreFirst
<1>4. Len(samples'[list]) = Fewer(Chosen(log', O), SampleLimit)
  <2>1. samples'[list] = BestOfList(log', R, O, SampleLimit)
    BY <1>1 DEF SamplesInv, Before, Of
  <2> HIDE DEF R, O
  <2>2. QED
    BY <1>2, <2>1, BestLength
<1>5. Chosen(log', O) = Chosen(log, O) + Once(Offered(e, list))
  <2>1. e \in O <=> Offered(e, list)
    BY DEF Of
  <2> DEFINE n == Len(log)
  <2>2. n \in Nat /\ Len(log') = n + 1 /\ log'[n + 1] = e /\ \A i \in 1..n : log'[i] = log[i]
    BY <1>1, AppendProperties
  <2>3. IsFiniteSet(C)
    <3>1. n \in Nat
      BY <2>2
    <3> HIDE DEF n
    <3>2. IsFiniteSet(1..n)
      BY <3>1, FS_Interval
    <3>3. C \subseteq 1..n
      BY DEF n
    <3> HIDE DEF C
    <3>4. QED
      BY <3>2, <3>3, FS_Subset
  <2>4. D = C \cup (IF e \in O THEN {n + 1} ELSE {}) /\ n + 1 \notin C
    <3>1. C = {i \in 1..n : log[i] \in O} /\ D = {i \in 1..(n + 1) : log'[i] \in O}
      BY <2>2
    <3> HIDE DEF C, D, n, O
    <3>2. \A i : i \in 1..(n + 1) <=> i \in 1..n \/ i = n + 1
      BY <2>2
    <3>3. n + 1 \notin 1..n
      BY <2>2
    <3>4. \A i : i \in D <=> i \in C \/ (i = n + 1 /\ e \in O)
      BY <2>2, <3>1, <3>2, <3>3
    <3>5. QED
      BY <3>1, <3>3, <3>4
  <2>5. Chosen(log, O) = Cardinality(C) /\ Chosen(log', O) = Cardinality(D)
    BY DEF Chosen
  <2> HIDE DEF C, D, n, O
  <2>6. Cardinality(C) \in Nat /\ Cardinality(C \cup {n + 1}) = Cardinality(C) + 1
    BY <2>3, <2>4, FS_AddElement, FS_CardinalityType
  <2>7. CASE e \in O
    BY <2>1, <2>4, <2>5, <2>6, <2>7 DEF Once
  <2>8. CASE e \notin O
    <3>1. D = C
      BY <2>4, <2>8
    <3>2. QED
      BY <2>1, <2>5, <2>6, <2>8, <3>1 DEF Once
  <2>9. QED
    BY <2>7, <2>8
<1> DEFINE k == Chosen(log, O)
           m == Len(samples[list])
           m2 == Len(samples'[list])
           offered == Offered(e, list)
<1>6. k \in Nat /\ m = Fewer(k, SampleLimit) /\ m2 = Fewer(k + Once(offered), SampleLimit)
  BY <1>3, <1>4, <1>5
<1> HIDE DEF k, m, m2, offered
<1>7. m \in 0..SampleLimit /\ m2 = m + Once(offered /\ m # SampleLimit)
  <2>1. m \in 0..SampleLimit
    BY <1>2, <1>6 DEF Fewer
  <2>2. CASE offered
    <3>1. m2 = Fewer(k + 1, SampleLimit)
      BY <1>6, <2>2 DEF Once
    <3>2. QED
      BY <1>2, <1>6, <2>1, <2>2, <3>1 DEF Fewer, Once
  <2>3. CASE ~offered
    <3>1. m2 = Fewer(k + 0, SampleLimit)
      BY <1>6, <2>3 DEF Once
    <3>2. QED
      BY <1>2, <1>6, <2>1, <2>3, <3>1 DEF Fewer, Once
  <2>4. QED
    BY <2>2, <2>3
<1>8. QED
  BY <1>7 DEF m, m2, offered

(* What a condition splits in two. *)
LEMMA OnceSplits ==
  ASSUME NEW a \in BOOLEAN, NEW b \in BOOLEAN
  PROVE  /\ Once(a /\ b) + Once(a /\ ~b) = Once(a)
         /\ Once(a /\ b) \in Int /\ Once(a /\ ~b) \in Int
  BY DEF Once

(* A sum of two moves with them. *)
LEMMA TwoMove ==
  ASSUME NEW m \in Int, NEW n \in Int, NEW m2, NEW n2, NEW a \in Int, NEW b \in Int, NEW c \in Int,
         m2 = m + a, n2 = n + b, a + b = c
  PROVE  m + n \in Int /\ m2 + n2 = m + n + c
  OBVIOUS

(* A list of filedbstats keeps or drops what it is offered. *)
LEMMA KeptMoves ==
  ASSUME InBooks, NEW e \in Events, CountEvent(e), NEW list \in Lists,
         <<"filedb", "dropped", list>> \in Counts(e)
           <=> Offered(e, list) /\ Len(samples[list]) = SampleLimit
  PROVE  LET kept == Len(samples[list]) + Copies(<<"filedb", "dropped", list>>)
         IN  kept \in Int /\ kept' = kept + Once(Offered(e, list))
<1> DEFINE offered == Offered(e, list)
           full == Len(samples[list]) = SampleLimit
           lost == Copies(<<"filedb", "dropped", list>>)
           m == Len(samples[list])
           a == Once(offered /\ ~full)
           b == Once(offered /\ full)
           c == Once(offered)
<1>2. m \in 0..SampleLimit
  BY SamplesGrow
<1>3. m' = m + a
  BY SamplesGrow
<1>4. <<"filedb", "dropped", list>> \in Counts(e) <=> offered /\ full
  OBVIOUS
<1>5. offered \in BOOLEAN /\ full \in BOOLEAN
  <2>1. \A l \in Lists : Offered(e, l) \in BOOLEAN
    <3>1. /\ Offered(e, "lock") \in BOOLEAN /\ Offered(e, "scall") \in BOOLEAN /\ Offered(e, "proc") \in BOOLEAN
          /\ Offered(e, "license") \in BOOLEAN /\ Offered(e, "filedb") \in BOOLEAN
      <4>1. Offered(e, "lock") \in BOOLEAN
        <5>1. Offered(e, "lock") = IsLock(e)
          BY Zenon DEF Offered
        <5>2. IsLock(e) \in BOOLEAN
          BY DEF IsLock
        <5>3. QED
          BY <5>1, <5>2
      <4>2. Offered(e, "scall") \in BOOLEAN
        BY DEF Offered
      <4>3. Offered(e, "proc") \in BOOLEAN
        BY DEF Offered
      <4>4. Offered(e, "license") \in BOOLEAN
        BY DEF Offered
      <4>5. Offered(e, "filedb") \in BOOLEAN
        BY DEF Offered
      <4>6. QED
        BY <4>1, <4>2, <4>3, <4>4, <4>5
    <3>2. Offered(e, "license errors") \in BOOLEAN
      BY DEF Offered
    <3>3. Offered(e, "filedb errors") \in BOOLEAN
      BY DEF Offered, Has
    <3>4. QED
      BY <3>1, <3>2, <3>3, Zenon DEF Lists, SlowLists, ErrorLists
  <2>2. QED
    BY <2>1
<1> HIDE DEF offered, full
<1>6. lost' = lost + b
  BY <1>4, CounterMoves DEF Once
<1>7. lost \in Int
  BY DEF InBooks, Counted
<1>8. a \in Int /\ b \in Int /\ c \in Int /\ a + b = c
  <2>1. a \in Int /\ b \in Int /\ c \in Int
    BY DEF Once
  <2>2. b + a = c
    BY <1>5, OnceSplits
  <2> HIDE DEF a, b, c
  <2>3. QED
    BY <2>1, <2>2
<1>9. m \in Int
  <2>1. SampleLimit \in Nat
    BY CountersAssumption
  <2> HIDE DEF m
  <2>2. QED
    BY <1>2, <2>1
<1> HIDE DEF m, lost, a, b, c
<1>10. m + lost \in Int /\ m' + lost' = m + lost + c
  BY <1>3, <1>6, <1>7, <1>8, <1>9, TwoMove
<1>11. QED
  BY <1>10 DEF m, lost, offered, c

(* Operations on files: a property is in its table or missing, a number in  *)
(* one, missing or malformed, and an event is among the samples or dropped. *)
LEMMA FilesBalance ==
  ASSUME InBooks, NEW e \in Events, CountEvent(e), FilesAddUp
  PROVE  FilesAddUp'
<1> DEFINE file == e.name = "DBV8DBEng"
           all == Copies(<<"filedb", "events">>)
           samplesOf(list) == Len(samples[list])
           kept(list) == samplesOf(list) + Copies(<<"filedb", "dropped", list>>)
           failures == Copies(<<"filedb", "explicit error">>)
<1>1. file \in BOOLEAN /\ \A f : Has(e, f) \in BOOLEAN /\ NumberOk(e, f) \in BOOLEAN
                                   /\ (NumberOk(e, f) => Has(e, f))
  BY DEF Has, NumberOk
<1>2. all \in Nat /\ all' = all + Once(file)
  BY FileDBCounted, CounterMoves DEF Once
<1>3. failures \in Nat /\ failures' = failures + Once(file /\ Has(e, "Error"))
  BY FileDBCounted, CounterMoves DEF Once
<1>4. CountIn(<<"filedb", "class">>)' = all'
  <2>1. CountIn(<<"filedb", "class">>)' = CountIn(<<"filedb", "class">>) + Once(file)
    BY FileDBAdds, SingleTables, TableMoves
  <2>2. CountIn(<<"filedb", "class">>) = all
    BY DEF FilesAddUp
  <2>3. QED
    BY <1>2, <2>1, <2>2
<1>5. ASSUME NEW f \in FileDBFields
      PROVE  CountIn(<<"filedb", f>>)' + Copies(<<"filedb", "missing", f>>)' = all'
  <2> DEFINE has == Has(e, f)
             count == CountIn(<<"filedb", f>>)
             missing == Copies(<<"filedb", "missing", f>>)
  <2>1. AddsTo(e, <<"filedb", f>>, file /\ has) /\ Single(<<"filedb", f>>)
    BY FileDBAdds, SingleTables
  <2>2. <<"filedb", "missing", f>> \in Counts(e) <=> file /\ ~has
    BY FileDBCounted
  <2>3. has \in BOOLEAN
    BY <1>1
  <2> HIDE DEF has, file
  <2>4. count \in Int /\ count' = count + Once(file /\ has)
    BY <2>1, TableMoves
  <2>5. missing \in Nat /\ missing' = missing + Once(file /\ ~has)
    BY <2>2, CounterMoves DEF Once
  <2>6. count + missing = all
    BY DEF FilesAddUp
  <2>7. /\ Once(file /\ has) + Once(file /\ ~has) = Once(file)
        /\ Once(file /\ has) \in Int /\ Once(file /\ ~has) \in Int
    BY <1>1, <2>3 DEF Once
  <2> HIDE DEF count, missing, all
  <2>8. count' + missing' = all'
    BY <1>2, <2>4, <2>5, <2>6, <2>7
  <2>9. QED
    BY <2>8 DEF count, missing
<1>6. ASSUME NEW n \in FileDBNumbers
      PROVE  CountIn(<<"filedb", "class", n>>)' + Copies(<<"filedb", "missing", n>>)'
               + Copies(<<"filedb", "malformed", n>>)' = all'
  <2> DEFINE has == Has(e, n)
             ok == NumberOk(e, n)
             count == CountIn(<<"filedb", "class", n>>)
             missing == Copies(<<"filedb", "missing", n>>)
             malformed == Copies(<<"filedb", "malformed", n>>)
  <2>1. AddsTo(e, <<"filedb", "class", n>>, file /\ ok) /\ Single(<<"filedb", "class", n>>)
    BY FileDBAdds, SingleTables
  <2>2. /\ <<"filedb", "missing", n>> \in Counts(e) <=> file /\ ~has
        /\ <<"filedb", "malformed", n>> \in Counts(e) <=> file /\ has /\ ~ok
    BY FileDBCounted
  <2>3. has \in BOOLEAN /\ ok \in BOOLEAN /\ (ok => has)
    BY <1>1
  <2> HIDE DEF has, ok, file
  <2>4. count \in Int /\ count' = count + Once(file /\ ok)
    BY <2>1, TableMoves
  <2>5. missing \in Nat /\ missing' = missing + Once(file /\ ~has)
    BY <2>2, CounterMoves DEF Once
  <2>6. malformed \in Nat /\ malformed' = malformed + Once(file /\ has /\ ~ok)
    BY <2>2, CounterMoves DEF Once
  <2>7. count + missing + malformed = all
    BY DEF FilesAddUp
  <2>8. /\ Once(file /\ ok) + Once(file /\ ~has) + Once(file /\ has /\ ~ok) = Once(file)
        /\ Once(file /\ ok) \in Int /\ Once(file /\ ~has) \in Int /\ Once(file /\ has /\ ~ok) \in Int
    BY <1>1, <2>3 DEF Once
  <2> HIDE DEF count, missing, malformed, all
  <2>9. count' + missing' + malformed' = all'
    BY <1>2, <2>4, <2>5, <2>6, <2>7, <2>8
  <2>10. QED
    BY <2>9 DEF count, missing, malformed
<1>7. ASSUME NEW list \in {"filedb", "filedb errors"}
      PROVE  kept(list) \in Int /\ kept(list)' = kept(list) + Once(Offered(e, list))
  <2>1. list \in Lists
    BY DEF Lists, SlowLists, ErrorLists
  <2>2. <<"filedb", "dropped", list>> \in Counts(e) <=> Offered(e, list) /\ Len(samples[list]) = SampleLimit
    BY FileDBCounted
  <2>3. QED
    BY <2>1, <2>2, KeptMoves, Zenon
<1>8. kept("filedb")' = all'
  <2>1. Offered(e, "filedb") <=> file
    BY DEF Offered
  <2>2. kept("filedb")' = kept("filedb") + Once(file)
    BY <1>7, <2>1 DEF Once
  <2>3. kept("filedb") = all
    BY DEF FilesAddUp
  <2>4. QED
    BY <1>2, <2>2, <2>3
<1>9. kept("filedb errors")' = failures'
  <2>1. Offered(e, "filedb errors") <=> file /\ Has(e, "Error")
    BY DEF Offered
  <2>2. kept("filedb errors")' = kept("filedb errors") + Once(file /\ Has(e, "Error"))
    BY <1>7, <2>1 DEF Once
  <2>3. kept("filedb errors") = failures
    BY DEF FilesAddUp
  <2>4. QED
    BY <1>3, <2>2, <2>3
<1>10. QED
  BY <1>4, <1>5, <1>6, <1>8, <1>9 DEF FilesAddUp

-------------------------------------------------------------------------------
(* The invariant of the lists: both are functions of the log. *)
CInv == Logged /\ SamplesInv /\ TopOf(top, log)

(* Of an empty log the lists are empty. *)
LEMMA InitCInv == Init => CInv
<1> SUFFICES ASSUME Init PROVE CInv
  OBVIOUS
<1>1. log = <<>> /\ top = <<>> /\ Len(log) = 0 /\ Len(top) = 0
  BY DEF Init, CounterInit
<1>2. log \in Seq(Events) /\ top \in Seq(Items)
  BY <1>1, EmptySeq
<1>3. Logged
  BY <1>2 DEF Init, Logged
<1>4. ASSUME NEW list \in Lists
      PROVE  BestOfList(log, Before(list), Of(list), SampleLimit) = <<>>
  <2>1. Chosen(log, Of(list)) \in 0..0
    BY <1>1, <1>2, ChosenAreFirst, BeforeOrders
  <2>2. Fewer(Chosen(log, Of(list)), SampleLimit) = 0
    BY <2>1, CountersAssumption DEF Fewer
  <2>3. BestOfList(log, Before(list), Of(list), SampleLimit)
          = [m \in 1..0 |-> SortBy(log, Before(list))[m]]
    BY <2>2 DEF BestOfList
  <2>4. QED
    BY <2>3
<1>5. samples = [list \in Lists |-> <<>>]
  BY DEF Init, CounterInit
<1>6. SamplesInv
  BY <1>4, <1>5 DEF SamplesInv
<1>7. Fewer(0, TopN) = 0
  BY CountersAssumption DEF Fewer
<1>8. TopOf(top, log)
  BY <1>1, <1>2, <1>7 DEF TopOf
<1>9. QED
  BY <1>3, <1>6, <1>8 DEF CInv

(* Every event keeps the invariant. *)
LEMMA NextCInv == CInv /\ [Next]_vars => CInv'
<1> SUFFICES ASSUME CInv, [Next]_vars PROVE CInv'
  OBVIOUS
<1>1. logged \in Configurations /\ log \in Seq(Events) /\ SamplesInv /\ TopOf(top, log)
  BY DEF CInv, Logged
<1>2. ASSUME NEW e \in logged, CountEvent(e), logged' = logged
      PROVE  CInv'
  <2>1. e \in Events
    BY <1>1 DEF Events
  <2>2. /\ log' = Append(log, e)
        /\ top' = TopAdd(top, [value |-> e, order |-> Len(log)])
    BY <1>2 DEF CountEvent
  <2>3. log' \in Seq(Events)
    BY <1>1, <2>1, <2>2, AppendProperties
  <2>4. TopOf(top', log')
    BY <1>1, <2>1, <2>2, TopStep
  <2>5. SamplesInv'
    BY <1>1, <1>2, <2>1, SamplesStep
  <2>6. QED
    BY <1>1, <1>2, <2>3, <2>4, <2>5 DEF CInv, Logged, TopOf
<1>3. CASE Next
  <2>1. CASE AddWebEvent
    BY <1>2, <1>3, <2>1 DEF Next, AddWebEvent
  <2>2. CASE AddOtherEvent
    BY <1>2, <1>3, <2>2 DEF Next, AddOtherEvent
  <2>3. QED
    BY <1>3, <2>1, <2>2 DEF Next
<1>4. CASE UNCHANGED vars
  <2>1. log' = log /\ samples' = samples /\ top' = top /\ logged' = logged
    BY <1>4 DEF vars, counterVars
  <2>2. QED
    BY <1>1, <2>1 DEF CInv, Logged, SamplesInv, TopOf
<1>5. QED
  BY <1>3, <1>4

(* The samples of an analyzer do not depend on its cutting them after every *)
(* event: collectSample, addSlow and addError keep the best of the whole    *)
(* log, the earlier of two that compare equal, whatever was cut before.     *)
THEOREM SamplesStayBest == Spec => []SamplesAreTheBest
<1>1. Init => CInv
  BY InitCInv
<1>2. CInv /\ [Next]_vars => CInv'
  BY NextCInv
<1>3. CInv => SamplesAreTheBest
  BY SamplesFollow DEF CInv, Logged
<1>4. QED
  BY <1>1, <1>2, <1>3, PTL DEF Spec

(* The longest events that TopN of internal/stats keeps are the first       *)
(* ones of a stable sort of the whole log: which item gave way to which on  *)
(* the way, and where it stood, does not show, ties included.               *)
THEOREM TopStaysStable == Spec => []TopIsStablePrefix
<1>1. Init => CInv
  BY InitCInv
<1>2. CInv /\ [Next]_vars => CInv'
  BY NextCInv
<1>3. CInv => TopIsStablePrefix
  BY TopFollows DEF CInv, Logged, TopIsStablePrefix
<1>4. QED
  BY <1>1, <1>2, <1>3, PTL DEF Spec

(* The ranks of every row of every table are right, whatever was logged:    *)
(* percentiles lie between minimum and maximum and in order, the nearest    *)
(* rank is the least value that reaches its share, and half of the values   *)
(* lie on either side of the median.                                        *)
THEOREM PercentilesAreRight == Spec => []RanksAreRight
<1>1. Init => logged \in Configurations /\ Valued
  BY DEF Init, CounterInit, Valued
<1>2. (logged \in Configurations /\ Valued) /\ [Next]_vars => (logged \in Configurations /\ Valued)'
  <2> SUFFICES ASSUME logged \in Configurations, Valued, [Next]_vars
               PROVE  (logged \in Configurations /\ Valued)'
    OBVIOUS
  <2>1. ASSUME NEW e \in logged, CountEvent(e)
        PROVE  Valued'
    <3>1. e \in Events
      BY DEF Events
    <3>2. groups' = Added(groups, Entries(e))
      BY <2>1 DEF CountEvent
    <3>3. QED
      BY <3>1, <3>2, GroupsStayValued DEF Valued
  <2>2. CASE Next
    <3>1. logged' \in Configurations
      BY <2>2 DEF Next
    <3>2. \E e \in logged : CountEvent(e)
      BY <2>2 DEF Next, AddWebEvent, AddOtherEvent
    <3>3. QED
      BY <2>1, <3>1, <3>2
  <2>3. CASE UNCHANGED vars
    BY <2>3 DEF vars, counterVars, Valued
  <2>4. QED
    BY <2>2, <2>3
<1>3. Valued => RanksAreRight
  <2> SUFFICES ASSUME Valued, NEW g \in DOMAIN groups
      PROVE  LET values == groups[g]
                 n == Len(values)
                 scale == IF Interpolates(g[1]) THEN 100 ELSE 1
                 scaled == [i \in DOMAIN values |-> scale * values[i]]
                 r == Summary(values, Interpolates(g[1]))
                 Least(v, percent) ==
                   \A w \in {values[i] : i \in DOMAIN values} :
                     100 * AtMost(values, w) >= percent * n <=> w >= v
             IN  /\ /\ scale * r.min <= r.p50 /\ r.p50 <= r.p95
                    /\ r.p95 <= r.p99 /\ r.p99 <= scale * r.max
                 /\ 2 * AtMost(scaled, r.p50) >= n /\ 2 * AtLeast(scaled, r.p50) >= n
                 /\ ~Interpolates(g[1]) => Least(r.p50, 50) /\ Least(r.p95, 95) /\ Least(r.p99, 99)
    BY DEF RanksAreRight, Rows
  <2>1. groups[g] \in Seq(Int) /\ Len(groups[g]) > 0
    BY DEF Valued
  <2>2. Interpolates(g[1]) \in BOOLEAN
    BY DEF Interpolates
  <2>3. QED
    BY <2>1, <2>2, RowRight
<1>4. QED
  BY <1>1, <1>2, <1>3, PTL DEF Spec

(* The invariant of the books: they balance, and are kept as InBooks says.  *)
Balanced == InBooks /\ AddsUp

(* Empty books balance. *)
LEMMA InitBalanced == Init => Balanced
<1> SUFFICES ASSUME Init PROVE Balanced
  OBVIOUS
<1>1. groups = <<>> /\ quality = EmptyBag /\ log = <<>> /\ samples = [list \in Lists |-> <<>>]
  BY DEF Init, CounterInit
<1>2. DOMAIN groups = {} /\ \A c : Copies(c) = 0
  BY <1>1 DEF Copies, EmptyBag, SetToBag
<1>3. \A dim : GroupsIn(groups, dim) = {}
  BY <1>2 DEF GroupsIn
<1>4. \A dim : CountIn(dim) = 0 /\ TotalIn(dim) = 0
  <2> TAKE dim
  <2> DEFINE lens == [g \in GroupsIn(groups, dim) |-> Len(groups[g])]
             sums == [g \in GroupsIn(groups, dim) |-> SumOf(groups[g])]
  <2>1. CountIn(dim) = SumFunctionOnSet(lens, {}) /\ TotalIn(dim) = SumFunctionOnSet(sums, {})
    <3>1. /\ CountIn(dim) = SumFunctionOnSet(lens, DOMAIN lens)
          /\ TotalIn(dim) = SumFunctionOnSet(sums, DOMAIN sums)
      BY DEF CountIn, TotalIn, CountOf, TotalOf, SumFunction
    <3>2. DOMAIN lens = {} /\ DOMAIN sums = {}
      BY <1>3
    <3> HIDE DEF lens, sums
    <3>3. QED
      BY <3>1, <3>2
  <2>2. IsFiniteSet({})
    BY FS_EmptySet
  <2> HIDE DEF lens, sums
  <2>3. QED
    BY <2>1, <2>2, SumSteps
<1>5. Len(log) = 0 /\ SumOf([i \in DOMAIN log |-> log[i].micros]) = 0
  <2>1. [i \in DOMAIN log |-> log[i].micros] = <<>>
    BY <1>1
  <2>2. QED
    BY <1>1, <2>1, SumOfSteps
<1>6. \A list \in Lists : Len(samples[list]) = 0
  BY <1>1
<1>7. InBooks
  <2>1. Logged
    BY <1>1, EmptySeq DEF Init, Logged
  <2>2. Valued /\ Counted /\ \A dim : Single(dim) => IsFiniteSet(GroupsIn(groups, dim))
    BY <1>2, <1>3, FS_EmptySet DEF Valued, Counted
  <2>3. SamplesInv
    BY InitCInv DEF CInv
  <2>4. QED
    BY <2>1, <2>2, <2>3 DEF InBooks
<1>8. OverviewAddsUp
  BY <1>4, <1>5 DEF OverviewAddsUp
<1>9. LocksAddUp
  <2>1. Cardinality({}) = 0
    BY FS_EmptySet
  <2> DEFINE S == GroupsIn(groups, <<"lock", "relation">>)
  <2>2. S = {}
    BY <1>3
  <2> HIDE DEF S
  <2>3. Cardinality(S) <= 0 /\ S = {}
    BY <2>1, <2>2
  <2>4. QED
    BY <1>2, <1>4, <2>3 DEF LocksAddUp, S
<1>10. CallsAddUp
  BY <1>2, <1>4 DEF CallsAddUp
<1>11. FunctionsAddUp
  <2> DEFINE all == Copies(<<"scom", "events">>)
             m1 == Copies(<<"scom", "missing">>)
             m2 == Copies(<<"scom", "malformed">>)
             p1 == Copies(<<"scom", "unknown">>)
             p2 == Copies(<<"scom", "few arguments">>)
             p3 == Copies(<<"scom", "missing names">>)
             p4 == Copies(<<"scom", "relation">>)
  <2>1. all = 0 /\ m1 = 0 /\ m2 = 0 /\ p1 = 0 /\ p2 = 0 /\ p3 = 0 /\ p4 = 0
    BY <1>2, Zenon
  <2>2. /\ CountIn(<<"proc", "process">>) = Copies(<<"proc", "events">>)
        /\ \A t \in {"operation", "process", "composite"} : CountIn(<<"scom", t>>) = 0
        /\ CountIn(<<"scom", "relation">>) = 0
    BY <1>2, <1>4
  <2> HIDE DEF all, m1, m2, p1, p2, p3, p4
  <2>3. all = p1 + p2 + p3 + p4 + m1 + m2 /\ p1 + p2 + p3 + p4 = 0
    BY <2>1
  <2>4. QED
    BY <2>1, <2>2, <2>3 DEF FunctionsAddUp, all, m1, m2, p1, p2, p3, p4
<1>12. LicensesAddUp
  BY <1>2, <1>4 DEF LicensesAddUp
<1>13. FilesAddUp
  <2> DEFINE kept(list) == Len(samples[list]) + Copies(<<"filedb", "dropped", list>>)
             failures == Copies(<<"filedb", "explicit error">>)
             errors2 == kept("filedb errors")
  <2>1. "filedb" \in Lists /\ "filedb errors" \in Lists
    BY DEF Lists, SlowLists, ErrorLists
  <2>2. \A list \in Lists : kept(list) = 0
    BY <1>2, <1>6
  <2>3. failures = 0 /\ errors2 = 0 /\ kept("filedb") = 0
    BY <1>2, <2>1, <2>2, Zenon
  <2> HIDE DEF kept, failures, errors2
  <2>4. /\ CountIn(<<"filedb", "class">>) = 0 /\ Copies(<<"filedb", "events">>) = 0
        /\ \A f \in FileDBFields : CountIn(<<"filedb", f>>) + Copies(<<"filedb", "missing", f>>) = 0
        /\ \A f \in FileDBNumbers : CountIn(<<"filedb", "class", f>>) + Copies(<<"filedb", "missing", f>>)
                                       + Copies(<<"filedb", "malformed", f>>) = 0
    BY <1>2, <1>4
  <2>5. QED
    BY <2>3, <2>4, Zenon DEF FilesAddUp, kept, failures, errors2
<1>14. EachConsumesAll
  BY <1>2, <1>5 DEF EachConsumesAll
<1>15. QED
  BY <1>7, <1>8, <1>9, <1>10, <1>11, <1>12, <1>13, <1>14 DEF Balanced, AddsUp

(* An event leaves the books kept. *)
LEMMA BooksStay ==
  ASSUME InBooks, NEW e \in logged, CountEvent(e), logged' = logged
  PROVE  InBooks'
<1>1. e \in Events
  BY DEF InBooks, Logged, Events
<1>2. Logged'
  BY <1>1, AppendProperties DEF InBooks, Logged, CountEvent, Events
<1>3. SamplesInv'
  BY <1>1, SamplesStep DEF InBooks, Logged
<1>4. Valued'
  BY <1>1, GroupsStayValued DEF InBooks, CountEvent, Valued
<1>5. Counted'
  <2>1. \A c : Copies(c)' \in Nat
    <3> TAKE c
    <3>1. Copies(c) \in Nat /\ Copies(c)' = Copies(c) + Once(c \in Counts(e))
      BY CounterMoves
    <3>2. QED
      BY <3>1 DEF Once
  <2>2. QED
    BY <2>1 DEF Counted
<1>6. ASSUME NEW dim, Single(dim)
      PROVE  IsFiniteSet(GroupsIn(groups', dim))
  <2>1. PICK added \in BOOLEAN : AddsTo(e, dim, added)
    BY <1>1, <1>6 DEF Single
  <2>2. groups' = Added(groups, Entries(e))
    BY DEF CountEvent
  <2>3. QED
    BY <1>1, <1>6, <2>1, <2>2, GroupsMove
<1>7. QED
  BY <1>2, <1>3, <1>4, <1>5, <1>6 DEF InBooks, Single

(* An event leaves them balanced. *)
LEMMA BalanceStays ==
  ASSUME Balanced, NEW e \in logged, CountEvent(e), logged' = logged
  PROVE  Balanced'
<1>1. e \in Events /\ InBooks /\ AddsUp
  BY DEF Balanced, InBooks, Logged, Events
<1>2. InBooks'
  BY <1>1, BooksStay
<1>3. OverviewAddsUp'
  BY <1>1, OverviewBalances DEF AddsUp
<1>4. LocksAddUp'
  BY <1>1, LocksBalance DEF AddsUp
<1>5. CallsAddUp'
  BY <1>1, CallsBalance DEF AddsUp
<1>6. FunctionsAddUp'
  BY <1>1, FunctionsBalance DEF AddsUp
<1>7. LicensesAddUp'
  BY <1>1, LicensesBalance DEF AddsUp
<1>8. FilesAddUp'
  BY <1>1, FilesBalance DEF AddsUp
<1>9. EachConsumesAll'
  BY <1>1, ConsumptionBalances DEF AddsUp
<1>10. QED
  BY <1>2, <1>3, <1>4, <1>5, <1>6, <1>7, <1>8, <1>9 DEF Balanced, AddsUp

(* The books balance: whatever is logged, missing, malformed or cut, the     *)
(* tables, the quality counters and the sample lists of an analyzer account  *)
(* for the same events, each of them once.                                   *)
THEOREM BooksBalance == Spec => []AddsUp
<1>1. Init => Balanced
  BY InitBalanced
<1>2. Balanced /\ [Next]_vars => Balanced'
  <2> SUFFICES ASSUME Balanced, [Next]_vars PROVE Balanced'
    OBVIOUS
  <2>1. CASE Next
    <3>1. \E e \in logged : CountEvent(e) /\ logged' = logged
      BY <2>1 DEF Next, AddWebEvent, AddOtherEvent
    <3>2. QED
      BY <3>1, BalanceStays
  <2>2. CASE UNCHANGED vars
    <3>1. groups' = groups /\ quality' = quality /\ samples' = samples /\ log' = log /\ logged' = logged
      BY <2>2 DEF vars, counterVars
    <3>2. \A c : Copies(c)' = Copies(c)
      BY <3>1 DEF Copies
    <3>3. InBooks'
      BY <3>1, <3>2 DEF Balanced, InBooks, Logged, SamplesInv, Valued, Counted
    <3>4. \A dim : CountIn(dim)' = CountIn(dim) /\ TotalIn(dim)' = TotalIn(dim)
      BY <3>1 DEF CountIn, TotalIn
    <3>5. (OverviewAddsUp /\ LocksAddUp /\ CallsAddUp)'
      BY <3>1, <3>2, <3>4 DEF Balanced, AddsUp, OverviewAddsUp, LocksAddUp, CallsAddUp
    <3>6. (FunctionsAddUp /\ LicensesAddUp)'
      BY <3>2, <3>4 DEF Balanced, AddsUp, FunctionsAddUp, LicensesAddUp
    <3>7. (FilesAddUp /\ EachConsumesAll)'
      BY <3>1, <3>2, <3>4 DEF Balanced, AddsUp, FilesAddUp, EachConsumesAll
    <3>8. QED
      BY <3>3, <3>5, <3>6, <3>7 DEF Balanced, AddsUp
  <2>3. QED
    BY <2>1, <2>2
<1>3. QED
  BY <1>1, <1>2, PTL DEF Spec, Balanced

-------------------------------------------------------------------------------
(* The samples of the web service, ordered as pairs: the slowest first, and *)
(* the earliest first of those that failed.                                 *)
Pairs == Events \X Events
WebSampleSet == {SampleOf(m[1], m[2]) : m \in Pairs}

Slower == {p \in WebSampleSet \X WebSampleSet : SlowLess(p[1], p[2])}
FailedEarlier == {p \in WebSampleSet \X WebSampleSet : FailedFirst(p[1], p[2])}
FailedOnes == {s \in WebSampleSet : Failed(s)}

(* What the comparisons read of a sample is a number. *)
LEMMA SampleNumbers ==
  \A s \in WebSampleSet : s.at \in Int /\ s.micros \in Int /\ s.raw \in Int
<1> SUFFICES ASSUME NEW m \in Pairs
             PROVE  LET s == SampleOf(m[1], m[2])
                    IN  s.at \in Int /\ s.micros \in Int /\ s.raw \in Int
  BY DEF WebSampleSet
<1>1. /\ m[1].at \in Int /\ m[1].raw \in Int
      /\ m[2].at \in Int /\ m[2].micros \in Int
  BY EventNumbers DEF Pairs
<1>2. Elapsed(m[1], m[2]) \in Int
  BY <1>1 DEF Elapsed
<1>3. QED
  BY <1>1, <1>2 DEF SampleOf

(* Both comparisons order the samples but for ties. *)
LEMMA SampleOrders ==
  /\ Orders(Slower, WebSampleSet) /\ ComeFirst(Slower, WebSampleSet, WebSampleSet)
  /\ Orders(FailedEarlier, WebSampleSet) /\ ComeFirst(FailedEarlier, FailedOnes, WebSampleSet)
<1>1. \A a, b \in WebSampleSet : /\ <<a, b>> \in Slower <=> SlowLess(a, b)
                                 /\ <<a, b>> \in FailedEarlier <=> FailedFirst(a, b)
                                 /\ b \in FailedOnes <=> Failed(b)
  BY DEF Slower, FailedEarlier, FailedOnes
<1> HIDE DEF Slower, FailedEarlier, FailedOnes
<1>2. \A a \in WebSampleSet : ~SlowLess(a, a) /\ ~ErrorLess(a, a)
  BY SampleNumbers DEF SlowLess, ErrorLess
<1>3. \A a, b, c \in WebSampleSet : SlowLess(a, b) /\ SlowLess(b, c) => SlowLess(a, c)
  BY SampleNumbers DEF SlowLess
<1>4. \A a, b, c \in WebSampleSet : SlowLess(a, c) => SlowLess(a, b) \/ SlowLess(b, c)
  BY SampleNumbers DEF SlowLess
<1>5. \A a, b, c \in WebSampleSet : ErrorLess(a, b) /\ ErrorLess(b, c) => ErrorLess(a, c)
  BY SampleNumbers DEF ErrorLess
<1>6. \A a, b, c \in WebSampleSet : ErrorLess(a, c) => ErrorLess(a, b) \/ ErrorLess(b, c)
  BY SampleNumbers DEF ErrorLess
<1>7. Orders(Slower, WebSampleSet) /\ ComeFirst(Slower, WebSampleSet, WebSampleSet)
  BY <1>1, <1>2, <1>3, <1>4 DEF Orders, ComeFirst
<1>8. \A a \in WebSampleSet : <<a, a>> \notin FailedEarlier
  BY <1>1, <1>2 DEF FailedFirst
<1>9. \A a, b, c \in WebSampleSet :
        <<a, b>> \in FailedEarlier /\ <<b, c>> \in FailedEarlier => <<a, c>> \in FailedEarlier
  BY <1>1, <1>5 DEF FailedFirst
<1>10. \A a, b, c \in WebSampleSet :
         <<a, c>> \in FailedEarlier => <<a, b>> \in FailedEarlier \/ <<b, c>> \in FailedEarlier
  BY <1>1, <1>6 DEF FailedFirst
<1>11. ComeFirst(FailedEarlier, FailedOnes, WebSampleSet)
  BY <1>1 DEF ComeFirst, FailedFirst
<1>12. QED
  BY <1>7, <1>8, <1>9, <1>10, <1>11 DEF Orders

(* The lists of samples as functions of the matches. *)
Listed ==
  /\ matches \in Seq(Pairs)
  /\ slow = BestOfList(WebSamples, Slower, WebSampleSet, WebSampleLimit)
  /\ errors = BestOfList(WebSamples, FailedEarlier, FailedOnes, WebSampleLimit)

(* The samples are those of the matches. *)
LEMMA SamplesOfMatches ==
  ASSUME matches \in Seq(Pairs)
  PROVE  /\ WebSamples \in Seq(WebSampleSet) /\ Len(WebSamples) = Len(matches)
         /\ DOMAIN WebSamples = 1..Len(matches)
         /\ \A i \in 1..Len(matches) : WebSamples[i] \in WebSampleSet
<1>1. Len(matches) \in Nat /\ DOMAIN matches = 1..Len(matches)
  BY LenProperties
<1>2. \A i \in 1..Len(matches) : matches[i] \in Pairs
  BY ElementOfSeq
<1>3. WebSamples \in [1..Len(matches) -> WebSampleSet]
  BY <1>1, <1>2 DEF WebSamples, WebSampleSet
<1>4. QED
  BY <1>1, <1>3

(* One more match is one more sample. *)
LEMMA SamplesAppend ==
  ASSUME matches \in Seq(Pairs), NEW m \in Pairs, matches' = Append(matches, m)
  PROVE  /\ matches' \in Seq(Pairs)
         /\ SampleOf(m[1], m[2]) \in WebSampleSet
         /\ WebSamples' = Append(WebSamples, SampleOf(m[1], m[2]))
<1> DEFINE n == Len(matches)
           x == SampleOf(m[1], m[2])
           W == WebSamples
<1>1. n \in Nat /\ DOMAIN matches = 1..n /\ W \in Seq(WebSampleSet) /\ Len(W) = n
  BY SamplesOfMatches, LenProperties
<1>2. /\ matches' \in Seq(Pairs) /\ Len(matches') = n + 1 /\ DOMAIN matches' = 1..(n + 1)
      /\ matches'[n + 1] = m /\ \A i \in 1..n : matches'[i] = matches[i]
  BY <1>1, AppendProperties
<1>3. x \in WebSampleSet
  BY DEF WebSampleSet
<1>4. /\ Append(W, x) \in Seq(WebSampleSet) /\ Len(Append(W, x)) = n + 1
      /\ Append(W, x)[n + 1] = x /\ \A i \in 1..n : Append(W, x)[i] = W[i]
  BY <1>1, <1>3, AppendProperties
<1>5. \A i \in 1..n : W[i] = SampleOf(matches[i][1], matches[i][2])
  BY <1>1 DEF WebSamples
<1>6. WebSamples' = [i \in 1..(n + 1) |-> SampleOf(matches'[i][1], matches'[i][2])]
  BY <1>2 DEF WebSamples, SampleOf
<1>7. \A i \in 1..(n + 1) : SampleOf(matches'[i][1], matches'[i][2]) = Append(W, x)[i]
  <2> TAKE i \in 1..(n + 1)
  <2>1. CASE i \in 1..n
    BY <1>2, <1>4, <1>5, <2>1
  <2>2. CASE i = n + 1
    BY <1>2, <1>4, <2>2
  <2>3. QED
    BY <1>1, <2>1, <2>2
<1>8. Append(W, x) = [i \in 1..(n + 1) |-> Append(W, x)[i]]
  BY <1>4, LenProperties
<1>9. QED
  BY <1>2, <1>3, <1>6, <1>7, <1>8

(* A match is listed among the slow samples, ... *)
LEMMA SlowListed ==
  ASSUME Listed, NEW m \in Pairs, matches' = Append(matches, m),
         slow' = KeepSlow(slow, SampleOf(m[1], m[2]), WebSampleLimit)
  PROVE  slow' = BestOfList(WebSamples', Slower, WebSampleSet, WebSampleLimit)
<1> DEFINE x == SampleOf(m[1], m[2])
           N == Append(slow, x)
           k == WebSampleLimit
<1>1. /\ WebSamples \in Seq(WebSampleSet) /\ x \in WebSampleSet
      /\ WebSamples' = Append(WebSamples, x) /\ k \in Nat
  BY SamplesOfMatches, SamplesAppend, WebAssumption DEF Listed
<1>2. /\ BestOfList(Append(WebSamples, x), Slower, WebSampleSet, k) = Cut(SortBy(N, Slower), k)
      /\ N \in Seq(WebSampleSet)
      /\ \A i \in 1..Len(N) : N[i] \in WebSampleSet
  <2> HIDE DEF x, k
  <2>1. slow = BestOfList(WebSamples, Slower, WebSampleSet, k)
    BY DEF Listed, k
  <2>2. /\ BestOfList(Append(WebSamples, x), Slower, WebSampleSet, k) = Cut(SortBy(Append(slow, x), Slower), k)
        /\ Append(slow, x) \in Seq(WebSampleSet)
        /\ \A i \in 1..Len(Append(slow, x)) : Append(slow, x)[i] \in WebSampleSet /\ Append(slow, x)[i] \in WebSampleSet
    BY <1>1, <2>1, SampleOrders, BestOfMore
  <2>3. QED
    BY <2>2
<1> HIDE DEF N
<1>3. \A i, j \in 1..Len(N) : SlowLess(N[i], N[j]) <=> <<N[i], N[j]>> \in Slower
  BY <1>2 DEF Slower
<1>4. StableSort(N, SlowLess) = SortBy(N, Slower)
  BY <1>2, <1>3, SampleOrders, SlowSort
<1>5. slow' = Cut(StableSort(N, SlowLess), k)
  BY DEF KeepSlow, N
<1>6. QED
  BY <1>1, <1>2, <1>4, <1>5

(* ... and among the errors if it failed. *)
LEMMA ErrorListed ==
  ASSUME Listed, NEW m \in Pairs, matches' = Append(matches, m),
         errors' = IF IsError(m[2]) THEN KeepError(errors, SampleOf(m[1], m[2]), WebSampleLimit)
                   ELSE errors
  PROVE  errors' = BestOfList(WebSamples', FailedEarlier, FailedOnes, WebSampleLimit)
<1> DEFINE x == SampleOf(m[1], m[2])
           N == Append(errors, x)
           k == WebSampleLimit
<1>1. /\ WebSamples \in Seq(WebSampleSet) /\ x \in WebSampleSet
      /\ WebSamples' = Append(WebSamples, x) /\ k \in Nat
  BY SamplesOfMatches, SamplesAppend, WebAssumption DEF Listed
<1>2. errors = BestOfList(WebSamples, FailedEarlier, FailedOnes, k)
  BY DEF Listed
<1>3. x \in FailedOnes <=> IsError(m[2])
  BY <1>1 DEF FailedOnes, Failed, SampleOf
<1>4. CASE IsError(m[2])
  <2>1. errors' = Cut(StableSort(N, ErrorLess), k) /\ x \in FailedOnes
    BY <1>3, <1>4 DEF KeepError
  <2> HIDE DEF x, k
  <2>2. /\ BestOfList(Append(WebSamples, x), FailedEarlier, FailedOnes, k) = Cut(SortBy(N, FailedEarlier), k)
        /\ N \in Seq(WebSampleSet)
        /\ \A i \in 1..Len(N) : N[i] \in WebSampleSet /\ N[i] \in FailedOnes
    <3>1. Orders(FailedEarlier, WebSampleSet) /\ ComeFirst(FailedEarlier, FailedOnes, WebSampleSet)
      BY SampleOrders
    <3>2. x \in FailedOnes
      BY <2>1
    <3>3. QED
      BY <1>1, <1>2, <3>1, <3>2, BestOfMore
  <2> HIDE DEF N
  <2>3. \A i, j \in 1..Len(N) : ErrorLess(N[i], N[j]) <=> <<N[i], N[j]>> \in FailedEarlier
    BY <2>2 DEF FailedEarlier, FailedOnes, FailedFirst
  <2>4. StableSort(N, ErrorLess) = SortBy(N, FailedEarlier)
    BY <2>2, <2>3, SampleOrders, ErrorSort
  <2>5. QED
    BY <1>1, <2>1, <2>2, <2>4 DEF k
<1>5. CASE ~IsError(m[2])
  <2>1. errors' = errors /\ x \notin FailedOnes
    BY <1>3, <1>5
  <2> HIDE DEF x, k
  <2>2. BestOfList(Append(WebSamples, x), FailedEarlier, FailedOnes, k)
          = BestOfList(WebSamples, FailedEarlier, FailedOnes, k)
    BY <1>1, <2>1, SampleOrders, KeepWithout
  <2>3. QED
    BY <1>1, <1>2, <2>1, <2>2 DEF k
<1>6. QED
  BY <1>4, <1>5

(* What is listed is what sorting the samples of all matches and cutting    *)
(* once gives.                                                              *)
LEMMA ListedIsBest ==
  ASSUME Listed
  PROVE  /\ slow = Cut(StableSort(WebSamples, SlowLess), WebSampleLimit)
         /\ errors = Cut(SubSeq(StableSort(WebSamples, FailedFirst), 1, Failures), WebSampleLimit)
<1> DEFINE W == WebSamples
           n == Len(W)
           k == WebSampleLimit
           A == SortBy(W, Slower)
           B == SortBy(W, FailedEarlier)
           c == Chosen(W, FailedOnes)
<1>1. /\ W \in Seq(WebSampleSet) /\ n \in Nat /\ DOMAIN W = 1..n
      /\ \A i \in 1..n : W[i] \in WebSampleSet
  BY SamplesOfMatches, LenProperties DEF Listed
<1>2. k \in Nat
  BY WebAssumption
<1>3. /\ slow = BestOfList(W, Slower, WebSampleSet, k)
      /\ errors = BestOfList(W, FailedEarlier, FailedOnes, k)
      /\ Failures = Cardinality({i \in DOMAIN W : Failed(W[i])})
  BY DEF Listed, Failures
<1> HIDE DEF W, k
<1>4. StableSort(W, SlowLess) = A
  <2>1. \A i, j \in 1..n : SlowLess(W[i], W[j]) <=> <<W[i], W[j]>> \in Slower
    BY <1>1 DEF Slower
  <2>2. QED
    BY <1>1, <2>1, SampleOrders, SlowSort
<1>5. A \in Seq(WebSampleSet) /\ Len(A) = n /\ B \in Seq(WebSampleSet) /\ Len(B) = n
  BY <1>1, SampleOrders, SortByLook
<1>6. Chosen(W, WebSampleSet) = n
  <2>1. {i \in 1..n : W[i] \in WebSampleSet} = 1..n
    BY <1>1
  <2>2. Cardinality(1..n) = n
    <3>1. Cardinality(1..n) = IF 1 > n THEN 0 ELSE n - 1 + 1
      BY <1>1, FS_Interval
    <3>2. QED
      BY <1>1, <3>1
  <2>3. QED
    BY <2>1, <2>2 DEF Chosen
<1>7. slow = Cut(StableSort(W, SlowLess), k)
  <2>1. slow = [m \in 1..Fewer(n, k) |-> A[m]]
    BY <1>3, <1>6 DEF BestOfList
  <2> HIDE DEF A
  <2>2. Cut(A, k) = [m \in 1..Fewer(Len(A), k) |-> A[m]]
    BY <1>2, <1>5, CutIs
  <2>3. QED
    BY <1>4, <1>5, <2>1, <2>2
<1>8. StableSort(W, FailedFirst) = B
  <2> DEFINE Place(i) == 1 + Cardinality({j \in 1..n :
                           FailedFirst(W[j], W[i]) \/ (~FailedFirst(W[i], W[j]) /\ j < i)})
             placed == {<<Place(i), W[i]>> : i \in 1..n}
  <2>1. \A i, j \in 1..n : FailedFirst(W[i], W[j]) <=> <<W[i], W[j]>> \in FailedEarlier
    BY <1>1 DEF FailedEarlier
  <2>2. StableSort(W, FailedFirst) = [m \in 1..n |-> (CHOOSE p \in placed : p[1] = m)[2]]
    BY DEF StableSort
  <2>3. ASSUME NEW i \in 1..n
        PROVE  Place(i) = PlaceOf(W, FailedEarlier, i)
    <3>1. {j \in 1..n : FailedFirst(W[j], W[i]) \/ (~FailedFirst(W[i], W[j]) /\ j < i)}
            = {j \in 1..n : Ahead(W, FailedEarlier, j, i)}
      BY <2>1 DEF Ahead
    <3>2. QED
      BY <3>1, Zenon DEF PlaceOf
  <2> HIDE DEF Place
  <2>4. placed = {<<PlaceOf(W, FailedEarlier, i), W[i]>> : i \in 1..n}
    BY <2>3
  <2> HIDE DEF placed
  <2>5. [m \in 1..n |-> (CHOOSE p \in {<<PlaceOf(W, FailedEarlier, i), W[i]>> : i \in 1..n} : p[1] = m)[2]]
          = SortBy(W, FailedEarlier)
    BY <1>1, SampleOrders, PlacedIsSorted
  <2>6. [m \in 1..n |-> (CHOOSE p \in placed : p[1] = m)[2]] = B
    BY <2>4, <2>5
  <2>7. QED
    BY <2>2, <2>6, Zenon
<1>9. Failures = c
  <2>1. \A i \in 1..n : Failed(W[i]) <=> W[i] \in FailedOnes
    BY <1>1 DEF FailedOnes
  <2>2. {i \in DOMAIN W : Failed(W[i])} = {i \in 1..n : W[i] \in FailedOnes}
    BY <1>1, <2>1
  <2>3. QED
    BY <1>3, <2>2, Zenon DEF Chosen
<1>10. c \in 0..n
  BY <1>1, SampleOrders, ChosenAreFirst
<1>11. errors = Cut(SubSeq(StableSort(W, FailedFirst), 1, Failures), k)
  <2>1. errors = [m \in 1..Fewer(c, k) |-> B[m]]
    BY <1>3 DEF BestOfList
  <2> HIDE DEF B, c
  <2>2. Cut(SubSeq(B, 1, c), k) = [m \in 1..Fewer(c, k) |-> B[m]]
    BY <1>2, <1>5, <1>10, CutOfBeginning
  <2>3. QED
    BY <1>8, <1>9, <2>1, <2>2
<1>12. QED
  BY <1>7, <1>11 DEF W, k

-------------------------------------------------------------------------------
(* What was matched or is remembered came before and waits no more. *)
Used ==
  /\ consumed \subseteq Events
  /\ \A m \in Range(matches) : m[1] \in consumed \ pending
  /\ DOMAIN recent = Lanes
  /\ \A l \in Lanes : recent[l] \in Seq(consumed \ pending)

(* A list of some things is a list of more things. *)
LEMMA WiderSeq ==
  ASSUME NEW S, NEW T, S \subseteq T, NEW list \in Seq(S)
  PROVE  list \in Seq(T)
  OBVIOUS

(* The tail of a list holds what the list holds. *)
LEMMA TailOf ==
  ASSUME NEW S, NEW list \in Seq(S)
  PROVE  LastOf(list) \in Seq(S)
<1>1. Len(list) \in Nat /\ RecentTail \in Nat
  BY WebAssumption
<1>2. CASE Len(list) > RecentTail
  <2>1. \A i \in (Len(list) - RecentTail + 1)..Len(list) : list[i] \in S
    <3>1. \A i \in (Len(list) - RecentTail + 1)..Len(list) : i \in 1..Len(list)
      BY <1>1, <1>2
    <3>2. QED
      BY <3>1, ElementOfSeq
  <2>2. Len(list) - RecentTail + 1 \in Int /\ Len(list) \in Int
    BY <1>1
  <2>3. SubSeq(list, Len(list) - RecentTail + 1, Len(list)) \in Seq(S)
    BY <2>1, <2>2, SubSeqProperties
  <2>4. QED
    BY <1>2, <2>3 DEF LastOf
<1>3. CASE ~(Len(list) > RecentTail)
  BY <1>3 DEF LastOf
<1>4. QED
  BY <1>2, <1>3

(* An event of the web service leaves it so. *)
LEMMA UsedStays ==
  ASSUME PInv, Used, NEW e \in WebEvents, e \in Events, MayCome(e), WebConsume(e)
  PROVE  Used'
<1>1. consumed' = consumed \cup {e} /\ e \notin consumed /\ e \notin pending /\ consumed' \subseteq Events
  BY DEF WebConsume, MayCome, PInv, Sorted, Used
<1>2. ASSUME consumed \ pending \subseteq consumed' \ pending', recent' = recent, matches' = matches
      PROVE  Used'
  <2>1. \A m \in Range(matches') : m[1] \in consumed' \ pending'
    BY <1>2 DEF Used
  <2>2. \A l \in Lanes : recent'[l] \in Seq(consumed' \ pending')
    BY <1>2, WiderSeq DEF Used
  <2>3. DOMAIN recent' = Lanes
    BY <1>2 DEF Used
  <2>4. QED
    BY <1>1, <2>1, <2>2, <2>3 DEF Used
<1>3. CASE ConsumeRequest(e)
  <2>1. pending' = pending \cup {e} /\ recent' = recent /\ matches' = matches
    BY <1>3 DEF ConsumeRequest, UnchangedMatches
  <2>2. QED
    BY <1>1, <1>2, <2>1
<1>4. CASE MatchResponse(e)
  <2>1. PICK r \in MatchPending(e) :
          /\ pending' = pending \ {r} /\ matches' = Append(matches, <<r, e>>)
          /\ recent' = [recent EXCEPT ![Lane(r)] = LastOf(Append(recent[Lane(r)], r))]
    BY <1>4 DEF MatchResponse, RemovePending
  <2>2. r \in pending /\ r \in consumed /\ r \in WebEvents
    BY <2>1 DEF MatchPending, PInv, Sorted
  <2>3. consumed \ pending \subseteq consumed' \ pending' /\ r \in consumed' \ pending'
    BY <1>1, <2>1, <2>2
  <2>4. Range(matches') = Range(matches) \cup {<<r, e>>}
    BY <2>1, RangeGrows DEF PInv, Sorted
  <2>5. \A m \in Range(matches') : m[1] \in consumed' \ pending'
    BY <2>3, <2>4 DEF Used
  <2>6. Lane(r) \in Lanes
    BY <2>2 DEF Lanes
  <2>7. recent[Lane(r)] \in Seq(consumed' \ pending')
    BY <2>3, <2>6, WiderSeq DEF Used
  <2>8. LastOf(Append(recent[Lane(r)], r)) \in Seq(consumed' \ pending')
    <3>1. Append(recent[Lane(r)], r) \in Seq(consumed' \ pending')
      BY <2>3, <2>7, AppendProperties
    <3>2. QED
      BY <3>1, TailOf
  <2>9. ASSUME NEW l \in Lanes
        PROVE  recent'[l] \in Seq(consumed' \ pending')
    <3>1. CASE l = Lane(r)
      BY <2>1, <2>6, <2>8, <3>1 DEF Used
    <3>2. CASE l # Lane(r)
      <4>1. recent'[l] = recent[l]
        BY <2>1, <3>2 DEF Used
      <4>2. QED
        BY <2>3, <4>1, WiderSeq DEF Used
    <3>3. QED
      BY <3>1, <3>2
  <2>10. DOMAIN recent' = Lanes
    BY <2>1 DEF Used
  <2>11. Lanes' = Lanes
    BY DEF Lanes
  <2>12. QED
    BY <1>1, <2>5, <2>9, <2>10 DEF Used
<1>5. CASE OrphanResponse(e) \/ ConsumeCache(e)
  <2>1. pending' = pending /\ recent' = recent /\ matches' = matches
    BY <1>5 DEF OrphanResponse, ConsumeCache, UnchangedMatches
  <2>2. QED
    BY <1>1, <1>2, <2>1
<1>6. QED
  BY <1>3, <1>4, <1>5 DEF WebConsume

-------------------------------------------------------------------------------
(* Groups with an entry added hold numbers only, as before. *)
LEMMA SequencesStay ==
  ASSUME NEW G, Sequences(G), NEW E, Numbers(E)
  PROVE  Sequences(Added(G, E))
<1> DEFINE new == {<<x[1], x[2]>> : x \in E}
           H == Added(G, E)
           old(g) == IF g \in DOMAIN G THEN G[g] ELSE <<>>
           add(g) == IF g \in new THEN <<ValueOf(E, g)>> ELSE <<>>
<1>1. DOMAIN H = DOMAIN G \cup new /\ \A g \in DOMAIN H : H[g] = old(g) \o add(g)
  BY DEF Added
<1> HIDE DEF H
<1>2. \A g \in new : ValueOf(E, g) \in Int
  <2> TAKE g \in new
  <2> DEFINE it == CHOOSE x \in E : <<x[1], x[2]>> = g
  <2>1. \E x \in E : <<x[1], x[2]>> = g
    OBVIOUS
  <2>2. it \in E
    BY <2>1
  <2>3. QED
    BY <2>2 DEF ValueOf, Numbers
<1>3. \A g : old(g) \in Seq(Int)
  BY EmptySeq DEF Sequences
<1>4. \A g : add(g) \in Seq(Int)
  BY <1>2, EmptySeq
<1> HIDE DEF old, add, new
<1>5. \A g \in DOMAIN H : H[g] \in Seq(Int)
  <2> TAKE g \in DOMAIN H
  <2>1. old(g) \in Seq(Int) /\ add(g) \in Seq(Int) /\ H[g] = old(g) \o add(g)
    BY <1>1, <1>3, <1>4
  <2>2. QED
    BY <2>1, ConcatProperties
<1>6. QED
  BY <1>5 DEF H, Sequences

(* The bytes of an event are numbers, ... *)
LEMMA BytesAreNumbers == \A e \in Events : \A n \in BytesFrom(e) : n \in Int
<1> SUFFICES ASSUME NEW e \in Events PROVE \A n \in BytesFrom(e) : n \in Int
  OBVIOUS
<1>1. \A f \in ByteFields : NumberOk(e, f) => e.fields[f] \in Int
  BY EventAssumption DEF Events, NumberOk, Has
<1> DEFINE given == {f \in ByteFields : NumberOk(e, f)}
<1>2. \A f \in given : e.fields[f] \in Int
  BY <1>1
<1>3. "Bytes" \in ByteFields /\ "Headers" \in ByteFields /\ "Body" \in ByteFields
  BY DEF ByteFields
<1>4. BytesFrom(e) \subseteq {e.fields[f] : f \in given}
  <2>1. BytesFrom(e) = CASE "Bytes" \in given -> {e.fields["Bytes"]}
                         [] "Bytes" \notin given /\ "Headers" \in given -> {e.fields["Headers"]}
                         [] given = {"Body"} -> {e.fields["Body"]}
                         [] given = {} -> {}
    BY DEF BytesFrom
  <2>2. "Bytes" \in given \/ ("Bytes" \notin given /\ "Headers" \in given)
          \/ given = {"Body"} \/ given = {}
    BY DEF ByteFields
  <2> HIDE DEF given
  <2>3. CASE "Bytes" \in given
    BY <2>1, <2>3
  <2>4. CASE "Bytes" \notin given /\ "Headers" \in given
    BY <2>1, <2>4
  <2>5. CASE given = {"Body"}
    BY <2>1, <2>5
  <2>6. CASE given = {}
    BY <2>1, <2>6
  <2>7. QED
    BY <2>2, <2>3, <2>4, <2>5, <2>6
<1>5. QED
  BY <1>2, <1>4

(* ... and so is everything that a match or a cache event adds. *)
LEMMA WebNumbers ==
  ASSUME NEW r \in Events, NEW e \in Events
  PROVE  Numbers(RequestEntries(r, e)) /\ Numbers(CacheEntries(e))
<1>1. Elapsed(r, e) \in Int /\ e.micros \in Int
  BY EventNumbers DEF Elapsed
<1>2. \A n \in BytesFrom(r) \cup BytesFrom(e) : n \in Int
  BY BytesAreNumbers
<1>3. Numbers(RequestEntries(r, e))
  <2> DEFINE key == <<Method(r), URI(r), Status(e), Result(e)>>
             a == <<"request">>
             a1 == <<"request", "request_bytes">>
             a2 == <<"request", "response_bytes">>
  <2>1. RequestEntries(r, e) = {<<a, key, Elapsed(r, e)>>}
          \cup {<<a1, key, n>> : n \in BytesFrom(r)} \cup {<<a2, key, n>> : n \in BytesFrom(e)}
    BY Zenon DEF RequestEntries
  <2> HIDE DEF key, a, a1, a2
  <2>2. QED
    BY <1>1, <1>2, <2>1 DEF Numbers
<1>4. Numbers(CacheEntries(e))
  <2> DEFINE key == <<Method(e), URI(e), TextOr(e, "action", ""), Result(e), Status(e)>>
             b == <<"cache">>
             b1 == <<"cache", "bytes">>
  <2>1. CacheEntries(e) = {<<b, key, e.micros>>} \cup {<<b1, key, n>> : n \in BytesFrom(e)}
    BY Zenon DEF CacheEntries
  <2> HIDE DEF key, b, b1
  <2>2. QED
    BY <1>1, <1>2, <2>1 DEF Numbers
<1>5. QED
  BY <1>3, <1>4

(* A match adds one value to the table of requests, a cache event to that of*)
(* the cache.                                                               *)
LEMMA WebAdds ==
  ASSUME NEW r, NEW e
  PROVE  /\ Adds(RequestEntries(r, e), <<"request">>, TRUE)
         /\ Adds(RequestEntries(r, e), <<"cache">>, FALSE)
         /\ Adds(CacheEntries(e), <<"cache">>, TRUE)
         /\ Adds(CacheEntries(e), <<"request">>, FALSE)
<1> DEFINE a == <<"request">>
           b == <<"cache">>
           a1 == <<"request", "request_bytes">>
           a2 == <<"request", "response_bytes">>
           b1 == <<"cache", "bytes">>
<1>1. a # b /\ a1 # a /\ a2 # a /\ a1 # b /\ a2 # b /\ b1 # a /\ b1 # b
  OBVIOUS
<1> DEFINE key == <<Method(r), URI(r), Status(e), Result(e)>>
           ck == <<Method(e), URI(e), TextOr(e, "action", ""), Result(e), Status(e)>>
<1>2. RequestEntries(r, e) = {<<a, key, Elapsed(r, e)>>}
        \cup {<<a1, key, n>> : n \in BytesFrom(r)} \cup {<<a2, key, n>> : n \in BytesFrom(e)}
  BY DEF RequestEntries
<1>3. CacheEntries(e) = {<<b, ck, e.micros>>} \cup {<<b1, ck, n>> : n \in BytesFrom(e)}
  BY DEF CacheEntries
<1> HIDE DEF a, b, a1, a2, b1, key, ck
<1>4. /\ Adds(RequestEntries(r, e), a, TRUE)
      /\ Adds(RequestEntries(r, e), b, FALSE)
  <2>1. \A x \in RequestEntries(r, e) :
          x = <<a, key, Elapsed(r, e)>> \/ x[1] = a1 \/ x[1] = a2
    BY <1>2
  <2>2. <<a, key, Elapsed(r, e)>> \in RequestEntries(r, e)
    BY <1>2
  <2>3. \A x \in RequestEntries(r, e) : /\ x[1] = a => x = <<a, key, Elapsed(r, e)>>
                                       /\ x[1] # b
    BY <1>1, <2>1
  <2>4. QED
    BY <2>2, <2>3 DEF Adds
<1>5. /\ Adds(CacheEntries(e), b, TRUE)
      /\ Adds(CacheEntries(e), a, FALSE)
  <2>1. \A x \in CacheEntries(e) : x = <<b, ck, e.micros>> \/ x[1] = b1
    BY <1>3
  <2>2. <<b, ck, e.micros>> \in CacheEntries(e)
    BY <1>3
  <2>3. \A x \in CacheEntries(e) : (x[1] = b => x = <<b, ck, e.micros>>) /\ x[1] # a
    BY <1>1, <2>1
  <2>4. QED
    BY <2>2, <2>3 DEF Adds
<1>6. QED
  BY <1>4, <1>5 DEF a, b

-------------------------------------------------------------------------------
WebCounted == \A c : WebCopies(c) \in Nat

(* A counter moves by one if it is among those counted. *)
LEMMA WebCopiesMove ==
  ASSUME WebCounted, NEW C, WebCount(C)
  PROVE  /\ WebCounted'
         /\ \A c : WebCopies(c)' = WebCopies(c) + Once(c \in C)
<1>1. /\ DOMAIN webQuality' = DOMAIN webQuality \cup C
      /\ \A x \in DOMAIN webQuality \cup C :
           webQuality'[x] = (IF x \in DOMAIN webQuality THEN webQuality[x] ELSE 0)
                              + (IF x \in C THEN 1 ELSE 0)
  BY DEF WebCount, (+), SetToBag, BagToSet
<1>2. ASSUME NEW c
      PROVE  WebCopies(c)' = WebCopies(c) + Once(c \in C) /\ WebCopies(c)' \in Nat
  <2>1. WebCopies(c) \in Nat
    BY DEF WebCounted
  <2>2. QED
    BY <1>1, <2>1 DEF WebCopies, Once
<1>3. QED
  BY <1>2 DEF WebCounted

(* By how much the counters that are related to each other move. *)
Tally(requests, matched, responses, orphan, ambiguous, cached) ==
  /\ WebCopies("requests")' = WebCopies("requests") + requests
  /\ WebCopies("matched")' = WebCopies("matched") + matched
  /\ WebCopies("responses")' = WebCopies("responses") + responses
  /\ WebCopies("orphan")' = WebCopies("orphan") + orphan
  /\ WebCopies("ambiguous")' = WebCopies("ambiguous") + ambiguous
  /\ WebCopies("cache_events")' = WebCopies("cache_events") + cached

Tallied == {"requests", "matched", "responses", "orphan", "ambiguous", "cache_events"}

(* The names of the other counters are others. *)
LEMMA OtherCounters ==
  /\ \A status : StatusClass(status) \cap Tallied = {}
  /\ \A e : CacheOutcome(e) \cap Tallied = {}
<1>1. ASSUME NEW status
      PROVE  StatusClass(status) \cap Tallied = {}
  <2>1. CASE status \in 100..599
    <3>1. status \div 100 \in 1..5
      BY <2>1
    <3>2. \A i \in 1..5 : <<"1xx", "2xx", "3xx", "4xx", "5xx">>[i] \in {"1xx", "2xx", "3xx", "4xx", "5xx"}
      OBVIOUS
    <3>3. StatusClass(status) \subseteq {"1xx", "2xx", "3xx", "4xx", "5xx"}
      BY <2>1, <3>1, <3>2 DEF StatusClass, When
    <3>4. QED
      BY <3>3 DEF Tallied
  <2>2. CASE status \notin 100..599
    BY <2>2 DEF StatusClass, When
  <2>3. QED
    BY <2>1, <2>2
<1>2. ASSUME NEW e
      PROVE  CacheOutcome(e) \cap Tallied = {}
  <2>1. CacheOutcome(e) \subseteq {"orphan_cache", "ambiguous_cache"}
    <3> DEFINE blank == Method(e) = "" \/ URI(e) = NoURI
               one == OnlyOne(MatchCache(e))
               some == MatchCache(e) # {}
    <3>1. CacheOutcome(e) = CASE blank -> {"orphan_cache"}
                              [] ~blank /\ one -> {}
                              [] ~blank /\ ~one -> {"orphan_cache"} \cup When(some, {"ambiguous_cache"})
      BY DEF CacheOutcome
    <3>2. blank \in BOOLEAN /\ one \in BOOLEAN /\ some \in BOOLEAN
      BY DEF OnlyOne
    <3> HIDE DEF blank, one, some
    <3>3. QED
      BY <3>1, <3>2 DEF When
  <2>2. QED
    BY <2>1 DEF Tallied
<1>3. QED
  BY <1>1, <1>2

(* What each event tallies. *)
LEMMA Tallies ==
  ASSUME WebCounted, NEW e
  PROVE  /\ ConsumeRequest(e) => Tally(1, 0, 0, 0, 0, 0)
         /\ MatchResponse(e) => Tally(0, 1, 1, 0, 0, 0)
         /\ OrphanResponse(e) => Tally(0, 0, 1, 1, 0, 0) \/ Tally(0, 0, 1, 1, 1, 0)
         /\ ConsumeCache(e) => Tally(0, 0, 0, 0, 0, 1)
         /\ WebIgnore => Tally(0, 0, 0, 0, 0, 0)
         /\ ConsumeRequest(e) \/ MatchResponse(e) \/ OrphanResponse(e) \/ ConsumeCache(e) \/ WebIgnore
              => WebCounted'
<1>1. ASSUME NEW C, WebCount(C)
      PROVE  \A c : /\ c \in C => WebCopies(c)' = WebCopies(c) + 1
                    /\ c \notin C => WebCopies(c)' = WebCopies(c) + 0
  BY <1>1, WebCopiesMove DEF Once
<1>2. ASSUME ConsumeRequest(e)
      PROVE  Tally(1, 0, 0, 0, 0, 0) /\ WebCounted'
  <2>1. WebCount({"requests"})
    BY <1>2 DEF ConsumeRequest
  <2>2. QED
    BY <1>1, <2>1, WebCopiesMove DEF Tally
<1>3. ASSUME MatchResponse(e)
      PROVE  Tally(0, 1, 1, 0, 0, 0) /\ WebCounted'
  <2> DEFINE C == {"responses", "matched"} \cup StatusClass(Status(e))
  <2>1. WebCount(C)
    BY <1>3 DEF MatchResponse
  <2>2. /\ "responses" \in C /\ "matched" \in C
        /\ {"requests", "orphan", "ambiguous", "cache_events"} \cap C = {}
    BY OtherCounters DEF Tallied
  <2> HIDE DEF C
  <2>3. QED
    BY <1>1, <2>1, <2>2, WebCopiesMove DEF Tally
<1>4. ASSUME OrphanResponse(e)
      PROVE  (Tally(0, 0, 1, 1, 0, 0) \/ Tally(0, 0, 1, 1, 1, 0)) /\ WebCounted'
  <2> DEFINE C == {"responses", "orphan"} \cup When(MatchPending(e) # {}, {"ambiguous"})
  <2>1. WebCount(C)
    BY <1>4 DEF OrphanResponse
  <2>2. /\ "responses" \in C /\ "orphan" \in C
        /\ {"requests", "matched", "cache_events"} \cap C = {}
    BY DEF When
  <2> HIDE DEF C
  <2>3. CASE "ambiguous" \in C
    BY <1>1, <2>1, <2>2, <2>3, WebCopiesMove DEF Tally
  <2>4. CASE "ambiguous" \notin C
    BY <1>1, <2>1, <2>2, <2>4, WebCopiesMove DEF Tally
  <2>5. QED
    BY <2>3, <2>4
<1>5. ASSUME ConsumeCache(e)
      PROVE  Tally(0, 0, 0, 0, 0, 1) /\ WebCounted'
  <2> DEFINE C == {"cache_events"} \cup CacheOutcome(e)
                    \cup When(Result(e) = "hit", {"hits"}) \cup When(Result(e) = "miss", {"misses"})
  <2>1. WebCount(C)
    BY <1>5 DEF ConsumeCache
  <2>2. /\ "cache_events" \in C
        /\ {"requests", "matched", "responses", "orphan", "ambiguous"} \cap C = {}
    BY OtherCounters DEF Tallied, When
  <2> HIDE DEF C
  <2>3. QED
    BY <1>1, <2>1, <2>2, WebCopiesMove DEF Tally
<1>6. ASSUME WebIgnore
      PROVE  Tally(0, 0, 0, 0, 0, 0) /\ WebCounted'
  <2>1. WebCount({"ignored"})
    BY <1>6 DEF WebIgnore
  <2>2. QED
    BY <1>1, <2>1, WebCopiesMove DEF Tally
<1>7. QED
  BY <1>2, <1>3, <1>4, <1>5, <1>6

-------------------------------------------------------------------------------
(* The tables hold numbers, in finitely many groups. *)
WebTables ==
  /\ Sequences(webGroups)
  /\ IsFiniteSet(GroupsIn(webGroups, <<"request">>))
  /\ IsFiniteSet(GroupsIn(webGroups, <<"cache">>))

(* A dimension with an entry counts one more ... *)
LEMMA DimensionGrows ==
  ASSUME NEW G, Sequences(G), NEW E, Numbers(E),
         NEW dim, IsFiniteSet(GroupsIn(G, dim)), Adds(E, dim, TRUE)
  PROVE  /\ IsFiniteSet(GroupsIn(Added(G, E), dim)) /\ CountOf(G, dim) \in Int
         /\ CountOf(Added(G, E), dim) = CountOf(G, dim) + 1
<1> DEFINE added == TRUE
<1>1. Adds(E, dim, added)
  OBVIOUS
<1> HIDE DEF added
<1>2. /\ IsFiniteSet(GroupsIn(Added(G, E), dim)) /\ CountOf(G, dim) \in Int
      /\ CountOf(Added(G, E), dim) = CountOf(G, dim) + (IF added THEN 1 ELSE 0)
  BY <1>1, CountMoves
<1>3. added
  BY DEF added
<1>4. QED
  BY <1>2, <1>3

(* ... and one without stays as it is. *)
LEMMA DimensionStays ==
  ASSUME NEW G, Sequences(G), NEW E, Numbers(E),
         NEW dim, IsFiniteSet(GroupsIn(G, dim)), Adds(E, dim, FALSE)
  PROVE  /\ IsFiniteSet(GroupsIn(Added(G, E), dim)) /\ CountOf(G, dim) \in Int
         /\ CountOf(Added(G, E), dim) = CountOf(G, dim)
<1> DEFINE added == FALSE
<1>1. Adds(E, dim, added)
  OBVIOUS
<1> HIDE DEF added
<1>2. /\ IsFiniteSet(GroupsIn(Added(G, E), dim)) /\ CountOf(G, dim) \in Int
      /\ CountOf(Added(G, E), dim) = CountOf(G, dim) + (IF added THEN 1 ELSE 0)
  BY <1>1, CountMoves
<1>3. ~added
  BY DEF added
<1>4. QED
  BY <1>2, <1>3

(* A match is one more value in the table of requests, ... *)
LEMMA RequestTabled ==
  ASSUME WebTables, NEW r \in Events, NEW e \in Events,
         webGroups' = Added(webGroups, RequestEntries(r, e))
  PROVE  /\ WebTables'
         /\ WebCountIn(<<"request">>) \in Int /\ WebCountIn(<<"cache">>) \in Int
         /\ WebCountIn(<<"request">>)' = WebCountIn(<<"request">>) + 1
         /\ WebCountIn(<<"cache">>)' = WebCountIn(<<"cache">>)
<1> DEFINE E == RequestEntries(r, e)
           a == <<"request">>
           b == <<"cache">>
<1>1. /\ Sequences(webGroups) /\ Numbers(E) /\ Adds(E, a, TRUE) /\ Adds(E, b, FALSE)
      /\ IsFiniteSet(GroupsIn(webGroups, a)) /\ IsFiniteSet(GroupsIn(webGroups, b))
  BY WebNumbers, WebAdds DEF WebTables
<1>2. webGroups' = Added(webGroups, E)
  OBVIOUS
<1> HIDE DEF E, a, b
<1>3. Sequences(webGroups')
  BY <1>1, <1>2, SequencesStay
<1>4. /\ IsFiniteSet(GroupsIn(Added(webGroups, E), a)) /\ CountOf(webGroups, a) \in Int
      /\ CountOf(Added(webGroups, E), a) = CountOf(webGroups, a) + 1
  BY <1>1, DimensionGrows
<1>5. /\ IsFiniteSet(GroupsIn(Added(webGroups, E), b)) /\ CountOf(webGroups, b) \in Int
      /\ CountOf(Added(webGroups, E), b) = CountOf(webGroups, b)
  BY <1>1, DimensionStays
<1>6. QED
  BY <1>2, <1>3, <1>4, <1>5 DEF WebTables, WebCountIn, a, b

(* ... and a cache event in that of the cache. *)
LEMMA CacheTabled ==
  ASSUME WebTables, NEW e \in Events, webGroups' = Added(webGroups, CacheEntries(e))
  PROVE  /\ WebTables'
         /\ WebCountIn(<<"request">>) \in Int /\ WebCountIn(<<"cache">>) \in Int
         /\ WebCountIn(<<"request">>)' = WebCountIn(<<"request">>)
         /\ WebCountIn(<<"cache">>)' = WebCountIn(<<"cache">>) + 1
<1> DEFINE E == CacheEntries(e)
           a == <<"request">>
           b == <<"cache">>
<1>1. /\ Sequences(webGroups) /\ Numbers(E) /\ Adds(E, a, FALSE) /\ Adds(E, b, TRUE)
      /\ IsFiniteSet(GroupsIn(webGroups, a)) /\ IsFiniteSet(GroupsIn(webGroups, b))
  BY WebNumbers, WebAdds DEF WebTables
<1>2. webGroups' = Added(webGroups, E)
  OBVIOUS
<1> HIDE DEF E, a, b
<1>3. Sequences(webGroups')
  BY <1>1, <1>2, SequencesStay
<1>4. /\ IsFiniteSet(GroupsIn(Added(webGroups, E), a)) /\ CountOf(webGroups, a) \in Int
      /\ CountOf(Added(webGroups, E), a) = CountOf(webGroups, a)
  BY <1>1, DimensionStays
<1>5. /\ IsFiniteSet(GroupsIn(Added(webGroups, E), b)) /\ CountOf(webGroups, b) \in Int
      /\ CountOf(Added(webGroups, E), b) = CountOf(webGroups, b) + 1
  BY <1>1, DimensionGrows
<1>6. QED
  BY <1>2, <1>3, <1>4, <1>5 DEF WebTables, WebCountIn, a, b

(* The requests that were matched. *)
Answered == {m[1] : m \in Range(matches)}

Accounts ==
  /\ WebCopies("requests") = WebCopies("matched") + Cardinality(pending)
  /\ WebCopies("responses") = WebCopies("matched") + WebCopies("orphan")
  /\ WebCopies("ambiguous") <= WebCopies("orphan")
  /\ WebCountIn(<<"request">>) = WebCopies("matched")
  /\ WebCopies("matched") = Len(matches)
  /\ Cardinality(Answered) = Len(matches)
  /\ WebCountIn(<<"cache">>) = WebCopies("cache_events")

(* The inductive invariant of the accounts of the web service. *)
WebBooks ==
  /\ PInv /\ logged \in Configurations
  /\ Used /\ IsFiniteSet(Answered) /\ Listed
  /\ WebTables /\ WebCounted /\ Accounts

(* It is what WebAddsUp says. *)
LEMMA BooksAddUp == WebBooks => WebAddsUp
<1> SUFFICES ASSUME WebBooks PROVE WebAddsUp
  OBVIOUS
<1>1. \A l \in Lanes : \A i \in DOMAIN recent[l] : recent[l][i] \notin pending
  <2> TAKE l \in Lanes
  <2>1. recent[l] \in Seq(consumed \ pending)
    BY DEF WebBooks, Used
  <2>2. DOMAIN recent[l] = 1..Len(recent[l]) /\ \A i \in 1..Len(recent[l]) : recent[l][i] \in consumed \ pending
    BY <2>1, LenProperties, ElementOfSeq
  <2>3. QED
    BY <2>2
<1>2. /\ slow = Cut(StableSort(WebSamples, SlowLess), WebSampleLimit)
      /\ errors = Cut(SubSeq(StableSort(WebSamples, FailedFirst), 1, Failures), WebSampleLimit)
  <2>1. Listed
    BY DEF WebBooks
  <2>2. QED
    BY <2>1, ListedIsBest, Zenon
<1>3. Accounts
  BY DEF WebBooks
<1>4. QED
  BY <1>1, <1>2, <1>3, Zenon DEF WebAddsUp, Accounts, Answered

(* What the accounts count is a number. *)
LEMMA AccountNumbers ==
  ASSUME WebBooks
  PROVE  /\ \A c : WebCopies(c) \in Nat
         /\ Cardinality(pending) \in Nat /\ Len(matches) \in Nat
         /\ Cardinality(Answered) \in Nat
  BY FS_CardinalityType, LenProperties DEF WebBooks, WebCounted, PInv, Sorted, Listed

(* A request waits. *)
LEMMA RequestAccounted ==
  ASSUME WebBooks, NEW e \in WebEvents, MayCome(e), ConsumeRequest(e)
  PROVE  Accounts'
<1>1. /\ pending' = pending \cup {e} /\ matches' = matches /\ webGroups' = webGroups
  BY DEF ConsumeRequest, UnchangedMatches
<1>2. e \notin pending /\ IsFiniteSet(pending)
  BY DEF WebBooks, PInv, Sorted, MayCome
<1>3. Cardinality(pending') = Cardinality(pending) + 1
  BY <1>1, <1>2, FS_AddElement
<1>4. /\ Answered' = Answered /\ Len(matches') = Len(matches)
      /\ \A dim : WebCountIn(dim)' = WebCountIn(dim)
  BY <1>1 DEF Answered, WebCountIn
<1>5. Tally(1, 0, 0, 0, 0, 0)
  BY Tallies DEF WebBooks
<1>6. Accounts
  BY DEF WebBooks
<1>7. QED
  BY <1>3, <1>4, <1>5, <1>6, AccountNumbers DEF Accounts, Tally

(* A match is one of each. *)
LEMMA MatchAccounted ==
  ASSUME WebBooks, NEW e \in WebEvents, e \in Events, MayCome(e), MatchResponse(e)
  PROVE  /\ Accounts' /\ IsFiniteSet(Answered') /\ Listed' /\ WebTables'
<1>1. PICK r \in MatchPending(e) :
        /\ pending' = pending \ {r} /\ matches' = Append(matches, <<r, e>>)
        /\ webGroups' = Added(webGroups, RequestEntries(r, e))
        /\ slow' = KeepSlow(slow, SampleOf(r, e), WebSampleLimit)
        /\ errors' = IF IsError(e) THEN KeepError(errors, SampleOf(r, e), WebSampleLimit) ELSE errors
  BY DEF MatchResponse, RemovePending
<1>2. r \in pending /\ r \in Events /\ IsFiniteSet(pending)
  BY <1>1 DEF MatchPending, WebBooks, PInv, Sorted, Used
<1> DEFINE m == <<r, e>>
<1>3. m \in Pairs /\ m[1] = r /\ m[2] = e
  BY <1>2 DEF Pairs
<1>4. matches \in Seq(Pairs) /\ Listed
  BY DEF WebBooks, Listed
<1>5. /\ matches' = Append(matches, m) /\ slow' = KeepSlow(slow, SampleOf(m[1], m[2]), WebSampleLimit)
      /\ errors' = IF IsError(m[2]) THEN KeepError(errors, SampleOf(m[1], m[2]), WebSampleLimit)
                   ELSE errors
  BY <1>1
<1> HIDE DEF m
<1>6. Listed'
  <2>1. matches' \in Seq(Pairs)
    BY <1>3, <1>4, <1>5, SamplesAppend
  <2>2. slow' = BestOfList(WebSamples', Slower, WebSampleSet, WebSampleLimit)
    BY <1>3, <1>4, <1>5, SlowListed
  <2>3. errors' = BestOfList(WebSamples', FailedEarlier, FailedOnes, WebSampleLimit)
    BY <1>3, <1>4, <1>5, ErrorListed
  <2>4. QED
    BY <2>1, <2>2, <2>3 DEF Listed
<1>7. /\ Range(matches') = Range(matches) \cup {m} /\ Len(matches') = Len(matches) + 1
  BY <1>3, <1>4, <1>5, RangeGrows, AppendProperties
<1>8. r \notin Answered
  BY <1>2 DEF Answered, WebBooks, Used
<1>9. /\ Answered' = Answered \cup {r} /\ IsFiniteSet(Answered')
      /\ Cardinality(Answered') = Cardinality(Answered) + 1
  <2>1. Answered' = Answered \cup {r}
    BY <1>3, <1>7 DEF Answered
  <2>2. IsFiniteSet(Answered)
    BY DEF WebBooks
  <2>3. QED
    BY <1>8, <2>1, <2>2, FS_AddElement
<1>10. Cardinality(pending') = Cardinality(pending) - 1
  BY <1>1, <1>2, FS_RemoveElement
<1>11. /\ WebTables'
       /\ WebCountIn(<<"request">>) \in Int /\ WebCountIn(<<"cache">>) \in Int
       /\ WebCountIn(<<"request">>)' = WebCountIn(<<"request">>) + 1
       /\ WebCountIn(<<"cache">>)' = WebCountIn(<<"cache">>)
  BY <1>1, <1>2, RequestTabled DEF WebBooks
<1>12. Tally(0, 1, 1, 0, 0, 0)
  BY Tallies DEF WebBooks
<1>13. Accounts
  BY DEF WebBooks
<1>14. Accounts'
  <2>1. /\ WebCopies("requests") \in Nat /\ WebCopies("matched") \in Nat
        /\ WebCopies("responses") \in Nat /\ WebCopies("orphan") \in Nat
        /\ WebCopies("ambiguous") \in Nat /\ WebCopies("cache_events") \in Nat
        /\ Cardinality(pending) \in Nat /\ Len(matches) \in Nat /\ Cardinality(Answered) \in Nat
    BY AccountNumbers
  <2>2. /\ WebCopies("requests")' = WebCopies("matched")' + Cardinality(pending')
        /\ WebCopies("responses")' = WebCopies("matched")' + WebCopies("orphan")'
        /\ WebCopies("ambiguous")' <= WebCopies("orphan")'
    <3>1. /\ WebCopies("requests") = WebCopies("matched") + Cardinality(pending)
          /\ WebCopies("responses") = WebCopies("matched") + WebCopies("orphan")
          /\ WebCopies("ambiguous") <= WebCopies("orphan")
      BY <1>13, Zenon DEF Accounts
    <3>2. /\ WebCopies("requests")' = WebCopies("requests") + 0
          /\ WebCopies("matched")' = WebCopies("matched") + 1
          /\ WebCopies("responses")' = WebCopies("responses") + 1
          /\ WebCopies("orphan")' = WebCopies("orphan") + 0
          /\ WebCopies("ambiguous")' = WebCopies("ambiguous") + 0
      BY <1>12, Zenon DEF Tally
    <3>3. QED
      BY <1>10, <2>1, <3>1, <3>2
  <2>3. /\ WebCountIn(<<"request">>)' = WebCopies("matched")'
        /\ WebCountIn(<<"cache">>)' = WebCopies("cache_events")'
    BY <1>11, <1>12, <1>13, <2>1 DEF Accounts, Tally
  <2>4. /\ WebCopies("matched")' = Len(matches')
        /\ Cardinality(Answered') = Len(matches')
    BY <1>7, <1>9, <1>12, <1>13, <2>1 DEF Accounts, Tally
  <2>5. QED
    BY <2>2, <2>3, <2>4 DEF Accounts
<1>15. QED
  BY <1>6, <1>9, <1>11, <1>14

(* A response without a request of its own is an orphan. *)
LEMMA OrphanAccounted ==
  ASSUME WebBooks, NEW e \in WebEvents, OrphanResponse(e)
  PROVE  Accounts'
<1>1. pending' = pending /\ matches' = matches /\ webGroups' = webGroups
  BY DEF OrphanResponse, UnchangedMatches
<1>2. /\ Answered' = Answered /\ \A dim : WebCountIn(dim)' = WebCountIn(dim)
  BY <1>1 DEF Answered, WebCountIn
<1>3. Tally(0, 0, 1, 1, 0, 0) \/ Tally(0, 0, 1, 1, 1, 0)
  BY Tallies DEF WebBooks
<1>4. Accounts
  BY DEF WebBooks
<1>5. CASE Tally(0, 0, 1, 1, 0, 0)
  BY <1>1, <1>2, <1>4, <1>5, AccountNumbers DEF Accounts, Tally
<1>6. CASE Tally(0, 0, 1, 1, 1, 0)
  BY <1>1, <1>2, <1>4, <1>6, AccountNumbers DEF Accounts, Tally
<1>7. QED
  BY <1>3, <1>5, <1>6

(* A cache event is one more row of the cache. *)
LEMMA CacheAccounted ==
  ASSUME WebBooks, NEW e \in WebEvents, e \in Events, ConsumeCache(e)
  PROVE  Accounts' /\ WebTables'
<1>1. /\ pending' = pending /\ matches' = matches
      /\ webGroups' = Added(webGroups, CacheEntries(e))
  BY DEF ConsumeCache, UnchangedMatches
<1>2. Answered' = Answered
  BY <1>1 DEF Answered
<1>3. /\ WebTables'
      /\ WebCountIn(<<"request">>) \in Int /\ WebCountIn(<<"cache">>) \in Int
      /\ WebCountIn(<<"request">>)' = WebCountIn(<<"request">>)
      /\ WebCountIn(<<"cache">>)' = WebCountIn(<<"cache">>) + 1
  BY <1>1, CacheTabled DEF WebBooks
<1>4. Tally(0, 0, 0, 0, 0, 1)
  BY Tallies DEF WebBooks
<1>5. Accounts
  BY DEF WebBooks
<1>6. Accounts'
  BY <1>1, <1>2, <1>3, <1>4, <1>5, AccountNumbers DEF Accounts, Tally
<1>7. QED
  BY <1>3, <1>6

(* What leaves the lists and the matches alone leaves them listed. *)
LEMMA ListedAlone == Listed /\ UnchangedMatches => Listed'
<1> SUFFICES ASSUME Listed, UnchangedMatches PROVE Listed'
  OBVIOUS
<1>1. slow' = slow /\ errors' = errors /\ matches' = matches
  BY DEF UnchangedMatches
<1>2. WebSamples' = WebSamples
  BY <1>1 DEF WebSamples
<1>3. QED
  BY <1>1, <1>2 DEF Listed

(* Every event of the web service keeps the accounts, ... *)
LEMMA WebEventAccounted ==
  ASSUME WebBooks, logged' = logged, NEW e \in logged \cap WebEvents, MayCome(e), WebConsume(e)
  PROVE  WebBooks'
<1>1. e \in WebEvents /\ e \in Events /\ WebCounted /\ Listed
  BY DEF WebBooks, Events
<1>2. PInv' /\ Used'
  BY <1>1, WebStep, UsedStays DEF WebBooks
<1>3. WebCounted'
  <2>1. ConsumeRequest(e) \/ MatchResponse(e) \/ OrphanResponse(e) \/ ConsumeCache(e)
    BY DEF WebConsume
  <2>2. QED
    BY <1>1, <2>1, Tallies
<1>4. CASE ConsumeRequest(e)
  <2>1. Accounts'
    BY <1>1, <1>4, RequestAccounted
  <2>2. webGroups' = webGroups /\ matches' = matches /\ UnchangedMatches
    BY <1>4 DEF ConsumeRequest, UnchangedMatches
  <2>3. IsFiniteSet(Answered') /\ WebTables' /\ Listed'
    BY <1>1, <2>2, ListedAlone DEF WebBooks, WebTables, Answered
  <2>4. QED
    BY <1>2, <1>3, <2>1, <2>3 DEF WebBooks
<1>5. CASE MatchResponse(e)
  <2>1. Accounts' /\ IsFiniteSet(Answered') /\ Listed' /\ WebTables'
    BY <1>1, <1>5, MatchAccounted
  <2>2. QED
    BY <1>2, <1>3, <2>1 DEF WebBooks
<1>6. CASE OrphanResponse(e)
  <2>1. Accounts'
    BY <1>1, <1>6, OrphanAccounted
  <2>2. webGroups' = webGroups /\ matches' = matches /\ UnchangedMatches
    BY <1>6 DEF OrphanResponse, UnchangedMatches
  <2>3. IsFiniteSet(Answered') /\ WebTables' /\ Listed'
    BY <1>1, <2>2, ListedAlone DEF WebBooks, WebTables, Answered
  <2>4. QED
    BY <1>2, <1>3, <2>1, <2>3 DEF WebBooks
<1>7. CASE ConsumeCache(e)
  <2>1. Accounts' /\ WebTables'
    BY <1>1, <1>7, CacheAccounted
  <2>2. matches' = matches /\ UnchangedMatches
    BY <1>7 DEF ConsumeCache, UnchangedMatches
  <2>3. IsFiniteSet(Answered') /\ Listed'
    BY <1>1, <2>2, ListedAlone DEF WebBooks, Answered
  <2>4. QED
    BY <1>2, <1>3, <2>1, <2>3 DEF WebBooks
<1>8. QED
  BY <1>4, <1>5, <1>6, <1>7 DEF WebConsume

(* ... and every other event, and none, leaves them alone. *)
LEMMA OtherAccounted ==
  ASSUME WebBooks, logged' = logged, UNCHANGED <<pending, recent, webGroups, consumed>>,
         UnchangedMatches, WebCounted', Tally(0, 0, 0, 0, 0, 0)
  PROVE  WebBooks'
<1>1. matches' = matches
  BY DEF UnchangedMatches
<1>2. PInv'
  BY <1>1, OtherStep DEF WebBooks
<1>3. /\ Answered' = Answered /\ \A dim : WebCountIn(dim)' = WebCountIn(dim)
  BY <1>1 DEF Answered, WebCountIn
<1>4. Used' /\ WebTables' /\ Listed'
  BY <1>1, ListedAlone DEF WebBooks, Used, WebTables
<1>5. Accounts
  BY DEF WebBooks
<1>6. Accounts'
  BY <1>1, <1>3, <1>5, AccountNumbers DEF Accounts, Tally
<1>7. QED
  BY <1>2, <1>3, <1>4, <1>6 DEF WebBooks

(* An empty log has empty accounts. *)
LEMMA InitWebBooks == Init => WebBooks
<1> SUFFICES ASSUME Init PROVE WebBooks
  OBVIOUS
<1>1. /\ pending = {} /\ recent = [l \in Lanes |-> <<>>] /\ webGroups = <<>> /\ webQuality = EmptyBag
      /\ slow = <<>> /\ errors = <<>> /\ consumed = {} /\ matches = <<>> /\ logged \in Configurations
  BY DEF Init, WebInit
<1>2. PInv
  BY InitPInv
<1>3. Len(matches) = 0 /\ matches \in Seq(Pairs) /\ DOMAIN matches = {} /\ Range(matches) = {}
  BY <1>1, EmptySeq DEF Range
<1>4. Answered = {} /\ IsFiniteSet(Answered) /\ Cardinality(Answered) = 0 /\ Cardinality(pending) = 0
  BY <1>1, <1>3, FS_EmptySet DEF Answered
<1>5. Used
  BY <1>1, <1>3, EmptySeq DEF Used
<1>6. \A c : WebCopies(c) = 0
  BY <1>1 DEF WebCopies, EmptyBag, SetToBag
<1>7. DOMAIN webGroups = {}
  BY <1>1
<1>8. \A dim : GroupsIn(webGroups, dim) = {}
  BY <1>7 DEF GroupsIn
<1>9. WebTables
  BY <1>7, <1>8, FS_EmptySet DEF WebTables, Sequences
<1>10. \A dim : WebCountIn(dim) = 0
  <2> TAKE dim
  <2> DEFINE f == [g \in GroupsIn(webGroups, dim) |-> Len(webGroups[g])]
  <2>1. WebCountIn(dim) = SumFunctionOnSet(f, {})
    BY <1>8 DEF WebCountIn, CountOf, SumFunction
  <2> HIDE DEF f
  <2>2. IsFiniteSet({}) /\ \A x \in {} : f[x] \in Int
    BY FS_EmptySet
  <2>3. SumFunctionOnSet(f, {}) = 0
    BY <2>2, SumSteps
  <2>4. QED
    BY <2>1, <2>3
<1>11. Listed
  <2>1. /\ WebSamples \in Seq(WebSampleSet) /\ Len(WebSamples) = 0 /\ WebSampleLimit \in Nat
    BY <1>3, SamplesOfMatches, WebAssumption
  <2>2. ASSUME NEW R, NEW O, Orders(R, WebSampleSet), ComeFirst(R, O, WebSampleSet)
        PROVE  BestOfList(WebSamples, R, O, WebSampleLimit) = <<>>
    <3>1. Chosen(WebSamples, O) \in 0..0
      BY <2>1, <2>2, ChosenAreFirst
    <3>2. Fewer(Chosen(WebSamples, O), WebSampleLimit) = 0
      BY <2>1, <3>1 DEF Fewer
    <3>3. BestOfList(WebSamples, R, O, WebSampleLimit) = [m \in 1..0 |-> SortBy(WebSamples, R)[m]]
      BY <3>2 DEF BestOfList
    <3>4. QED
      BY <3>3
  <2>3. QED
    BY <1>1, <1>3, <2>2, SampleOrders DEF Listed
<1>12. WebCounted
  BY <1>6 DEF WebCounted
<1>13. Accounts
  BY <1>3, <1>4, <1>6, <1>10 DEF Accounts
<1>14. QED
  BY <1>1, <1>2, <1>4, <1>5, <1>9, <1>11, <1>12, <1>13 DEF WebBooks

(* The accounts of the web service balance: whatever responses and requests *)
(* are missing, blank or ambiguous, every request waits or was answered     *)
(* once, every response was matched or is an orphan, tables and counters    *)
(* agree, and the lists hold the best of all matches.                       *)
THEOREM WebAccountsBalance == Spec => []WebAddsUp
<1>1. Init => WebBooks
  BY InitWebBooks
<1>2. WebBooks /\ [Next]_vars => WebBooks'
  <2> SUFFICES ASSUME WebBooks, [Next]_vars PROVE WebBooks'
    OBVIOUS
  <2>1. CASE AddWebEvent /\ logged' = logged
    BY <2>1, WebEventAccounted DEF AddWebEvent
  <2>2. CASE AddOtherEvent /\ logged' = logged
    <3>1. WebIgnore
      BY <2>2 DEF AddOtherEvent
    <3>2. WebCounted
      BY DEF WebBooks
    <3>3. Tally(0, 0, 0, 0, 0, 0) /\ WebCounted'
      BY <3>1, <3>2, Tallies
    <3>4. QED
      BY <2>2, <3>1, <3>3, OtherAccounted DEF WebIgnore
  <2>3. CASE UNCHANGED vars
    <3>1. /\ UNCHANGED <<pending, recent, webGroups, webQuality, consumed>>
          /\ UnchangedMatches /\ logged' = logged
      BY <2>3 DEF vars, webVars, UnchangedMatches
    <3>2. \A c : WebCopies(c)' = WebCopies(c) /\ WebCopies(c) \in Nat
      BY <3>1 DEF WebCopies, WebBooks, WebCounted
    <3>3. Tally(0, 0, 0, 0, 0, 0) /\ WebCounted'
      BY <3>2 DEF Tally, WebCounted
    <3>4. QED
      BY <3>1, <3>3, OtherAccounted
  <2>4. QED
    BY <2>1, <2>2, <2>3 DEF Next
<1>3. WebBooks => WebAddsUp
  BY BooksAddUp
<1>4. QED
  BY <1>1, <1>2, <1>3, PTL DEF Spec
===============================================================================
