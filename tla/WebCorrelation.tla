---------------------------- MODULE WebCorrelation ----------------------------
(***************************************************************************)
(* internal/analysis/webstats: the requests, responses and cache events of *)
(* the web service, paired lane by lane.                                   *)
(*                                                                         *)
(* An event belongs to one exchange of a client with the service.  The log *)
(* does not say which: it has a lane (hourly file, process and thread) and *)
(* identity fields that may be blank.  The events of an exchange may be    *)
(* missing in the log, as its files start and end anywhere, they may be on *)
(* two lanes, as an exchange under way at the full hour is in two files,   *)
(* and those of several exchanges may interleave; but on a lane a response *)
(* never precedes its request.                                             *)
(***************************************************************************)
EXTENDS LogEvents, Bags, FiniteSetsExt

CONSTANTS WebEvents,       \* the VRSREQUEST, VRSRESPONSE and VRSCACHE events that may be logged
          RecentTail,      \* the requests of a lane remembered after their response (16)
          WebSampleLimit   \* Options.SampleLimit

VARIABLES
  pending,   \* Collector.pending: the requests without a response; their order is not used
  recent,    \* Collector.recent: for each lane the last requests that got their response
  webGroups, \* Collector.requests and Collector.caches
  webQuality,\* Collector.quality
  slow,      \* Collector.slow
  errors,    \* Collector.errors
  consumed,  \* history: the events of the web service consumed
  matches    \* history: the pairs of a request and its response, in the order of the responses

webVars == <<pending, recent, webGroups, webQuality, slow, errors, consumed, matches>>

(* The path of the file the event was read from is a part of the lane. *)
Lane(e) == <<e.source, TextOr(e, "process", ""), TextOr(e, "OSThread", "")>>
Lanes == {Lane(e) : e \in WebEvents}

(* The identity of an event: a function of those of the six identity keys   *)
(* that are not blank.                                                      *)
IdentityCompatible(left, right) ==
  \A k \in DOMAIN left.identity \cap DOMAIN right.identity : left.identity[k] = right.identity[k]

ASSUME WebAssumption ==
  /\ RecentTail \in Nat /\ WebSampleLimit \in Nat \ {0}
  /\ \A e, f \in WebEvents : e.exchange = f.exchange => IdentityCompatible(e, f)

IsRequest(e) == e.name = "VRSREQUEST"
IsResponse(e) == e.name = "VRSRESPONSE"
IsCache(e) == e.name = "VRSCACHE"

-------------------------------------------------------------------------------
(* NormalizeURI: a URI is its path, a sequence of parts that are names or    *)
(* look like an identifier, and its query, a sequence of keys and values.    *)
(* What remains are the names of the path and the keys of the query, sorted. *)

NoURI == [path |-> <<>>, keys |-> EmptyBag]

NormalizeURI(uri) ==
  [path |-> [i \in DOMAIN uri.path |-> IF uri.path[i].isID THEN "{id}" ELSE uri.path[i].text],
   keys |-> ToBag([i \in DOMAIN uri.query |-> uri.query[i].key])]

Method(e) == TextOr(e, "Method", "")
URI(e) == IF Has(e, "URI") THEN NormalizeURI(e.fields["URI"]) ELSE NoURI

(* bytesFrom: a byte field, or the content length of the headers, or the     *)
(* length of the body.                                                       *)
ByteFields == {"Bytes", "Headers", "Body"}

BytesFrom(e) ==
  LET given == {f \in ByteFields : NumberOk(e, f)}
  IN  CASE "Bytes" \in given -> {e.fields["Bytes"]}
        [] "Bytes" \notin given /\ "Headers" \in given -> {e.fields["Headers"]}
        [] given = {"Body"} -> {e.fields["Body"]}
        [] given = {} -> {}

Result(e) == TextOr(e, "Result", "")
Status(e) == TextOr(e, "Status", 0)
StatusClass(status) ==
  When(status \in 100..599, {<<"1xx", "2xx", "3xx", "4xx", "5xx">>[status \div 100]})
IsError(e) == Status(e) >= 400 \/ Result(e) = "error"

(* elapsed: the difference of the timestamps, unless they are out of order. *)
Elapsed(r, e) == IF e.at >= r.at THEN e.at - r.at ELSE e.micros

-------------------------------------------------------------------------------
WebInit ==
  /\ pending = {}
  /\ recent = [l \in Lanes |-> <<>>]
  /\ webGroups = <<>>
  /\ webQuality = EmptyBag
  /\ slow = <<>>
  /\ errors = <<>>
  /\ consumed = {}
  /\ matches = <<>>

WebCount(counts) == webQuality' = webQuality (+) SetToBag(counts)
UnchangedMatches == UNCHANGED <<slow, errors, matches>>

ConsumeRequest(e) ==
  /\ IsRequest(e)
  /\ pending' = pending \cup {e}
  /\ WebCount({"requests"})
  /\ UNCHANGED <<recent, webGroups>> /\ UnchangedMatches

(* matchPending *)
MatchPending(e) == {r \in pending : Lane(r) = Lane(e) /\ IdentityCompatible(r, e)}

FirstWins(matching) == matching # {}
OnlyOne(matching) == Cardinality(matching) = 1

LaneRemoved(r) == {s \in pending : Lane(s) # Lane(r)}
RemovePending(r) == pending \ {r}

(* remember *)
LastOf(list) ==
  IF Len(list) > RecentTail THEN SubSeq(list, Len(list) - RecentTail + 1, Len(list)) ELSE list

RequestEntries(r, e) ==
  LET key == <<Method(r), URI(r), Status(e), Result(e)>>
  IN  {<<<<"request">>, key, Elapsed(r, e)>>}
      \cup {<<<<"request", "request_bytes">>, key, n>> : n \in BytesFrom(r)}
      \cup {<<<<"request", "response_bytes">>, key, n>> : n \in BytesFrom(e)}

SampleOf(r, e) ==
  [at |-> r.at, micros |-> Elapsed(r, e), raw |-> r.raw, request |-> r, response |-> e]

(* consumeResponse with one candidate: removePending, remember, the group,   *)
(* addSlow and addError.                                                     *)
MatchResponse(e) ==
  /\ IsResponse(e)
  /\ OnlyOne(MatchPending(e))
  /\ \E r \in MatchPending(e) :
       /\ pending' = RemovePending(r)
       /\ recent' = [recent EXCEPT ![Lane(r)] = LastOf(Append(@, r))]
       /\ webGroups' = Added(webGroups, RequestEntries(r, e))
       /\ slow' = KeepSlow(slow, SampleOf(r, e), WebSampleLimit)
       /\ errors' = IF IsError(e) THEN KeepError(errors, SampleOf(r, e), WebSampleLimit)
                    ELSE errors
       /\ matches' = Append(matches, <<r, e>>)
       /\ WebCount({"responses", "matched"} \cup StatusClass(Status(e)))

(* consumeResponse without a candidate or with several. *)
OrphanResponse(e) ==
  /\ IsResponse(e)
  /\ ~OnlyOne(MatchPending(e))
  /\ WebCount({"responses", "orphan"} \cup When(MatchPending(e) # {}, {"ambiguous"}))
  /\ UNCHANGED <<pending, recent, webGroups>> /\ UnchangedMatches

(* matchCache: the pending requests first, then the recent ones. *)
MatchCache(e) ==
  LET Compatible(r) == Method(r) = Method(e) /\ URI(r) = URI(e) /\ IdentityCompatible(r, e)
      waiting == {r \in pending : Lane(r) = Lane(e) /\ Compatible(r)}
  IN  IF waiting # {} THEN waiting
      ELSE {r \in {recent[Lane(e)][i] : i \in DOMAIN recent[Lane(e)]} : Compatible(r)}

CacheOutcome(e) ==
  CASE Method(e) = "" \/ URI(e) = NoURI -> {"orphan_cache"}
    [] Method(e) # "" /\ URI(e) # NoURI /\ OnlyOne(MatchCache(e)) -> {}
    [] Method(e) # "" /\ URI(e) # NoURI /\ ~OnlyOne(MatchCache(e)) ->
         {"orphan_cache"} \cup When(MatchCache(e) # {}, {"ambiguous_cache"})

CacheEntries(e) ==
  LET key == <<Method(e), URI(e), TextOr(e, "action", ""), Result(e), Status(e)>>
  IN  {<<<<"cache">>, key, e.micros>>} \cup {<<<<"cache", "bytes">>, key, n>> : n \in BytesFrom(e)}

ConsumeCache(e) ==
  /\ IsCache(e)
  /\ WebCount({"cache_events"} \cup CacheOutcome(e)
                \cup When(Result(e) = "hit", {"hits"}) \cup When(Result(e) = "miss", {"misses"}))
  /\ webGroups' = Added(webGroups, CacheEntries(e))
  /\ UNCHANGED <<pending, recent>> /\ UnchangedMatches

(* Consume, of an event of the web service ... *)
WebConsume(e) ==
  /\ ConsumeRequest(e) \/ MatchResponse(e) \/ OrphanResponse(e) \/ ConsumeCache(e)
  /\ consumed' = consumed \cup {e}

(* ... and of any other event. *)
WebIgnore ==
  /\ WebCount({"ignored"})
  /\ UNCHANGED <<pending, recent, webGroups, consumed>> /\ UnchangedMatches

(* The log: an exchange has one request and one response, and a lane shows   *)
(* them in this order.                                                       *)
MayCome(e) ==
  /\ e \notin consumed
  /\ \A f \in consumed :
       f.exchange = e.exchange /\ ~IsCache(e) /\ ~IsCache(f) =>
         f.name # e.name /\ (Lane(f) = Lane(e) => IsRequest(f))

WebNext == (\E e \in WebEvents : MayCome(e) /\ WebConsume(e)) \/ WebIgnore
WebSpec == WebInit /\ [][WebNext]_webVars

-------------------------------------------------------------------------------
(* The request of a response is not in the log, or on another lane of it. *)
Stray(f) ==
  \A r \in consumed : ~(IsRequest(r) /\ r.exchange = f.exchange /\ Lane(r) = Lane(f))
StrayOn(l) == \E f \in consumed : IsResponse(f) /\ Lane(f) = l /\ Stray(f)

(* "Interleaved traffic is never guessed at": as long as every response of   *)
(* a lane followed its request on that lane, each one that was matched was   *)
(* matched to it, however the exchanges of the lane interleave and whichever *)
(* of their identities are blank.                                            *)
NeverGuessed ==
  \A m \in Range(matches) : ~StrayOn(Lane(m[2])) => m[1].exchange = m[2].exchange

WebCountIn(dim) == CountOf(webGroups, dim)
WebCopies(c) == IF c \in DOMAIN webQuality THEN webQuality[c] ELSE 0

WebSamples == [i \in DOMAIN matches |-> SampleOf(matches[i][1], matches[i][2])]
Failed(sample) == IsError(sample.response)
FailedFirst(a, b) == Failed(a) /\ (Failed(b) => ErrorLess(a, b))
Failures == Cardinality({i \in DOMAIN WebSamples : Failed(WebSamples[i])})

(* Every request waits or was matched once, every response was matched or   *)
(* counted as an orphan, the table of requests has one entry for each match *)
(* and the lists, which are cut after every match, are what sorting all     *)
(* matches at the end and cutting once would give.                          *)
WebAddsUp ==
  /\ WebCopies("requests") = WebCopies("matched") + Cardinality(pending)
  /\ WebCopies("responses") = WebCopies("matched") + WebCopies("orphan")
  /\ WebCopies("ambiguous") <= WebCopies("orphan")
  /\ WebCountIn(<<"request">>) = WebCopies("matched")
  /\ WebCopies("matched") = Len(matches)
  /\ Cardinality({m[1] : m \in Range(matches)}) = Len(matches)
  /\ WebCountIn(<<"cache">>) = WebCopies("cache_events")
  /\ \A l \in Lanes : \A i \in DOMAIN recent[l] : recent[l][i] \notin pending
  /\ slow = Cut(StableSort(WebSamples, SlowLess), WebSampleLimit)
  /\ errors = Cut(SubSeq(StableSort(WebSamples, FailedFirst), 1, Failures), WebSampleLimit)
===============================================================================
