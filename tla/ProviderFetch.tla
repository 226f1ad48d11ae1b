---------------------------- MODULE ProviderFetch ----------------------------
(***************************************************************************)
(* Fetching a station's series from NOAA CO-OPS or Hohonu                  *)
(* (NOAACoopsAdapter._fetch_product, HohonuAdapter.fetch_observations): a  *)
(* window is cut into chunks, a chunk is read from its cache file or       *)
(* requested, with retries, and then written to its cache file.            *)
(*                                                                         *)
(* Abstractions.                                                           *)
(*  - Time is in ticks.  A payload is the set of ticks it has a value of.  *)
(*    A provider that answers has every observation up to now, and every   *)
(*    prediction; it may also have none for the chunk.                     *)
(*  - An answer of NOAA that holds an error is refused like an HTTP error, *)
(*    a timeout or a body that is not JSON.  An error object of Hohonu is  *)
(*    taken for a payload, and has no records.                             *)
(*  - A cache file is named by its series and its chunk's first and last   *)
(*    tick.  Writing opens it, which empties it, and then writes it.       *)
(*  - Waiting between attempts takes any time.                             *)
(***************************************************************************)
EXTENDS Naturals, Sequences, FiniteSets, SequencesExt

CONSTANTS
  Fetchers,     \* threads and processes that fetch
  MaxTime,      \* bound: ticks
  NoaaDays,     \* chunk_days of NOAAConfig
  HohonuDays,   \* chunk_days of HohonuConfig
  MaxRetries    \* max_retries

ASSUME FetchAssumption ==
  /\ {MaxTime, HohonuDays} \subseteq Nat /\ {NoaaDays, MaxRetries} \subseteq Nat \ {0}

VARIABLES
  now,
  cache,     \* the records of every cache file there is
  torn,      \* those opened and not written since
  at,        \* where each fetcher stands
  fetch,     \* what it fetches
  chunk,     \* the chunk it is at
  attempts,  \* requests made for that chunk
  payload,   \* what it got for it
  frame      \* the payloads of the chunks before, each made canonical

files == <<cache, torn>>
progress == <<at, fetch, chunk, attempts, payload, frame>>
fetchVars == <<now, files, progress>>

Ticks == 0..MaxTime
Series == {"observations", "predictions", "hohonu"}
Chunk == Ticks \X Ticks
Files == Series \X Chunk
NoFetch == [series |-> "observations", window |-> <<0, 0>>, cached |-> FALSE, begun |-> 0]
Waiting == {"look", "request", "open", "write", "parse"}

FetchTypeOK ==
  /\ now \in Ticks /\ torn \subseteq DOMAIN cache /\ DOMAIN cache \subseteq Files
  /\ \A c \in DOMAIN cache : cache[c] \subseteq c[2][1]..c[2][2]
  /\ at \in [Fetchers -> Waiting \cup {"idle", "returned", "raised"}]
  /\ fetch \in [Fetchers -> [series : Series, window : Chunk, cached : BOOLEAN, begun : Ticks]]
  /\ chunk \in [Fetchers -> Nat] /\ attempts \in [Fetchers -> 0..MaxRetries]
  /\ payload \in [Fetchers -> SUBSET Ticks] /\ frame \in [Fetchers -> Seq(SUBSET Ticks)]

FetchInit ==
  /\ now = 0 /\ cache = [c \in {} |-> {}] /\ torn = {}
  /\ at = [f \in Fetchers |-> "idle"] /\ fetch = [f \in Fetchers |-> NoFetch]
  /\ chunk = [f \in Fetchers |-> 0] /\ attempts = [f \in Fetchers |-> 0]
  /\ payload = [f \in Fetchers |-> {}] /\ frame = [f \in Fetchers |-> <<>>]

Tick == now < MaxTime /\ now' = now + 1 /\ UNCHANGED <<files, progress>>
-----------------------------------------------------------------------------
(* The chunks of a window. *)
Smaller(a, b) == IF a < b THEN a ELSE b
Pieces(window, width) ==
  LET first == window[1]
      last == window[2]
  IN  [k \in 1..((last - first) \div width + 1) |->
         <<first + (k - 1) * width, Smaller(first + k * width - 1, last)>>]
\* A bug: a chunk starts on the day the one before ends.
SharedDays(window) ==
  LET pieces == Pieces(window, NoaaDays)
  IN  [k \in DOMAIN pieces |-> <<IF k = 1 THEN pieces[k][1] ELSE pieces[k][1] - 1, pieces[k][2]>>]
\* _iter_date_chunks: whole days, the last one included.
DateChunks(window) == Pieces(window, NoaaDays)
\* _iter_chunks: the next chunk starts right after the last tick of the one before.
TimeChunks(window) == Pieces(window, HohonuDays + 1)
ChunksOf(f) ==
  IF fetch[f].series = "hohonu" THEN TimeChunks(fetch[f].window) ELSE DateChunks(fetch[f].window)
Current(f) == ChunksOf(f)[chunk[f]]

CacheFile(f) == <<fetch[f].series, Current(f)>>
-----------------------------------------------------------------------------
(* A fetch. *)
Goto(f, s) == at' = [at EXCEPT ![f] = s]

Begin(f, series, window, cached) ==
  /\ at[f] = "idle" /\ window[1] <= window[2] /\ Goto(f, "look")
  /\ fetch' = [fetch EXCEPT ![f] =
       [series |-> series, window |-> window, cached |-> cached, begun |-> now]]
  /\ chunk' = [chunk EXCEPT ![f] = 1] /\ attempts' = [attempts EXCEPT ![f] = 0]
  /\ frame' = [frame EXCEPT ![f] = <<>>] /\ UNCHANGED <<now, files, payload>>
\* The fetcher takes the frame or the exception, or is killed.
Leave(f) ==
  /\ Goto(f, "idle") /\ fetch' = [fetch EXCEPT ![f] = NoFetch]
  /\ chunk' = [chunk EXCEPT ![f] = 0] /\ attempts' = [attempts EXCEPT ![f] = 0]
  /\ payload' = [payload EXCEPT ![f] = {}] /\ frame' = [frame EXCEPT ![f] = <<>>]
  /\ UNCHANGED <<now, files>>

\* HohonuAdapter without HOHONU_API_KEY.
NoCredentials(f) ==
  /\ at[f] = "look" /\ fetch[f].series = "hohonu" /\ chunk[f] = 1 /\ Goto(f, "raised")
  /\ UNCHANGED <<now, files, fetch, chunk, attempts, payload, frame>>

Hit(f) == fetch[f].cached /\ CacheFile(f) \in DOMAIN cache
ReadCache(f) ==
  /\ at[f] = "look" /\ Hit(f)
  /\ IF CacheFile(f) \in torn
     THEN Goto(f, "raised") /\ UNCHANGED payload
     ELSE Goto(f, "parse") /\ payload' = [payload EXCEPT ![f] = cache[CacheFile(f)]]
  /\ UNCHANGED <<now, files, fetch, chunk, attempts, frame>>
Miss(f) ==
  /\ at[f] = "look" /\ ~Hit(f) /\ Goto(f, "request")
  /\ UNCHANGED <<now, files, fetch, chunk, attempts, payload, frame>>

\* What a provider that answers has of the chunk.
Published(f) ==
  IF fetch[f].series = "predictions" THEN Current(f)[1]..Current(f)[2]
  ELSE Current(f)[1]..Smaller(Current(f)[2], now)
Keep(f, records) ==
  /\ attempts' = [attempts EXCEPT ![f] = 0]
  /\ payload' = [payload EXCEPT ![f] = records]
  /\ Goto(f, IF fetch[f].cached THEN "open" ELSE "parse")
  /\ UNCHANGED <<now, files, fetch, chunk, frame>>
NoaaAnswers(f) ==
  /\ at[f] = "request" /\ fetch[f].series # "hohonu"
  /\ \E records \in {Published(f), {}} : Keep(f, records)
HohonuAnswers(f) ==
  /\ at[f] = "request" /\ fetch[f].series = "hohonu"
  /\ \E records \in {Published(f), {}} : Keep(f, records)
\* A bug: the count starts again after the last attempt.
RefusedForever(f) ==
  /\ at[f] = "request" /\ Goto(f, "request")
  /\ attempts' = [attempts EXCEPT ![f] = (@ + 1) % (MaxRetries + 1)]
  /\ UNCHANGED <<now, files, fetch, chunk, payload, frame>>
\* A bug: one attempt more than max_retries.
OneMoreTry(f) ==
  /\ at[f] = "request" /\ attempts' = [attempts EXCEPT ![f] = @ + 1]
  /\ Goto(f, IF attempts[f] = MaxRetries THEN "raised" ELSE "request")
  /\ UNCHANGED <<now, files, fetch, chunk, payload, frame>>
\* HTTP 429, or an error that is retried; the last attempt's is raised.
Refused(f) ==
  /\ at[f] = "request"
  /\ attempts' = [attempts EXCEPT ![f] = @ + 1]
  /\ Goto(f, IF attempts[f] + 1 = MaxRetries THEN "raised" ELSE "request")
  /\ UNCHANGED <<now, files, fetch, chunk, payload, frame>>

\* path.write_text, before the payload is looked at.
OpenCache(f) ==
  /\ at[f] = "open" /\ Goto(f, "write")
  /\ torn' = torn \cup {CacheFile(f)}
  /\ cache' = [c \in DOMAIN cache \cup {CacheFile(f)} |-> IF c = CacheFile(f) THEN {} ELSE cache[c]]
  /\ UNCHANGED <<now, fetch, chunk, attempts, payload, frame>>
WriteCache(f) ==
  /\ at[f] = "write" /\ Goto(f, "parse")
  /\ torn' = torn \ {CacheFile(f)}
  /\ cache' = [cache EXCEPT ![CacheFile(f)] = payload[f]]
  /\ UNCHANGED <<now, fetch, chunk, attempts, payload, frame>>

\* canonicalize_payload, canonicalize_records: a payload without records raises.
Canonical(f) ==
  /\ at[f] = "parse"
  /\ IF payload[f] = {}
     THEN Goto(f, "raised") /\ UNCHANGED <<chunk, frame>>
     ELSE /\ frame' = [frame EXCEPT ![f] = Append(@, payload[f])]
          /\ IF chunk[f] = Len(ChunksOf(f))
             THEN Goto(f, "returned") /\ UNCHANGED chunk
             ELSE Goto(f, "look") /\ chunk' = [chunk EXCEPT ![f] = @ + 1]
  /\ payload' = [payload EXCEPT ![f] = {}]
  /\ UNCHANGED <<now, files, fetch, attempts>>

FetchStep(f) ==
  \/ NoCredentials(f) \/ ReadCache(f) \/ Miss(f) \/ NoaaAnswers(f) \/ HohonuAnswers(f)
  \/ Refused(f) \/ OpenCache(f) \/ WriteCache(f) \/ Canonical(f)
=============================================================================
