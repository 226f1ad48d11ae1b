------------------------- MODULE NoaaEvaluation_proofs -------------------------
(***************************************************************************)
(* Proofs about NoaaEvaluation, for every number of processes, every       *)
(* window, every width of a chunk and every list of windows of a run:      *)
(* types, what a fetch returns, and what the live report holds.            *)
(***************************************************************************)
EXTENDS NoaaEvaluation, Integers, SequenceTheorems, TLAPS
-----------------------------------------------------------------------------
(***************************************************************************)
(* The chunks of a window.                                                 *)
(***************************************************************************)
\* The first of the k-th pieces starts where the window does, every other one a whole
\* number of widths later, and still inside the window.
LEMMA PieceStarts ==
  ASSUME NEW length \in Nat, NEW width \in Nat \ {0}, NEW k \in 1..(length \div width + 1)
  PROVE  /\ length \div width \in Nat
         /\ (k - 1) * width \in 0..length /\ k * width = (k - 1) * width + width
<1> DEFINE d == length \div width
<1>1. d \in Nat /\ d * width <= length
  OBVIOUS
<1>2. k - 1 \in Nat /\ k - 1 <= d
  BY <1>1
<1>3. \A a, b, w \in Nat : a <= b => a * w <= b * w
  OBVIOUS
<1>4. (k - 1) * width \in Nat /\ k * width = (k - 1) * width + width
  OBVIOUS
<1>5. (k - 1) * width <= d * width
  BY <1>1, <1>2, <1>3
<1>6. d * width \in Nat
  BY <1>1
<1> QED BY <1>1, <1>4, <1>5, <1>6

\* Every tick of a window lies in one of the pieces.
LEMMA PieceFound ==
  ASSUME NEW length \in Nat, NEW width \in Nat \ {0}, NEW t \in 0..length
  PROVE  \E k \in 1..(length \div width + 1) : (k - 1) * width <= t /\ t <= k * width - 1
<1> DEFINE q == t \div width
           k == q + 1
<1>1. q \in Nat /\ q * width <= t /\ t < q * width + width
  OBVIOUS
<1>2. q <= length \div width
  OBVIOUS
<1>3. k \in 1..(length \div width + 1)
  BY <1>1, <1>2
<1>4. k - 1 = q /\ k * width = q * width + width
  BY <1>1
<1> HIDE DEF k
<1> WITNESS k \in 1..(length \div width + 1)
<1>5. q * width \in Nat
  BY <1>1
<1> HIDE DEF q
<1> QED BY <1>1, <1>4, <1>5

\* The pieces of a window are inside it, follow each other without touching, and
\* leave no tick out.
LEMMA PiecesFit ==
  ASSUME NEW window \in Chunk, window[1] <= window[2], NEW width \in Nat \ {0}
  PROVE  LET P == Pieces(window, width)
         IN  /\ P \in Seq(Chunk) /\ Len(P) >= 1
             /\ \A k \in 1..Len(P) : window[1] <= P[k][1] /\ P[k][2] <= window[2]
             /\ \A j, k \in 1..Len(P) : j < k => P[j][2] < P[k][1]
             /\ \A t \in window[1]..window[2] : \E k \in 1..Len(P) : t \in P[k][1]..P[k][2]
<1> DEFINE first == window[1]
           last == window[2]
           length == last - first
           n == length \div width + 1
           P == Pieces(window, width)
<1>1. first \in Nat /\ last \in Nat /\ length \in Nat /\ last <= MaxTime /\ MaxTime \in Nat
  BY FetchAssumption DEF Chunk, Ticks
<1>2. length \div width \in Nat /\ n \in Nat /\ n >= 1
  <2>1. 1 \in 1..n => length \div width \in Nat
    BY <1>1, PieceStarts
  <2> QED BY <1>1
<1>3. \A k \in 1..n : (k - 1) * width \in 0..length /\ k * width = (k - 1) * width + width
  BY <1>1, PieceStarts
<1>4. \A k \in 1..n : P[k] = <<first + (k - 1) * width, Smaller(first + k * width - 1, last)>>
  BY DEF Pieces
<1>5. P \in Seq(Chunk) /\ Len(P) = n
  <2>1. ASSUME NEW k \in 1..n
        PROVE  <<first + (k - 1) * width, Smaller(first + k * width - 1, last)>> \in Chunk
    BY <1>1, <1>3, FetchAssumption DEF Smaller, Chunk, Ticks
  <2>2. P = [k \in 1..n |-> <<first + (k - 1) * width, Smaller(first + k * width - 1, last)>>]
    BY DEF Pieces
  <2> HIDE DEF n, P, first, last, length
  <2>3. P \in [1..n -> Chunk] /\ DOMAIN P = 1..n
    BY <2>1, <2>2
  <2> QED BY <1>2, <2>3
<1>6. \A k \in 1..n : /\ P[k][1] = first + (k - 1) * width
                      /\ P[k][2] = Smaller(first + k * width - 1, last)
  BY <1>4
<1> HIDE DEF P, n
<1>7. ASSUME NEW k \in 1..n PROVE first <= P[k][1] /\ P[k][2] <= last
  BY <1>1, <1>3, <1>6 DEF Smaller
<1>8. ASSUME NEW j \in 1..n, NEW k \in 1..n, j < k PROVE P[j][2] < P[k][1]
  <2>1. j \in Nat /\ k - 1 \in Nat /\ j <= k - 1
    BY <1>2, <1>8
  <2>2. j * width \in Nat /\ (k - 1) * width \in Nat /\ j * width <= (k - 1) * width
    <3>1. \A a, b, w \in Nat : a <= b => a * w <= b * w
      OBVIOUS
    <3> QED BY <2>1, <3>1
  <2>3. P[j][2] = Smaller(first + j * width - 1, last) /\ P[k][1] = first + (k - 1) * width
    BY <1>6
  <2>4. \A a \in Int : Smaller(a - 1, last) < a
    BY <1>1 DEF Smaller
  <2>5. P[j][2] \in Int /\ P[j][2] < first + j * width /\ first + j * width <= P[k][1]
    BY <1>1, <2>2, <2>3, <2>4 DEF Smaller
  <2> QED BY <1>1, <2>2, <2>3, <2>5
<1>9. ASSUME NEW t \in first..last PROVE \E k \in 1..n : t \in P[k][1]..P[k][2]
  <2>1. t - first \in 0..length
    BY <1>1
  <2>2. PICK k \in 1..n : (k - 1) * width <= t - first /\ t - first <= k * width - 1
    BY <1>1, <2>1, PieceFound DEF n
  <2>3. t \in P[k][1]..P[k][2]
    BY <1>1, <1>3, <1>6, <2>2 DEF Smaller
  <2> QED BY <2>3
<1> QED BY <1>2, <1>5, <1>7, <1>8, <1>9 DEF P

\* The chunks a fetch cuts its window into.
Cut(what) == IF what.series = "hohonu" THEN TimeChunks(what.window) ELSE DateChunks(what.window)

Fetch == [series : Series, window : Chunk, cached : BOOLEAN, begun : Ticks]

\* Whichever adapter fetches, its chunks fit its window.
LEMMA CutFits ==
  ASSUME NEW what \in Fetch, what.window[1] <= what.window[2]
  PROVE  /\ Cut(what) \in Seq(Chunk) /\ Len(Cut(what)) >= 1
         /\ \A k \in 1..Len(Cut(what)) : /\ what.window[1] <= Cut(what)[k][1]
                                         /\ Cut(what)[k][2] <= what.window[2]
         /\ \A j, k \in 1..Len(Cut(what)) : j < k => Cut(what)[j][2] < Cut(what)[k][1]
         /\ \A t \in what.window[1]..what.window[2] :
              \E k \in 1..Len(Cut(what)) : t \in Cut(what)[k][1]..Cut(what)[k][2]
<1>1. what.window \in Chunk
  BY DEF Fetch
<1>2. NoaaDays \in Nat \ {0} /\ HohonuDays + 1 \in Nat \ {0}
  BY FetchAssumption
<1>3. Cut(what) \in {Pieces(what.window, NoaaDays), Pieces(what.window, HohonuDays + 1)}
  BY DEF Cut, TimeChunks, DateChunks
<1> QED BY <1>1, <1>2, <1>3, PiecesFit
-----------------------------------------------------------------------------
(***************************************************************************)
(* The inductive invariants.                                               *)
(***************************************************************************)
\* The ticks of the k-th chunk of a fetch.
Whole(what, k) == Cut(what)[k][1]..Cut(what)[k][2]

\* The ticks of its window that the provider had records of when it began.
Had(what) ==
  what.window[1]..(IF what.series = "predictions" THEN what.window[2]
                   ELSE Smaller(what.window[2], what.begun))

\* The records of the k-th chunk are all there were, or come from a noted file.
Answered(what, k, records, noted) ==
  /\ records \subseteq Whole(what, k)
  /\ \/ Had(what) \cap Whole(what, k) \subseteq records
     \/ what.cached /\ <<what.series, Cut(what)[k]>> \in noted

\* A cache file that is not noted has nothing or the whole chunk.
Kept(file, records, noted) ==
  /\ records \subseteq file[2][1]..file[2][2]
  /\ records = {} \/ records = file[2][1]..file[2][2] \/ file \in noted

\* A fetcher is at a chunk of its window, with attempts left, and has the records of
\* every chunk before; what it is about to write may be kept.
FetcherInv(f) ==
  at[f] \in Waiting =>
    /\ fetch[f].window[1] <= fetch[f].window[2] /\ fetch[f].begun <= now
    /\ chunk[f] \in 1..Len(Cut(fetch[f])) /\ attempts[f] < MaxRetries
    /\ Len(frame[f]) = chunk[f] - 1
    /\ \A k \in DOMAIN frame[f] : Answered(fetch[f], k, frame[f][k], early)
    /\ at[f] \in {"open", "write", "parse"} =>
         payload[f] = {} \/ Answered(fetch[f], chunk[f], payload[f], early)
    /\ at[f] \in {"open", "write"} =>
         Kept(<<fetch[f].series, Cut(fetch[f])[chunk[f]]>>, payload[f], early)

FetchInv ==
  /\ \A f \in Fetchers : FetcherInv(f)
  /\ \A c \in DOMAIN cache : Kept(c, cache[c], early)

\* A record says that it is mock when it is, and the live report is opened only by a run
\* that has no such record.
RunInv(r) ==
  /\ stage[r] = "new" => pair[r] = <<>> /\ results[r] = <<>>
  /\ stage[r] # "new" => mode[r] \in Modes
  /\ stage[r] = "fetch" => Len(pair[r]) <= 1
  /\ stage[r] = "merge" => Len(pair[r]) = 2
  /\ \A i \in DOMAIN results[r] : results[r][i].mock_used <=> results[r][i].mock
  /\ stage[r] = "write" =>
       /\ Kind(mode[r]) \in DOMAIN report
       /\ Kind(mode[r]) = "live" => ~AnyMock(r)

ReportInv == (\A r \in Runs : RunInv(r)) /\ LiveReportIsLive
-----------------------------------------------------------------------------
(***************************************************************************)
(* A fetch.                                                                *)
(***************************************************************************)
\* What was noted stays noted.
LEMMA NotesGrow ==
  ASSUME NEW noted, NEW more, noted \subseteq more
  PROVE  /\ \A what, k, records : Answered(what, k, records, noted) => Answered(what, k, records, more)
         /\ \A file, records : Kept(file, records, noted) => Kept(file, records, more)
  BY DEF Answered, Kept

\* Where a fetcher stands: its chunk, the chunk's file and its ticks.
LEMMA AtChunk ==
  ASSUME FetchTypeOK, NEW f \in Fetchers, FetcherInv(f), at[f] \in Waiting
  PROVE  /\ fetch[f] \in Fetch /\ Cut(fetch[f]) \in Seq(Chunk)
         /\ chunk[f] \in 1..Len(Cut(fetch[f]))
         /\ Current(f) = Cut(fetch[f])[chunk[f]] /\ Current(f) \in Chunk
         /\ CacheFile(f) = <<fetch[f].series, Current(f)>> /\ CacheFile(f) \in Files
         /\ CacheFile(f)[2] = Current(f) /\ Current(f)[1]..Current(f)[2] \subseteq Ticks
         /\ Whole(fetch[f], chunk[f]) = Current(f)[1]..Current(f)[2]
<1>1. fetch[f] \in Fetch /\ fetch[f].series \in Series
  BY DEF FetchTypeOK, Fetch
<1>2. fetch[f].window[1] <= fetch[f].window[2] /\ chunk[f] \in 1..Len(Cut(fetch[f]))
  BY DEF FetcherInv
<1>3. Cut(fetch[f]) \in Seq(Chunk)
  BY <1>1, <1>2, CutFits
<1>4. Current(f) = Cut(fetch[f])[chunk[f]]
  BY DEF Current, ChunksOf, Cut
<1>5. Current(f) \in Chunk
  BY <1>2, <1>3, <1>4
<1>6. Current(f)[1] \in Ticks /\ Current(f)[2] \in Ticks
  BY <1>5 DEF Chunk
<1>7. Current(f)[1]..Current(f)[2] \subseteq Ticks
  BY <1>6, FetchAssumption DEF Ticks
<1>8. CacheFile(f) = <<fetch[f].series, Current(f)>> /\ CacheFile(f) \in Files
  BY <1>1, <1>5 DEF CacheFile, Files
<1> QED BY <1>1, <1>2, <1>3, <1>4, <1>5, <1>7, <1>8 DEF Whole

\* The other fetchers stay as they are while one of them takes a step.
LEMMA OthersFetch ==
  ASSUME FetchInv, NEW f \in Fetchers, FetcherInv(f)',
         now \in Nat, now' \in Nat, now <= now', fetch \in [Fetchers -> Fetch],
         early \subseteq early', \A c \in DOMAIN cache' : Kept(c, cache'[c], early'),
         \A g \in Fetchers \ {f} :
           /\ at'[g] = at[g] /\ fetch'[g] = fetch[g] /\ chunk'[g] = chunk[g]
           /\ attempts'[g] = attempts[g] /\ payload'[g] = payload[g] /\ frame'[g] = frame[g]
  PROVE  FetchInv'
<1>1. ASSUME NEW g \in Fetchers \ {f} PROVE FetcherInv(g)'
  <2> SUFFICES ASSUME at[g] \in Waiting
               PROVE  FetcherInv(g)'
    BY DEF FetcherInv, Waiting
  <2>1. FetcherInv(g)
    BY DEF FetchInv
  <2>2. fetch[g].begun <= now'
    <3>1. fetch[g].begun \in Nat /\ fetch[g].begun <= now
      BY <2>1, FetchAssumption DEF Fetch, Ticks, FetcherInv
    <3> QED BY <3>1
  <2>3. \A k \in DOMAIN frame[g] : Answered(fetch[g], k, frame[g][k], early')
    BY <2>1, NotesGrow DEF FetcherInv
  <2>4. at[g] \in {"open", "write", "parse"} =>
          payload[g] = {} \/ Answered(fetch[g], chunk[g], payload[g], early')
    BY <2>1, NotesGrow DEF FetcherInv
  <2>5. at[g] \in {"open", "write"} =>
          Kept(<<fetch[g].series, Cut(fetch[g])[chunk[g]]>>, payload[g], early')
    BY <2>1, NotesGrow DEF FetcherInv
  <2> QED BY <2>1, <2>2, <2>3, <2>4, <2>5 DEF FetcherInv
<1> QED BY <1>1 DEF FetchInv

\* A step that leaves the clock, the files and the fetch's arguments alone.
LEMMA QuietStep ==
  ASSUME FetchTypeOK, FetchInv, NEW f \in Fetchers, early \subseteq early',
         UNCHANGED <<now, files, fetch>>, FetcherInv(f)',
         \A g \in Fetchers \ {f} : /\ at'[g] = at[g] /\ chunk'[g] = chunk[g]
                                   /\ attempts'[g] = attempts[g] /\ payload'[g] = payload[g]
                                   /\ frame'[g] = frame[g]
  PROVE  FetchInv'
<1>1. now \in Nat /\ now' = now /\ cache' = cache /\ fetch' = fetch
  BY FetchAssumption DEF FetchTypeOK, Ticks, files
<1>2. fetch \in [Fetchers -> Fetch]
  BY DEF FetchTypeOK, Fetch
<1>3. \A c \in DOMAIN cache' : Kept(c, cache'[c], early')
  BY <1>1, NotesGrow DEF FetchInv
<1> QED BY <1>1, <1>2, <1>3, OthersFetch

\* A Hohonu fetch without a key.
LEMMA NoCredentialsStep ==
  ASSUME FetchTypeOK, FetchInv, NEW f \in Fetchers, NoCredentials(f), early \subseteq early'
  PROVE  FetchTypeOK' /\ FetchInv'
<1>1. FetchTypeOK'
  BY DEF FetchTypeOK, NoCredentials, Goto, files
<1>2. at'[f] \notin Waiting
  BY DEF FetchTypeOK, NoCredentials, Goto, Waiting
<1>3. FetcherInv(f)'
  BY <1>2 DEF FetcherInv, Waiting
<1>4. \A g \in Fetchers \ {f} : at'[g] = at[g]
  BY DEF FetchTypeOK, NoCredentials, Goto
<1> QED BY <1>1, <1>3, <1>4, QuietStep DEF NoCredentials

\* A chunk that is not in the cache.
LEMMA MissStep ==
  ASSUME FetchTypeOK, FetchInv, NEW f \in Fetchers, Miss(f), early \subseteq early'
  PROVE  FetchTypeOK' /\ FetchInv'
<1>1. FetchTypeOK'
  BY DEF FetchTypeOK, Miss, Goto, files, Waiting
<1>2. at'[f] = "request" /\ at[f] \in Waiting /\ FetcherInv(f)
  BY DEF FetchTypeOK, Miss, Goto, Waiting, FetchInv
<1>3. \A k \in DOMAIN frame[f] : Answered(fetch[f], k, frame[f][k], early')
  BY <1>2, NotesGrow DEF FetcherInv
<1>4. FetcherInv(f)'
  BY <1>2, <1>3 DEF FetcherInv, Miss
<1>5. \A g \in Fetchers \ {f} : at'[g] = at[g]
  BY DEF FetchTypeOK, Miss, Goto
<1> QED BY <1>1, <1>4, <1>5, QuietStep DEF Miss

\* A chunk from the cache: its file has nothing, everything or is noted.
LEMMA ReadCacheStep ==
  ASSUME FetchTypeOK, FetchInv, NEW f \in Fetchers, ReadCache(f), early \subseteq early'
  PROVE  FetchTypeOK' /\ FetchInv'
<1> DEFINE file == CacheFile(f)
<1>1. at[f] \in Waiting /\ FetcherInv(f) /\ file \in DOMAIN cache /\ fetch[f].cached
  BY DEF ReadCache, Hit, Waiting, FetchInv
<1>2. cache[file] \subseteq Whole(fetch[f], chunk[f]) /\ cache[file] \subseteq Ticks
  BY <1>1, AtChunk DEF FetchTypeOK
<1> HIDE DEF file
<1>3. FetchTypeOK'
  <2>1. at' \in [Fetchers -> Waiting \cup {"idle", "returned", "raised"}]
    BY DEF FetchTypeOK, ReadCache, Goto, Waiting
  <2>2. payload' \in [Fetchers -> SUBSET Ticks]
    BY <1>2 DEF FetchTypeOK, ReadCache, file
  <2> QED BY <2>1, <2>2 DEF FetchTypeOK, ReadCache, files
<1>4. \A g \in Fetchers \ {f} : at'[g] = at[g] /\ payload'[g] = payload[g]
  BY DEF FetchTypeOK, ReadCache, Goto
<1>5. FetcherInv(f)'
  <2>1. CASE at'[f] = "raised"
    BY <2>1 DEF FetcherInv, Waiting
  <2>2. CASE at'[f] # "raised"
    <3>1. at'[f] = "parse" /\ payload'[f] = cache[file]
      BY <2>2 DEF FetchTypeOK, ReadCache, Goto, file
    <3>2. Kept(file, cache[file], early') /\ Kept(file, cache[file], early)
      BY <1>1, NotesGrow DEF FetchInv
    <3>3. /\ file = <<fetch[f].series, Cut(fetch[f])[chunk[f]]>>
          /\ Whole(fetch[f], chunk[f]) = file[2][1]..file[2][2]
      BY <1>1, AtChunk DEF file
    <3>4. cache[file] = {} \/ Answered(fetch[f], chunk[f], cache[file], early')
      BY <1>1, <1>2, <3>2, <3>3 DEF Answered, Kept
    <3>5. \A k \in DOMAIN frame[f] : Answered(fetch[f], k, frame[f][k], early')
      BY <1>1, NotesGrow DEF FetcherInv
    <3> QED BY <1>1, <3>1, <3>4, <3>5 DEF FetcherInv, ReadCache
  <2> QED BY <2>1, <2>2
<1> QED BY <1>3, <1>4, <1>5, QuietStep DEF ReadCache

\* A provider that answers gives what there is up to now, or nothing; a file of
\* observations asked for too early is noted before it is opened.
LEMMA AnswersStep ==
  ASSUME FetchTypeOK, FetchInv, NEW f \in Fetchers, NEW records \in {Published(f), {}},
         at[f] = "request", Keep(f, records), early \subseteq early',
         (fetch[f].cached /\ fetch[f].series # "predictions" /\ now < Current(f)[2]) =>
           CacheFile(f) \in early'
  PROVE  FetchTypeOK' /\ FetchInv'
<1>1. at[f] \in Waiting /\ FetcherInv(f)
  BY DEF Waiting, FetchInv
<1> DEFINE what == fetch[f]
           first == Current(f)[1]
           last == Current(f)[2]
<1>2. /\ what \in Fetch /\ Whole(what, chunk[f]) = first..last /\ first..last \subseteq Ticks
      /\ CacheFile(f) = <<what.series, Cut(what)[chunk[f]]>> /\ CacheFile(f)[2] = Current(f)
  BY <1>1, AtChunk
<1>3. /\ first \in Nat /\ last \in Nat /\ now \in Nat /\ what.begun \in Nat /\ what.begun <= now
      /\ what.window[1] \in Nat /\ what.window[2] \in Nat
  <2>1. Ticks \subseteq Nat /\ now \in Ticks
    BY FetchAssumption DEF FetchTypeOK, Ticks
  <2>2. Current(f) \in Chunk /\ what.window \in Chunk /\ what.begun \in Ticks
    BY <1>1, <1>2, AtChunk DEF Fetch
  <2>3. what.begun <= now
    BY <1>1 DEF FetcherInv
  <2> HIDE DEF what
  <2> QED BY <2>1, <2>2, <2>3 DEF Chunk
<1>4. records \subseteq first..last
  BY <1>3 DEF Published, Smaller
<1>5. records = {} \/ Answered(what, chunk[f], records, early')
  <2>1. SUFFICES ASSUME records = Published(f)
                 PROVE  Had(what) \cap (first..last) \subseteq records
    BY <1>2, <1>4 DEF Answered
  <2>2. CASE what.series = "predictions"
    BY <2>1, <2>2 DEF Published
  <2>3. CASE what.series # "predictions"
    <3>1. records = first..Smaller(last, now)
      BY <2>1, <2>3 DEF Published
    <3>2. Had(what) = what.window[1]..Smaller(what.window[2], what.begun)
      BY <2>3 DEF Had
    <3> HIDE DEF what, first, last
    <3> QED BY <1>3, <3>1, <3>2 DEF Smaller
  <2> QED BY <2>2, <2>3
<1>6. what.cached => Kept(CacheFile(f), records, early')
  <2>1. SUFFICES ASSUME what.cached, records # first..last, records # {}
                 PROVE  CacheFile(f) \in early'
    BY <1>2, <1>4 DEF Kept
  <2>2. what.series # "predictions" /\ records = first..Smaller(last, now)
    BY <2>1 DEF Published
  <2>3. now < last
    <3> HIDE DEF first, last
    <3> QED BY <1>3, <2>1, <2>2 DEF Smaller
  <2> QED BY <2>1, <2>2, <2>3
<1>7. FetchTypeOK'
  <2>1. records \subseteq Ticks
    BY <1>2, <1>4
  <2>2. payload' \in [Fetchers -> SUBSET Ticks]
    BY <2>1 DEF FetchTypeOK, Keep
  <2>3. at' \in [Fetchers -> Waiting \cup {"idle", "returned", "raised"}]
    BY DEF FetchTypeOK, Keep, Goto, Waiting
  <2>4. attempts' \in [Fetchers -> 0..MaxRetries]
    BY FetchAssumption DEF FetchTypeOK, Keep
  <2> QED BY <2>2, <2>3, <2>4 DEF FetchTypeOK, Keep, files
<1>8. \A g \in Fetchers \ {f} : /\ at'[g] = at[g] /\ payload'[g] = payload[g]
                                /\ attempts'[g] = attempts[g]
  BY DEF FetchTypeOK, Keep, Goto
<1>9. FetcherInv(f)'
  <2>1. /\ at'[f] = (IF what.cached THEN "open" ELSE "parse")
        /\ payload'[f] = records /\ attempts'[f] = 0
    BY DEF FetchTypeOK, Keep, Goto
  <2>2. 0 < MaxRetries
    BY FetchAssumption
  <2>3. \A k \in DOMAIN frame[f] : Answered(what, k, frame[f][k], early')
    BY <1>1, NotesGrow DEF FetcherInv
  <2>4. at'[f] \in {"open", "write"} => Kept(<<what.series, Cut(what)[chunk[f]]>>, records, early')
    BY <1>2, <1>6, <2>1
  <2> QED BY <1>1, <1>5, <2>1, <2>2, <2>3, <2>4 DEF FetcherInv, Keep
<1> QED BY <1>7, <1>8, <1>9, QuietStep DEF Keep

\* An attempt that failed: another one, or the end.
LEMMA RefusedStep ==
  ASSUME FetchTypeOK, FetchInv, NEW f \in Fetchers, Refused(f), early \subseteq early'
  PROVE  FetchTypeOK' /\ FetchInv'
<1>1. at[f] \in Waiting /\ FetcherInv(f)
  BY DEF Refused, Waiting, FetchInv
<1>2. attempts[f] \in Nat /\ MaxRetries \in Nat /\ attempts[f] < MaxRetries
  BY <1>1, FetchAssumption DEF FetcherInv, FetchTypeOK
<1>3. attempts'[f] = attempts[f] + 1 /\ attempts[f] + 1 \in 0..MaxRetries
  BY <1>2 DEF Refused, FetchTypeOK
<1>4. FetchTypeOK'
  <2>1. at' \in [Fetchers -> Waiting \cup {"idle", "returned", "raised"}]
    BY DEF FetchTypeOK, Refused, Goto, Waiting
  <2>2. attempts' \in [Fetchers -> 0..MaxRetries]
    BY <1>3 DEF FetchTypeOK, Refused
  <2> QED BY <2>1, <2>2 DEF FetchTypeOK, Refused, files
<1>5. \A g \in Fetchers \ {f} : at'[g] = at[g] /\ attempts'[g] = attempts[g]
  BY DEF FetchTypeOK, Refused, Goto
<1>6. FetcherInv(f)'
  <2>1. CASE attempts[f] + 1 = MaxRetries
    BY <2>1 DEF FetcherInv, Waiting, Refused, Goto, FetchTypeOK
  <2>2. CASE attempts[f] + 1 # MaxRetries
    <3>1. at'[f] = "request" /\ attempts'[f] < MaxRetries
      BY <1>2, <1>3, <2>2 DEF Refused, Goto, FetchTypeOK
    <3>2. \A k \in DOMAIN frame[f] : Answered(fetch[f], k, frame[f][k], early')
      BY <1>1, NotesGrow DEF FetcherInv
    <3> QED BY <1>1, <3>1, <3>2 DEF FetcherInv, Refused
  <2> QED BY <2>1, <2>2
<1> QED BY <1>4, <1>5, <1>6, QuietStep DEF Refused

\* Opening a file empties it.
LEMMA OpenCacheStep ==
  ASSUME FetchTypeOK, FetchInv, NEW f \in Fetchers, OpenCache(f), early \subseteq early'
  PROVE  FetchTypeOK' /\ FetchInv'
<1> DEFINE file == CacheFile(f)
<1>1. at[f] \in Waiting /\ at[f] = "open" /\ FetcherInv(f)
  BY DEF OpenCache, Waiting, FetchInv
<1>2. file \in Files
  BY <1>1, AtChunk
<1> HIDE DEF file
<1>3. cache' = [c \in DOMAIN cache \cup {file} |-> IF c = file THEN {} ELSE cache[c]]
      /\ torn' = torn \cup {file}
  BY DEF OpenCache, file
<1>4. FetchTypeOK'
  <2>1. at' \in [Fetchers -> Waiting \cup {"idle", "returned", "raised"}]
    BY DEF FetchTypeOK, OpenCache, Goto, Waiting
  <2>2. /\ torn' \subseteq DOMAIN cache' /\ DOMAIN cache' \subseteq Files
        /\ \A c \in DOMAIN cache' : cache'[c] \subseteq c[2][1]..c[2][2]
    BY <1>2, <1>3 DEF FetchTypeOK
  <2> QED BY <2>1, <2>2 DEF FetchTypeOK, OpenCache
<1>5. \A c \in DOMAIN cache' : Kept(c, cache'[c], early')
  <2> TAKE c \in DOMAIN cache'
  <2>1. CASE c = file
    BY <1>3, <2>1 DEF Kept
  <2>2. CASE c # file
    BY <1>3, <2>2, NotesGrow DEF FetchInv
  <2> QED BY <2>1, <2>2
<1>6. \A g \in Fetchers \ {f} : at'[g] = at[g]
  BY DEF FetchTypeOK, OpenCache, Goto
<1>7. FetcherInv(f)'
  <2>1. at'[f] = "write"
    BY DEF FetchTypeOK, OpenCache, Goto
  <2>2. \A k \in DOMAIN frame[f] : Answered(fetch[f], k, frame[f][k], early')
    BY <1>1, NotesGrow DEF FetcherInv
  <2>3. payload[f] = {} \/ Answered(fetch[f], chunk[f], payload[f], early')
    BY <1>1, NotesGrow DEF FetcherInv
  <2>4. Kept(<<fetch[f].series, Cut(fetch[f])[chunk[f]]>>, payload[f], early')
    BY <1>1, NotesGrow DEF FetcherInv
  <2> QED BY <1>1, <2>1, <2>2, <2>3, <2>4 DEF FetcherInv, OpenCache
<1>8. now \in Nat /\ fetch \in [Fetchers -> Fetch]
  BY FetchAssumption DEF FetchTypeOK, Ticks, Fetch
<1> QED BY <1>4, <1>5, <1>6, <1>7, <1>8, OthersFetch DEF OpenCache

\* The payload is written into the file, and may be kept there.
LEMMA WriteCacheStep ==
  ASSUME FetchTypeOK, FetchInv, NEW f \in Fetchers, WriteCache(f), early \subseteq early'
  PROVE  FetchTypeOK' /\ FetchInv'
<1> DEFINE file == CacheFile(f)
<1>1. at[f] \in Waiting /\ at[f] = "write" /\ FetcherInv(f)
  BY DEF WriteCache, Waiting, FetchInv
<1>2. file = <<fetch[f].series, Cut(fetch[f])[chunk[f]]>>
  BY <1>1, AtChunk
<1> HIDE DEF file
<1>3. cache' = [cache EXCEPT ![file] = payload[f]] /\ torn' = torn \ {file}
  BY DEF WriteCache, file
<1>4. Kept(file, payload[f], early) /\ Kept(file, payload[f], early')
  BY <1>1, <1>2, NotesGrow DEF FetcherInv
<1>5. FetchTypeOK'
  <2>1. at' \in [Fetchers -> Waiting \cup {"idle", "returned", "raised"}]
    BY DEF FetchTypeOK, WriteCache, Goto, Waiting
  <2>2. payload[f] \subseteq file[2][1]..file[2][2]
    BY <1>4 DEF Kept
  <2>3. torn' \subseteq DOMAIN cache' /\ DOMAIN cache' \subseteq Files
    BY <1>3 DEF FetchTypeOK
  <2>4. \A c \in DOMAIN cache' : cache'[c] \subseteq c[2][1]..c[2][2]
    BY <1>3, <2>2 DEF FetchTypeOK
  <2> QED BY <2>1, <2>3, <2>4 DEF FetchTypeOK, WriteCache
<1>6. \A c \in DOMAIN cache' : Kept(c, cache'[c], early')
  <2> TAKE c \in DOMAIN cache'
  <2>1. CASE c = file
    BY <1>3, <1>4, <2>1
  <2>2. CASE c # file
    BY <1>3, <2>2, NotesGrow DEF FetchInv
  <2> QED BY <2>1, <2>2
<1>7. \A g \in Fetchers \ {f} : at'[g] = at[g]
  BY DEF FetchTypeOK, WriteCache, Goto
<1>8. FetcherInv(f)'
  <2>1. at'[f] = "parse"
    BY DEF FetchTypeOK, WriteCache, Goto
  <2>2. \A k \in DOMAIN frame[f] : Answered(fetch[f], k, frame[f][k], early')
    BY <1>1, NotesGrow DEF FetcherInv
  <2>3. payload[f] = {} \/ Answered(fetch[f], chunk[f], payload[f], early')
    BY <1>1, NotesGrow DEF FetcherInv
  <2> QED BY <1>1, <2>1, <2>2, <2>3 DEF FetcherInv, WriteCache
<1>9. now \in Nat /\ fetch \in [Fetchers -> Fetch]
  BY FetchAssumption DEF FetchTypeOK, Ticks, Fetch
<1> QED BY <1>5, <1>6, <1>7, <1>8, <1>9, OthersFetch DEF WriteCache

\* A payload with records becomes the last of the frame, which then has every chunk
\* up to the one at hand.
LEMMA FrameGrows ==
  ASSUME FetchTypeOK, FetchInv, NEW f \in Fetchers, Canonical(f), payload[f] # {}
  PROVE  /\ frame' \in [Fetchers -> Seq(SUBSET Ticks)]
         /\ Len(frame'[f]) = chunk[f] /\ DOMAIN frame'[f] = 1..chunk[f]
         /\ \A k \in 1..chunk[f] : Answered(fetch[f], k, frame'[f][k], early)
<1>1. at[f] = "parse" /\ FetcherInv(f) /\ at[f] \in Waiting
  BY DEF Canonical, FetchInv, Waiting
<1>2. frame[f] \in Seq(SUBSET Ticks) /\ payload[f] \in SUBSET Ticks /\ chunk[f] \in Nat
  BY DEF FetchTypeOK
<1>3. frame'[f] = Append(frame[f], payload[f])
      /\ frame' = [frame EXCEPT ![f] = Append(frame[f], payload[f])]
  BY DEF Canonical, FetchTypeOK
<1>4. Len(frame[f]) = chunk[f] - 1
  BY <1>1 DEF FetcherInv
<1>5. /\ frame'[f] \in Seq(SUBSET Ticks) /\ Len(frame'[f]) = chunk[f]
      /\ \A k \in 1..(chunk[f] - 1) : frame'[f][k] = frame[f][k]
      /\ frame'[f][chunk[f]] = payload[f]
  BY <1>2, <1>3, <1>4, AppendProperties
<1>6. \A k \in 1..(chunk[f] - 1) : Answered(fetch[f], k, frame[f][k], early)
  <2>1. DOMAIN frame[f] = 1..(chunk[f] - 1)
    BY <1>2, <1>4
  <2> QED BY <1>1, <2>1 DEF FetcherInv
<1>7. Answered(fetch[f], chunk[f], payload[f], early)
  BY <1>1 DEF FetcherInv
<1>8. ASSUME NEW k \in 1..chunk[f] PROVE Answered(fetch[f], k, frame'[f][k], early)
  <2>1. CASE k = chunk[f]
    BY <1>5, <1>7, <2>1
  <2>2. CASE k # chunk[f]
    <3>1. k \in 1..(chunk[f] - 1)
      BY <1>2, <2>2
    <3> QED BY <1>5, <1>6, <3>1
  <2> QED BY <2>1, <2>2
<1>9. frame' \in [Fetchers -> Seq(SUBSET Ticks)]
  BY <1>3, <1>5 DEF FetchTypeOK
<1> QED BY <1>2, <1>5, <1>8, <1>9

\* The next chunk, the end of the window, or a payload without records.
LEMMA CanonicalStep ==
  ASSUME FetchTypeOK, FetchInv, NEW f \in Fetchers, Canonical(f), early \subseteq early'
  PROVE  FetchTypeOK' /\ FetchInv'
<1>1. at[f] \in Waiting /\ at[f] = "parse" /\ FetcherInv(f)
  BY DEF Canonical, Waiting, FetchInv
<1>2. chunk[f] \in 1..Len(Cut(fetch[f])) /\ Len(Cut(fetch[f])) \in Nat
  BY <1>1, AtChunk
<1>3. FetchTypeOK'
  <2>1. at' \in [Fetchers -> Waiting \cup {"idle", "returned", "raised"}]
    BY DEF FetchTypeOK, Canonical, Goto, Waiting
  <2>2. chunk' \in [Fetchers -> Nat] /\ payload' \in [Fetchers -> SUBSET Ticks]
    BY DEF FetchTypeOK, Canonical
  <2>3. frame' \in [Fetchers -> Seq(SUBSET Ticks)]
    <3>1. CASE payload[f] = {}
      BY <3>1 DEF FetchTypeOK, Canonical
    <3>2. CASE payload[f] # {}
      BY <3>2, FrameGrows
    <3> QED BY <3>1, <3>2
  <2> QED BY <2>1, <2>2, <2>3 DEF FetchTypeOK, Canonical, files
<1>4. \A g \in Fetchers \ {f} : /\ at'[g] = at[g] /\ payload'[g] = payload[g]
                                /\ chunk'[g] = chunk[g] /\ frame'[g] = frame[g]
  BY DEF FetchTypeOK, Canonical, Goto
<1>5. FetcherInv(f)'
  <2>1. CASE payload[f] = {} \/ chunk[f] = Len(ChunksOf(f))
    <3>1. at'[f] \in {"raised", "returned"}
      BY <2>1 DEF Canonical, Goto, FetchTypeOK
    <3> QED BY <3>1 DEF FetcherInv, Waiting
  <2>2. CASE payload[f] # {} /\ chunk[f] # Len(ChunksOf(f))
    <3>1. at'[f] = "look" /\ chunk'[f] = chunk[f] + 1
      BY <2>2 DEF Canonical, Goto, FetchTypeOK
    <3>2. chunk[f] + 1 \in 1..Len(Cut(fetch[f]))
      BY <1>2, <2>2 DEF ChunksOf, Cut
    <3>3. Len(frame'[f]) = chunk'[f] - 1
      BY <1>2, <2>2, <3>1, FrameGrows
    <3>4. \A k \in DOMAIN frame'[f] : Answered(fetch[f], k, frame'[f][k], early')
      BY <2>2, FrameGrows, NotesGrow
    <3> QED BY <1>1, <3>1, <3>2, <3>3, <3>4 DEF FetcherInv, Canonical
  <2> QED BY <2>1, <2>2
<1> QED BY <1>3, <1>4, <1>5, QuietStep DEF Canonical

\* A fetch begins.
LEMMA BeginStep ==
  ASSUME FetchTypeOK, FetchInv, NEW f \in Fetchers, NEW series \in Series, NEW window \in Chunk,
         NEW cached \in BOOLEAN, Begin(f, series, window, cached), early' = early
  PROVE  FetchTypeOK' /\ FetchInv'
<1> DEFINE what == [series |-> series, window |-> window, cached |-> cached, begun |-> now]
<1>1. what \in Fetch /\ now \in Nat
  BY FetchAssumption DEF FetchTypeOK, Fetch, Ticks
<1>2. window[1] <= window[2] /\ fetch' = [fetch EXCEPT ![f] = what]
  BY DEF Begin
<1>3. FetchTypeOK'
  <2>1. at' \in [Fetchers -> Waiting \cup {"idle", "returned", "raised"}]
    BY DEF FetchTypeOK, Begin, Goto, Waiting
  <2>2. fetch' \in [Fetchers -> [series : Series, window : Chunk, cached : BOOLEAN, begun : Ticks]]
    <3> HIDE DEF what
    <3> QED BY <1>1, <1>2 DEF FetchTypeOK, Fetch
  <2>3. /\ chunk' \in [Fetchers -> Nat] /\ attempts' \in [Fetchers -> 0..MaxRetries]
        /\ frame' \in [Fetchers -> Seq(SUBSET Ticks)]
    BY FetchAssumption DEF FetchTypeOK, Begin
  <2> QED BY <2>1, <2>2, <2>3 DEF FetchTypeOK, Begin, files
<1>4. \A g \in Fetchers \ {f} : /\ at'[g] = at[g] /\ fetch'[g] = fetch[g] /\ chunk'[g] = chunk[g]
                                /\ attempts'[g] = attempts[g] /\ frame'[g] = frame[g]
  BY DEF FetchTypeOK, Begin, Goto
<1>5. /\ fetch'[f] = what /\ at'[f] = "look" /\ chunk'[f] = 1 /\ attempts'[f] = 0 /\ frame'[f] = <<>>
  BY DEF FetchTypeOK, Begin, Goto
<1>6. /\ what.window = window /\ what.begun = now
  OBVIOUS
<1> HIDE DEF what
<1>7. FetcherInv(f)'
  <2>1. Cut(what) \in Seq(Chunk) /\ Len(Cut(what)) >= 1
    BY <1>1, <1>2, <1>6, CutFits
  <2>2. chunk'[f] \in 1..Len(Cut(fetch'[f])) /\ attempts'[f] < MaxRetries
    BY <1>5, <2>1, FetchAssumption
  <2>3. Len(frame'[f]) = chunk'[f] - 1 /\ DOMAIN frame'[f] = {}
    BY <1>5
  <2>4. now' = now /\ now <= now
    BY <1>1 DEF Begin
  <2> QED BY <1>2, <1>5, <1>6, <2>2, <2>3, <2>4 DEF FetcherInv
<1>8. fetch \in [Fetchers -> Fetch] /\ now' = now /\ now <= now'
  BY <1>1 DEF FetchTypeOK, Fetch, Begin
<1>9. \A c \in DOMAIN cache' : Kept(c, cache'[c], early')
  BY DEF Begin, files, FetchInv
<1> QED BY <1>1, <1>3, <1>4, <1>7, <1>8, <1>9, OthersFetch DEF Begin

\* A fetcher takes its frame or its exception, or is killed.
LEMMA LeaveStep ==
  ASSUME FetchTypeOK, FetchInv, NEW f \in Fetchers, Leave(f), early' = early
  PROVE  FetchTypeOK' /\ FetchInv'
<1>1. NoFetch \in Fetch
  BY FetchAssumption DEF NoFetch, Fetch, Series, Chunk, Ticks
<1>2. FetchTypeOK'
  <2>1. at' \in [Fetchers -> Waiting \cup {"idle", "returned", "raised"}]
    BY DEF FetchTypeOK, Leave, Goto
  <2>2. fetch' \in [Fetchers -> [series : Series, window : Chunk, cached : BOOLEAN, begun : Ticks]]
    BY <1>1 DEF FetchTypeOK, Leave, Fetch
  <2>3. /\ chunk' \in [Fetchers -> Nat] /\ attempts' \in [Fetchers -> 0..MaxRetries]
        /\ payload' \in [Fetchers -> SUBSET Ticks] /\ frame' \in [Fetchers -> Seq(SUBSET Ticks)]
    BY FetchAssumption DEF FetchTypeOK, Leave
  <2> QED BY <2>1, <2>2, <2>3 DEF FetchTypeOK, Leave, files
<1>3. \A g \in Fetchers \ {f} : /\ at'[g] = at[g] /\ fetch'[g] = fetch[g] /\ chunk'[g] = chunk[g]
                                /\ attempts'[g] = attempts[g] /\ payload'[g] = payload[g]
                                /\ frame'[g] = frame[g]
  BY DEF FetchTypeOK, Leave, Goto
<1>4. FetcherInv(f)'
  BY DEF FetcherInv, Leave, Goto, FetchTypeOK, Waiting
<1>5. fetch \in [Fetchers -> Fetch] /\ now \in Nat /\ now' = now /\ now <= now'
  BY FetchAssumption DEF FetchTypeOK, Fetch, Leave, Ticks
<1>6. \A c \in DOMAIN cache' : Kept(c, cache'[c], early')
  BY DEF Leave, files, FetchInv
<1> QED BY <1>2, <1>3, <1>4, <1>5, <1>6, OthersFetch

\* The clock.
LEMMA TickStep ==
  ASSUME FetchTypeOK, FetchInv, Tick, early' = early
  PROVE  FetchTypeOK' /\ FetchInv'
<1>1. now \in Nat /\ now' = now + 1 /\ now' \in Ticks
  BY FetchAssumption DEF FetchTypeOK, Ticks, Tick
<1>2. FetchTypeOK'
  BY <1>1 DEF FetchTypeOK, Tick, files, progress
<1>3. ASSUME NEW f \in Fetchers PROVE FetcherInv(f)'
  <2>1. FetcherInv(f)
    BY DEF FetchInv
  <2>2. fetch[f].begun \in Nat
    BY FetchAssumption DEF FetchTypeOK, Ticks
  <2>3. at[f] \in Waiting => fetch[f].begun <= now'
    BY <1>1, <2>1, <2>2 DEF FetcherInv
  <2> QED BY <2>1, <2>3 DEF FetcherInv, Tick, progress
<1> QED BY <1>2, <1>3 DEF FetchInv, Tick, files

\* A step of an adapter, with the note it may leave.
LEMMA AdapterStep ==
  ASSUME FetchTypeOK, FetchInv, early \subseteq Files, NEW f \in Fetchers, Adapter(f)
  PROVE  FetchTypeOK' /\ FetchInv' /\ early' \subseteq Files
<1> DEFINE note == /\ at[f] = "request" /\ at'[f] = "open" /\ fetch[f].series # "predictions"
                   /\ now < Current(f)[2]
<1>1. early' = IF note THEN early \cup {CacheFile(f)} ELSE early
  BY DEF Adapter
<1>2. early \subseteq early'
  BY <1>1
<1>3. early' \subseteq Files
  <2>1. CASE note
    <3>1. at[f] \in Waiting /\ FetcherInv(f)
      BY <2>1 DEF Waiting, FetchInv
    <3>2. CacheFile(f) \in Files
      BY <3>1, AtChunk
    <3> QED BY <1>1, <2>1, <3>2
  <2>2. CASE ~note
    BY <1>1, <2>2
  <2> QED BY <2>1, <2>2
<1>4. CASE NoCredentials(f)
  BY <1>2, <1>3, <1>4, NoCredentialsStep
<1>5. CASE ReadCache(f)
  BY <1>2, <1>3, <1>5, ReadCacheStep
<1>6. CASE Miss(f)
  BY <1>2, <1>3, <1>6, MissStep
<1>7. CASE NoaaAnswers(f) \/ HohonuAnswers(f)
  <2>1. at[f] = "request"
    BY <1>7 DEF NoaaAnswers, HohonuAnswers
  <2>2. PICK records \in {Published(f), {}} : Keep(f, records)
    BY <1>7 DEF NoaaAnswers, HohonuAnswers
  <2>3. fetch[f].cached => at'[f] = "open"
    BY <2>2 DEF Keep, Goto, FetchTypeOK
  <2>4. (fetch[f].cached /\ fetch[f].series # "predictions" /\ now < Current(f)[2]) =>
          CacheFile(f) \in early'
    BY <1>1, <2>1, <2>3
  <2> QED BY <1>2, <1>3, <2>1, <2>2, <2>4, AnswersStep
<1>8. CASE Refused(f)
  BY <1>2, <1>3, <1>8, RefusedStep
<1>9. CASE OpenCache(f)
  BY <1>2, <1>3, <1>9, OpenCacheStep
<1>10. CASE WriteCache(f)
  BY <1>2, <1>3, <1>10, WriteCacheStep
<1>11. CASE Canonical(f)
  BY <1>2, <1>3, <1>11, CanonicalStep
<1> QED BY <1>4, <1>5, <1>6, <1>7, <1>8, <1>9, <1>10, <1>11 DEF Adapter, FetchStep

\* A frame that is returned has the records of every chunk, in order.
LEMMA ReturnedFrame ==
  ASSUME FetchTypeOK, FetchInv, NEW f \in Fetchers, Canonical(f), at'[f] = "returned"
  PROVE  /\ \A i, j \in DOMAIN frame'[f] :
              i < j => \A t \in frame'[f][i], u \in frame'[f][j] : t < u
         /\ UNION ToSet(frame'[f]) \subseteq fetch[f].window[1]..fetch[f].window[2]
         /\ \/ Had(fetch[f]) \subseteq UNION ToSet(frame'[f])
            \/ /\ fetch[f].cached
               /\ \E k \in DOMAIN ChunksOf(f) : <<fetch[f].series, ChunksOf(f)[k]>> \in early
<1> DEFINE what == fetch[f]
           n == chunk[f]
           got == frame'[f]
<1>1. at[f] \in Waiting /\ FetcherInv(f)
  BY DEF Canonical, Waiting, FetchInv
<1>2. payload[f] # {} /\ n = Len(Cut(what)) /\ ChunksOf(f) = Cut(what)
  BY DEF Canonical, Goto, FetchTypeOK, ChunksOf, Cut
<1>3. /\ what \in Fetch /\ what.window[1] <= what.window[2] /\ Cut(what) \in Seq(Chunk)
      /\ \A k \in 1..n : what.window[1] <= Cut(what)[k][1] /\ Cut(what)[k][2] <= what.window[2]
      /\ \A j, k \in 1..n : j < k => Cut(what)[j][2] < Cut(what)[k][1]
      /\ \A t \in what.window[1]..what.window[2] :
           \E k \in 1..n : t \in Cut(what)[k][1]..Cut(what)[k][2]
  <2>1. what \in Fetch /\ what.window[1] <= what.window[2]
    BY <1>1, AtChunk DEF FetcherInv
  <2> HIDE DEF what, n
  <2> QED BY <1>2, <2>1, CutFits
<1>4. DOMAIN got = 1..n /\ DOMAIN Cut(what) = 1..n
  BY <1>2, <1>3, FrameGrows
<1>5. \A k \in 1..n : Answered(what, k, got[k], early)
  BY <1>2, FrameGrows
<1>6. ASSUME NEW k \in 1..n
      PROVE  /\ Cut(what)[k][1] \in Nat /\ Cut(what)[k][2] \in Nat
             /\ got[k] \subseteq Cut(what)[k][1]..Cut(what)[k][2]
             /\ what.window[1] \in Nat /\ what.window[2] \in Nat
  <2>1. Ticks \subseteq Nat
    BY FetchAssumption DEF Ticks
  <2>2. Cut(what)[k] \in Chunk /\ what.window \in Chunk
    <3> HIDE DEF what, n, got
    <3>1. what.window \in Chunk
      BY <1>3 DEF Fetch
    <3> QED BY <1>2, <1>3, <3>1, ElementOfSeq
  <2>3. got[k] \subseteq Cut(what)[k][1]..Cut(what)[k][2]
    BY <1>5 DEF Answered, Whole
  <2> HIDE DEF what, got
  <2> QED BY <2>1, <2>2, <2>3 DEF Chunk
<1> HIDE DEF what, got, n
<1>7. ASSUME NEW i \in 1..n, NEW j \in 1..n, i < j, NEW t \in got[i], NEW u \in got[j]
      PROVE  t < u
  <2>1. Cut(what)[i][2] < Cut(what)[j][1]
    BY <1>3, <1>7
  <2>2. t \in Cut(what)[i][1]..Cut(what)[i][2] /\ u \in Cut(what)[j][1]..Cut(what)[j][2]
    BY <1>6
  <2>3. /\ Cut(what)[i][1] \in Nat /\ Cut(what)[i][2] \in Nat
        /\ Cut(what)[j][1] \in Nat /\ Cut(what)[j][2] \in Nat
    BY <1>6
  <2> QED BY <2>1, <2>2, <2>3
<1>8. ASSUME NEW k \in 1..n, NEW t \in got[k] PROVE t \in what.window[1]..what.window[2]
  <2>1. /\ t \in Cut(what)[k][1]..Cut(what)[k][2]
        /\ what.window[1] <= Cut(what)[k][1] /\ Cut(what)[k][2] <= what.window[2]
    BY <1>3, <1>6
  <2> QED BY <1>6, <2>1
<1>9. ToSet(got) = {got[k] : k \in 1..n}
  BY <1>4 DEF ToSet
<1>10. CASE what.cached /\ \E k \in 1..n : <<what.series, Cut(what)[k]>> \in early
  BY <1>2, <1>4, <1>7, <1>8, <1>9, <1>10 DEF what, got
<1>11. CASE ~(what.cached /\ \E k \in 1..n : <<what.series, Cut(what)[k]>> \in early)
  <2>1. ASSUME NEW t \in Had(what) PROVE \E k \in 1..n : t \in got[k]
    <3>1. t \in what.window[1]..what.window[2]
      <4>1. what.window[1] \in Nat /\ what.window[2] \in Nat /\ what.begun \in Nat
        BY <1>3, FetchAssumption DEF Fetch, Chunk, Ticks
      <4> QED BY <4>1, <2>1 DEF Had, Smaller
    <3>2. PICK k \in 1..n : t \in Cut(what)[k][1]..Cut(what)[k][2]
      BY <1>3, <3>1
    <3>3. t \in got[k]
      BY <1>5, <1>11, <2>1, <3>2 DEF Answered, Whole
    <3> QED BY <3>3
  <2>2. Had(what) \subseteq UNION ToSet(got)
    BY <1>9, <2>1
  <2> QED BY <1>4, <1>7, <1>8, <1>9, <2>2 DEF what, got
<1> QED BY <1>10, <1>11
-----------------------------------------------------------------------------
(***************************************************************************)
(* A run.                                                                  *)
(***************************************************************************)
\* The other runs stay as they are while one of them takes a step.
LEMMA OthersRun ==
  ASSUME ReportInv, NEW r \in Runs, RunInv(r)', LiveReportIsLive',
         DOMAIN report \subseteq DOMAIN report',
         \A q \in Runs \ {r} : /\ stage'[q] = stage[q] /\ mode'[q] = mode[q]
                               /\ pair'[q] = pair[q] /\ results'[q] = results[q]
  PROVE  ReportInv'
<1>1. ASSUME NEW q \in Runs \ {r} PROVE RunInv(q)'
  <2>1. RunInv(q) /\ AnyMock(q)' = AnyMock(q)
    BY DEF ReportInv, AnyMock
  <2>2. stage'[q] = stage[q] /\ mode'[q] = mode[q] /\ pair'[q] = pair[q] /\ results'[q] = results[q]
    OBVIOUS
  <2> QED BY <2>1, <2>2 DEF RunInv
<1> QED BY <1>1 DEF ReportInv

\* The live report stays as it is while no report is touched.
LEMMA ReportsStay ==
  ASSUME ReportInv, ReportTypeOK, UNCHANGED reports
  PROVE  LiveReportIsLive' /\ ReportTypeOK' /\ DOMAIN report \subseteq DOMAIN report'
  BY DEF ReportInv, LiveReportIsLive, ReportTypeOK, reports

\* What a run's types say of it, and its window.
LEMMA RunTypes ==
  ASSUME TypeOK, NEW r \in Runs
  PROVE  /\ pair[r] \in Seq(Frame) /\ results[r] \in Seq(Record) /\ Len(results[r]) \in Nat
         /\ Len(Jobs) \in Nat \ {0} /\ r \in Fetchers
         /\ stage[r] \in {"fetch", "merge"} => Job(r) \in Chunk
<1>1. pair[r] \in Seq(Frame) /\ results[r] \in Seq(Record) /\ Len(results[r]) \in Nat
  BY DEF TypeOK, RunTypeOK
<1>2. Jobs \in Seq(Chunk) /\ Len(Jobs) \in Nat \ {0} /\ r \in Fetchers
  BY EvaluationAssumption, EmptySeq
<1>3. ASSUME stage[r] \in {"fetch", "merge"} PROVE Job(r) \in Chunk
  <2>1. Len(results[r]) < Len(Jobs)
    BY <1>3 DEF TypeOK, RunTypeOK
  <2>2. Len(results[r]) + 1 \in 1..Len(Jobs)
    BY <1>1, <1>2, <2>1
  <2> QED BY <1>2, <2>2, ElementOfSeq DEF Job
<1> QED BY <1>1, <1>2, <1>3

\* A run starts.
LEMMA StartStep ==
  ASSUME TypeOK, ReportInv, NEW r \in Runs, Start(r)
  PROVE  RunTypeOK' /\ ReportInv'
<1>1. results[r] = <<>> /\ pair[r] = <<>> /\ Len(<<>>) = 0 /\ DOMAIN results[r] = {}
  BY DEF ReportInv, RunInv, Start
<1>2. PICK m \in Modes : mode' = [mode EXCEPT ![r] = m]
  BY DEF Start
<1>3. stage'[r] = "fetch" /\ mode'[r] \in Modes /\ pair' = pair /\ results' = results
  BY <1>2 DEF TypeOK, RunTypeOK, Start, Enter
<1>4. \A q \in Runs \ {r} : stage'[q] = stage[q] /\ mode'[q] = mode[q]
  BY <1>2 DEF TypeOK, RunTypeOK, Start, Enter
<1>5. RunTypeOK'
  <2>1. /\ stage' \in [Runs -> {"new", "fetch", "merge", "report", "write", "done", "failed", "killed"}]
        /\ mode' \in [Runs -> Modes \cup {"none"}]
    BY <1>2 DEF TypeOK, RunTypeOK, Start, Enter
  <2>2. Len(results[r]) < Len(Jobs)
    BY <1>1, RunTypes
  <2> QED BY <1>3, <1>4, <2>1, <2>2 DEF TypeOK, RunTypeOK
<1>6. RunInv(r)'
  BY <1>1, <1>3 DEF RunInv
<1>7. LiveReportIsLive' /\ DOMAIN report \subseteq DOMAIN report'
  BY ReportsStay DEF Start, TypeOK
<1> QED BY <1>3, <1>4, <1>5, <1>6, <1>7, OthersRun

\* A run gets one of the two frames of its window.
LEMMA AddFrameStep ==
  ASSUME TypeOK, ReportInv, NEW r \in Runs, stage[r] = "fetch", NEW part \in Frame, AddFrame(r, part)
  PROVE  RunTypeOK' /\ ReportInv'
<1>1. RunInv(r) /\ pair[r] \in Seq(Frame) /\ Len(pair[r]) \in Nat /\ Len(pair[r]) <= 1
  BY RunTypes DEF ReportInv, RunInv
<1>2. /\ pair'[r] = Append(pair[r], part) /\ mode' = mode /\ results' = results
      /\ stage'[r] = (IF pair[r] = <<>> THEN "fetch" ELSE "merge")
  BY DEF TypeOK, RunTypeOK, AddFrame, Enter
<1>3. \A q \in Runs \ {r} : stage'[q] = stage[q] /\ pair'[q] = pair[q]
  BY DEF TypeOK, RunTypeOK, AddFrame, Enter
<1>4. Append(pair[r], part) \in Seq(Frame) /\ Len(Append(pair[r], part)) = Len(pair[r]) + 1
  BY <1>1
<1>5. pair[r] = <<>> <=> Len(pair[r]) = 0
  BY <1>1
<1>6. RunTypeOK'
  <2>1. stage' \in [Runs -> {"new", "fetch", "merge", "report", "write", "done", "failed", "killed"}]
    BY DEF TypeOK, RunTypeOK, AddFrame, Enter
  <2>2. pair' \in [Runs -> Seq(Frame)]
    BY <1>4 DEF TypeOK, RunTypeOK, AddFrame
  <2> QED BY <1>2, <1>3, <2>1, <2>2 DEF TypeOK, RunTypeOK
<1>7. RunInv(r)'
  <2>1. stage'[r] = "fetch" => Len(pair'[r]) <= 1
    BY <1>1, <1>2, <1>4, <1>5
  <2>2. stage'[r] = "merge" => Len(pair'[r]) = 2
    BY <1>1, <1>2, <1>4, <1>5
  <2>3. stage'[r] # "new" /\ stage'[r] # "write"
    BY <1>2
  <2> QED BY <1>1, <1>2, <2>1, <2>2, <2>3 DEF RunInv
<1>8. LiveReportIsLive' /\ DOMAIN report \subseteq DOMAIN report'
  BY ReportsStay DEF AddFrame, TypeOK
<1> QED BY <1>2, <1>3, <1>6, <1>7, <1>8, OthersRun

\* The frames a run may get: mock, or what a fetch returned.
LEMMA FramesAreFrames ==
  ASSUME TypeOK, NEW r \in Runs, stage[r] = "fetch"
  PROVE  /\ Mock(r) \in Frame
         /\ [ticks |-> UNION ToSet(frame[r]), mock |-> FALSE] \in Frame
<1>1. Job(r) \in Chunk /\ r \in Fetchers
  BY RunTypes
<1>2. Job(r)[1]..Job(r)[2] \subseteq Ticks
  BY <1>1, FetchAssumption DEF Chunk, Ticks
<1>3. frame[r] \in Seq(SUBSET Ticks)
  BY <1>1 DEF TypeOK, FetchTypeOK
<1>4. UNION ToSet(frame[r]) \subseteq Ticks
  BY <1>3 DEF ToSet
<1> QED BY <1>2, <1>4 DEF Mock, Frame

\* A run that ends without a report keeps nothing.
LEMMA EndStep ==
  ASSUME TypeOK, ReportInv, NEW r \in Runs, NEW s \in {"failed", "killed"},
         Enter(r, s), stage[r] # "new",
         pair' = [pair EXCEPT ![r] = <<>>], results' = [results EXCEPT ![r] = <<>>],
         UNCHANGED <<mode, reports>>
  PROVE  RunTypeOK' /\ ReportInv'
<1>1. stage'[r] = s /\ pair'[r] = <<>> /\ results'[r] = <<>> /\ mode' = mode
  BY DEF TypeOK, RunTypeOK, Enter
<1>2. \A q \in Runs \ {r} : stage'[q] = stage[q] /\ pair'[q] = pair[q] /\ results'[q] = results[q]
  BY DEF TypeOK, RunTypeOK, Enter
<1>3. RunTypeOK'
  <2>1. stage' \in [Runs -> {"new", "fetch", "merge", "report", "write", "done", "failed", "killed"}]
    BY DEF TypeOK, RunTypeOK, Enter
  <2>2. pair' \in [Runs -> Seq(Frame)] /\ results' \in [Runs -> Seq(Record)]
    BY DEF TypeOK, RunTypeOK
  <2> QED BY <1>1, <1>2, <2>1, <2>2 DEF TypeOK, RunTypeOK
<1>4. RunInv(r)'
  <2>1. mode[r] \in Modes /\ DOMAIN <<>> = {}
    BY DEF ReportInv, RunInv
  <2> QED BY <1>1, <2>1 DEF RunInv
<1>5. LiveReportIsLive' /\ DOMAIN report \subseteq DOMAIN report'
  BY ReportsStay DEF TypeOK
<1> QED BY <1>1, <1>2, <1>3, <1>4, <1>5, OthersRun

\* The record of a window says that it is mock when one of its frames is.
LEMMA MergeStep ==
  ASSUME TypeOK, ReportInv, NEW r \in Runs, Merge(r)
  PROVE  RunTypeOK' /\ ReportInv'
<1> DEFINE record == [ticks |-> pair[r][1].ticks \cap pair[r][2].ticks, mock_used |-> MockUsed(pair[r]),
                      mock |-> pair[r][1].mock \/ pair[r][2].mock]
<1>1. RunInv(r) /\ stage[r] = "merge" /\ pair[r] \in Seq(Frame) /\ Len(pair[r]) = 2
  BY RunTypes DEF ReportInv, RunInv, Merge
<1>2. pair[r][1] \in Frame /\ pair[r][2] \in Frame
  BY <1>1
<1>3. record \in Record /\ (record.mock_used <=> record.mock)
  <2>1. MockUsed(pair[r]) = (pair[r][1].mock \/ pair[r][2].mock)
    BY DEF MockUsed
  <2>2. pair[r][1].mock \in BOOLEAN /\ pair[r][2].mock \in BOOLEAN /\ pair[r][1].ticks \subseteq Ticks
    BY <1>2 DEF Frame
  <2> QED BY <2>1, <2>2 DEF Record
<1>4. /\ results' = [results EXCEPT ![r] = Append(results[r], record)]
      /\ pair' = [pair EXCEPT ![r] = <<>>]
      /\ stage' = [stage EXCEPT ![r] = IF Len(results[r]) + 1 = Len(Jobs) THEN "report" ELSE "fetch"]
      /\ mode' = mode
  BY DEF Merge, Enter, TypeOK, RunTypeOK
<1> HIDE DEF record
<1>5. /\ results[r] \in Seq(Record) /\ Len(results[r]) \in Nat
      /\ Len(results[r]) < Len(Jobs) /\ Len(Jobs) \in Nat
  BY <1>1, RunTypes DEF TypeOK, RunTypeOK
<1>6. /\ Append(results[r], record) \in Seq(Record)
      /\ Len(Append(results[r], record)) = Len(results[r]) + 1
      /\ DOMAIN Append(results[r], record) = 1..(Len(results[r]) + 1)
      /\ \A i \in 1..(Len(results[r]) + 1) :
           Append(results[r], record)[i] = IF i = Len(results[r]) + 1 THEN record ELSE results[r][i]
      /\ DOMAIN results[r] = 1..Len(results[r])
  BY <1>3, <1>5
<1>7. /\ stage'[r] = (IF Len(results[r]) + 1 = Len(Jobs) THEN "report" ELSE "fetch")
      /\ pair'[r] = <<>> /\ results'[r] = Append(results[r], record)
  BY <1>4 DEF TypeOK, RunTypeOK
<1>8. \A q \in Runs \ {r} : stage'[q] = stage[q] /\ pair'[q] = pair[q] /\ results'[q] = results[q]
  BY <1>4 DEF TypeOK, RunTypeOK
<1>9. RunTypeOK'
  <2>1. stage' \in [Runs -> {"new", "fetch", "merge", "report", "write", "done", "failed", "killed"}]
    BY <1>4 DEF TypeOK, RunTypeOK
  <2>2. pair' \in [Runs -> Seq(Frame)] /\ results' \in [Runs -> Seq(Record)]
    BY <1>4, <1>6 DEF TypeOK, RunTypeOK
  <2>3. /\ stage'[r] \in {"fetch", "merge"} => Len(results'[r]) < Len(Jobs)
        /\ stage'[r] \in {"report", "write"} => Len(results'[r]) = Len(Jobs)
    BY <1>5, <1>6, <1>7
  <2> QED BY <1>4, <1>8, <2>1, <2>2, <2>3 DEF TypeOK, RunTypeOK
<1>10. RunInv(r)'
  <2>1. \A i \in DOMAIN results'[r] : results'[r][i].mock_used <=> results'[r][i].mock
    <3> TAKE i \in DOMAIN results'[r]
    <3>1. CASE i = Len(results[r]) + 1
      BY <1>3, <1>6, <1>7, <3>1
    <3>2. CASE i # Len(results[r]) + 1
      <4>1. i \in DOMAIN results[r] /\ results'[r][i] = results[r][i]
        BY <1>5, <1>6, <1>7, <3>2
      <4> QED BY <1>1, <4>1 DEF RunInv
    <3> QED BY <3>1, <3>2
  <2>2. Len(<<>>) <= 1 /\ mode[r] \in Modes /\ stage'[r] \in {"report", "fetch"}
    BY <1>1, <1>7 DEF RunInv
  <2> QED BY <1>4, <1>7, <2>1, <2>2 DEF RunInv
<1>11. LiveReportIsLive' /\ DOMAIN report \subseteq DOMAIN report'
  BY ReportsStay DEF Merge, TypeOK
<1> QED BY <1>4, <1>8, <1>9, <1>10, <1>11, OthersRun

\* The report of a run's kind.
LEMMA KindOfReport ==
  ASSUME ReportInv, NEW r \in Runs, stage[r] # "new"
  PROVE  Stem(Kind(mode[r])) = Kind(mode[r]) /\ Kind(mode[r]) \in Kinds
<1>1. mode[r] \in {"live", "allow_mock", "offline"}
  BY EvaluationAssumption DEF ReportInv, RunInv
<1> QED BY <1>1 DEF Stem, Kind, Kinds

\* A run that has all its windows opens its report; a live one, only without mock.
LEMMA ReportStep ==
  ASSUME TypeOK, ReportInv, NEW r \in Runs, Report(r)
  PROVE  RunTypeOK' /\ ReportTypeOK' /\ ReportInv'
<1> DEFINE file == Kind(mode[r])
<1>1. RunInv(r) /\ stage[r] = "report"
  BY DEF ReportInv, Report
<1>2. Stem(file) = file /\ file \in Kinds
  BY <1>1, KindOfReport
<1>3. /\ broken' = broken \cup {file}
      /\ report' = [k \in DOMAIN report \cup {file} |-> IF k = file THEN <<>> ELSE report[k]]
      /\ file = "live" => ~AnyMock(r)
      /\ stage' = [stage EXCEPT ![r] = "write"] /\ UNCHANGED <<mode, pair, results>>
  BY <1>2 DEF Report, Enter
<1>4. stage'[r] = "write" /\ \A q \in Runs \ {r} : stage'[q] = stage[q]
  BY <1>3 DEF TypeOK, RunTypeOK
<1>5. file' = file /\ AnyMock(r)' = AnyMock(r)
  BY <1>3 DEF AnyMock
<1> HIDE DEF file
<1>6. RunTypeOK'
  <2>1. stage' \in [Runs -> {"new", "fetch", "merge", "report", "write", "done", "failed", "killed"}]
    BY <1>3 DEF TypeOK, RunTypeOK
  <2>2. Len(results[r]) = Len(Jobs)
    BY <1>1 DEF TypeOK, RunTypeOK
  <2> QED BY <1>3, <1>4, <2>1, <2>2 DEF TypeOK, RunTypeOK
<1>7. ReportTypeOK'
  <2>1. <<>> \in Seq(Record)
    OBVIOUS
  <2>2. DOMAIN report' = DOMAIN report \cup {file}
    BY <1>3
  <2>3. \A k \in DOMAIN report' : report'[k] \in Seq(Record)
    BY <1>3, <2>1, <2>2 DEF TypeOK, ReportTypeOK
  <2> QED BY <1>2, <1>3, <2>2, <2>3 DEF TypeOK, ReportTypeOK
<1>8. LiveReportIsLive'
  <2> SUFFICES ASSUME "live" \in DOMAIN report' \ broken'
               PROVE  /\ Len(report'["live"]) = Len(Jobs)
                      /\ \A i \in DOMAIN report'["live"] : ~report'["live"][i].mock
    BY DEF LiveReportIsLive
  <2>1. "live" # file /\ "live" \in DOMAIN report \ broken /\ report'["live"] = report["live"]
    BY <1>3
  <2> QED BY <2>1 DEF ReportInv, LiveReportIsLive
<1>9. RunInv(r)'
  <2>1. Kind(mode'[r]) = file
    BY <1>3 DEF file
  <2>2. file \in DOMAIN report' /\ (file = "live" => ~AnyMock(r)')
    BY <1>3, <1>5
  <2>3. mode'[r] \in Modes
    BY <1>1, <1>3 DEF RunInv
  <2>4. \A i \in DOMAIN results'[r] : results'[r][i].mock_used <=> results'[r][i].mock
    BY <1>1, <1>3 DEF RunInv
  <2> QED BY <1>4, <2>1, <2>2, <2>3, <2>4 DEF RunInv
<1>10. DOMAIN report \subseteq DOMAIN report'
  BY <1>3
<1> QED BY <1>3, <1>4, <1>6, <1>7, <1>8, <1>9, <1>10, OthersRun

\* The report that is written has every window of the run.
LEMMA WriteReportStep ==
  ASSUME TypeOK, ReportInv, NEW r \in Runs, WriteReport(r)
  PROVE  RunTypeOK' /\ ReportTypeOK' /\ ReportInv'
<1> DEFINE file == Kind(mode[r])
<1>1. RunInv(r) /\ stage[r] = "write"
  BY DEF ReportInv, WriteReport
<1>2. Stem(file) = file
  BY <1>1, KindOfReport
<1>3. /\ broken' = broken \ {file} /\ report' = [report EXCEPT ![file] = results[r]]
      /\ results' = [results EXCEPT ![r] = <<>>]
      /\ stage' = [stage EXCEPT ![r] = "done"] /\ UNCHANGED <<mode, pair>>
  BY <1>2 DEF WriteReport, Enter
<1>4. /\ stage'[r] = "done" /\ results'[r] = <<>>
      /\ \A q \in Runs \ {r} : stage'[q] = stage[q] /\ results'[q] = results[q]
  BY <1>3 DEF TypeOK, RunTypeOK
<1>5. /\ results[r] \in Seq(Record) /\ Len(results[r]) = Len(Jobs)
      /\ file \in DOMAIN report /\ (file = "live" => ~AnyMock(r))
  BY <1>1, RunTypes DEF TypeOK, RunTypeOK, RunInv
<1> HIDE DEF file
<1>6. DOMAIN report' = DOMAIN report /\ report'[file] = results[r]
      /\ \A k \in DOMAIN report \ {file} : report'[k] = report[k]
  BY <1>3, <1>5
<1>7. RunTypeOK'
  <2>1. /\ stage' \in [Runs -> {"new", "fetch", "merge", "report", "write", "done", "failed", "killed"}]
        /\ results' \in [Runs -> Seq(Record)]
    BY <1>3 DEF TypeOK, RunTypeOK
  <2> QED BY <1>3, <1>4, <2>1 DEF TypeOK, RunTypeOK
<1>8. ReportTypeOK'
  <2>1. \A k \in DOMAIN report' : report'[k] \in Seq(Record)
    BY <1>5, <1>6 DEF TypeOK, ReportTypeOK
  <2> QED BY <1>3, <1>6, <2>1 DEF TypeOK, ReportTypeOK
<1>9. LiveReportIsLive'
  <2> SUFFICES ASSUME "live" \in DOMAIN report' \ broken'
               PROVE  /\ Len(report'["live"]) = Len(Jobs)
                      /\ \A i \in DOMAIN report'["live"] : ~report'["live"][i].mock
    BY DEF LiveReportIsLive
  <2>1. CASE file = "live"
    <3>1. \A i \in DOMAIN results[r] : ~results[r][i].mock
      BY <1>1, <1>5, <2>1 DEF AnyMock, RunInv
    <3> QED BY <1>5, <1>6, <2>1, <3>1
  <2>2. CASE file # "live"
    <3>1. "live" \in DOMAIN report \ broken /\ report'["live"] = report["live"]
      BY <1>3, <1>6, <2>2
    <3> QED BY <3>1 DEF ReportInv, LiveReportIsLive
  <2> QED BY <2>1, <2>2
<1>10. RunInv(r)'
  <2>1. mode'[r] \in Modes /\ DOMAIN <<>> = {}
    BY <1>1, <1>3 DEF RunInv
  <2> QED BY <1>4, <2>1 DEF RunInv
<1> QED BY <1>3, <1>4, <1>6, <1>7, <1>8, <1>9, <1>10, OthersRun

\* A step that no run takes.
LEMMA RunsStay ==
  ASSUME TypeOK, ReportInv, UNCHANGED <<runVars, reports>>
  PROVE  RunTypeOK' /\ ReportTypeOK' /\ ReportInv'
<1>1. RunTypeOK' /\ ReportTypeOK'
  BY DEF TypeOK, RunTypeOK, ReportTypeOK, runVars, reports
<1>2. ASSUME NEW r \in Runs PROVE RunInv(r)'
  <2>1. RunInv(r) /\ AnyMock(r)' = AnyMock(r)
    BY DEF ReportInv, AnyMock, runVars
  <2> QED BY <2>1 DEF RunInv, runVars, reports
<1>3. LiveReportIsLive'
  BY ReportsStay DEF TypeOK
<1> QED BY <1>1, <1>2, <1>3 DEF ReportInv

NoaaInv == TypeOK /\ FetchInv /\ ReportInv

\* A step of a run that has nothing to do with its fetch.
LEMMA FetchStays ==
  ASSUME FetchTypeOK, FetchInv, UNCHANGED <<fetchVars, early>>
  PROVE  FetchTypeOK' /\ FetchInv'
<1>1. FetchTypeOK'
  BY DEF FetchTypeOK, fetchVars, files, progress
<1>2. ASSUME NEW f \in Fetchers PROVE FetcherInv(f)'
  BY DEF FetchInv, FetcherInv, fetchVars, files, progress
<1>3. \A c \in DOMAIN cache' : Kept(c, cache'[c], early')
  BY DEF FetchInv, fetchVars, files
<1> QED BY <1>1, <1>2, <1>3 DEF FetchInv

\* A step of a run.
LEMMA RunStep ==
  ASSUME NoaaInv, NEW r \in Runs,
         \/ Start(r) \/ Ask(r) \/ Offline(r) \/ Fetched(r) \/ StandIn(r) \/ FetchFails(r)
         \/ Merge(r) \/ MergeFails(r) \/ Report(r) \/ WriteReport(r) \/ Kill(r)
  PROVE  NoaaInv'
<1> USE DEF NoaaInv
<1>1. FetchTypeOK /\ r \in Fetchers /\ kills \in 0..MaxKills /\ early \subseteq Files
  BY RunTypes DEF TypeOK
<1>2. CASE Start(r)
  <2>1. UNCHANGED <<fetchVars, reports, kills, early>>
    BY <1>2 DEF Start
  <2> QED BY <1>1, <1>2, <2>1, StartStep, FetchStays, ReportsStay DEF TypeOK
<1>3. CASE Ask(r)
  <2>1. Part(r) \in Series /\ Job(r) \in Chunk
    BY <1>3, RunTypes DEF Ask, Part, Series
  <2>2. FetchTypeOK' /\ FetchInv'
    BY <1>1, <1>3, <2>1, BeginStep DEF Ask
  <2>3. RunTypeOK' /\ ReportTypeOK' /\ ReportInv'
    BY <1>3, RunsStay DEF Ask
  <2> QED BY <1>1, <1>3, <2>2, <2>3 DEF TypeOK, Ask
<1>4. CASE Offline(r) \/ Fetched(r) \/ StandIn(r)
  <2>1. stage[r] = "fetch" /\ \E part \in Frame : AddFrame(r, part)
    BY <1>4, FramesAreFrames DEF Offline, Fetched, StandIn
  <2>2. PICK part \in Frame : AddFrame(r, part)
    BY <2>1
  <2>3. Leave(r) /\ UNCHANGED <<reports, kills, early>>
    BY <2>2 DEF AddFrame
  <2>4. FetchTypeOK' /\ FetchInv'
    BY <1>1, <2>3, LeaveStep
  <2>5. RunTypeOK' /\ ReportInv' /\ ReportTypeOK'
    BY <2>1, <2>2, <2>3, AddFrameStep, ReportsStay DEF TypeOK
  <2> QED BY <1>1, <2>3, <2>4, <2>5 DEF TypeOK
<1>5. CASE FetchFails(r) \/ MergeFails(r)
  <2>1. Fail(r) /\ stage[r] # "new"
    BY <1>5 DEF FetchFails, MergeFails
  <2>2. FetchTypeOK' /\ FetchInv'
    BY <1>1, <2>1, LeaveStep DEF Fail
  <2>3. RunTypeOK' /\ ReportInv' /\ ReportTypeOK'
    BY <2>1, EndStep, ReportsStay DEF Fail, TypeOK
  <2> QED BY <1>1, <2>1, <2>2, <2>3 DEF TypeOK, Fail
<1>6. CASE Merge(r)
  <2>1. UNCHANGED <<fetchVars, reports, kills, early>>
    BY <1>6 DEF Merge
  <2> QED BY <1>1, <1>6, <2>1, MergeStep, FetchStays, ReportsStay DEF TypeOK
<1>7. CASE Report(r)
  <2>1. UNCHANGED <<fetchVars, kills, early>>
    BY <1>7 DEF Report
  <2> QED BY <1>1, <1>7, <2>1, ReportStep, FetchStays DEF TypeOK
<1>8. CASE WriteReport(r)
  <2>1. UNCHANGED <<fetchVars, kills, early>>
    BY <1>8 DEF WriteReport
  <2> QED BY <1>1, <1>8, <2>1, WriteReportStep, FetchStays DEF TypeOK
<1>9. CASE Kill(r)
  <2>1. Leave(r) /\ stage[r] # "new" /\ UNCHANGED <<mode, reports, early>>
    BY <1>9 DEF Kill
  <2>2. FetchTypeOK' /\ FetchInv'
    BY <1>1, <2>1, LeaveStep
  <2>3. RunTypeOK' /\ ReportInv' /\ ReportTypeOK'
    BY <1>9, <2>1, EndStep, ReportsStay DEF Kill, TypeOK
  <2>4. kills' \in 0..MaxKills
    BY <1>1, <1>9, EvaluationAssumption DEF Kill
  <2> QED BY <1>1, <2>1, <2>2, <2>3, <2>4 DEF TypeOK
<1> QED BY <1>2, <1>3, <1>4, <1>5, <1>6, <1>7, <1>8, <1>9

\* What is true of the processes stays true.
LEMMA NextKeeps ==
  ASSUME NoaaInv, [Next]_vars
  PROVE  NoaaInv'
<1> USE DEF NoaaInv
<1>1. CASE Time
  <2>1. UNCHANGED <<runVars, reports, kills, early>> /\ Tick
    BY <1>1 DEF Time
  <2>2. early' = early /\ kills' = kills
    BY <2>1
  <2> QED BY <2>1, <2>2, TickStep, RunsStay DEF TypeOK
<1>2. ASSUME NEW f \in Fetchers, Client(f)
      PROVE  NoaaInv'
  <2>1. PICK series \in Series, window \in Asked, cached \in BOOLEAN : Begin(f, series, window, cached)
    BY <1>2 DEF Client
  <2>2. window \in Chunk /\ UNCHANGED <<runVars, reports, kills, early>>
    BY <1>2, EvaluationAssumption DEF Client
  <2>3. early' = early /\ kills' = kills
    BY <2>2
  <2>4. FetchTypeOK' /\ FetchInv'
    BY <2>1, <2>2, <2>3, BeginStep DEF TypeOK
  <2> QED BY <2>2, <2>3, <2>4, RunsStay DEF TypeOK
<1>3. ASSUME NEW f \in Fetchers, Adapter(f)
      PROVE  NoaaInv'
  <2>1. UNCHANGED <<runVars, reports>> /\ kills' = kills
    BY <1>3 DEF Adapter
  <2> QED BY <1>3, <2>1, AdapterStep, RunsStay DEF TypeOK
<1>4. CASE \E r \in Runs :
             \/ Start(r) \/ Ask(r) \/ Offline(r) \/ Fetched(r) \/ StandIn(r) \/ FetchFails(r)
             \/ Merge(r) \/ MergeFails(r) \/ Report(r) \/ WriteReport(r) \/ Kill(r)
  BY <1>4, RunStep
<1>5. CASE UNCHANGED vars
  <2>1. UNCHANGED <<fetchVars, early>> /\ UNCHANGED <<runVars, reports>> /\ kills' = kills
    BY <1>5 DEF vars
  <2>2. early' = early
    BY <2>1
  <2> QED BY <2>1, <2>2, FetchStays, RunsStay DEF TypeOK
<1> QED BY <1>1, <1>2, <1>3, <1>4, <1>5 DEF Next

\* It is true at the start.
LEMMA InitHolds ==
  ASSUME Init
  PROVE  NoaaInv
<1>1. FetchTypeOK
  <2>1. NoFetch \in [series : Series, window : Chunk, cached : BOOLEAN, begun : Ticks]
    BY FetchAssumption DEF NoFetch, Series, Chunk, Ticks
  <2> QED BY <2>1, FetchAssumption DEF Init, FetchInit, FetchTypeOK, Ticks
<1>2. RunTypeOK /\ ReportTypeOK
  BY DEF Init, RunTypeOK, ReportTypeOK
<1>3. kills \in 0..MaxKills /\ early \subseteq Files
  BY EvaluationAssumption DEF Init
<1>4. FetchInv
  BY DEF Init, FetchInit, FetchInv, FetcherInv, Waiting
<1>5. ReportInv
  BY DEF Init, ReportInv, RunInv, LiveReportIsLive
<1> QED BY <1>1, <1>2, <1>3, <1>4, <1>5 DEF NoaaInv, TypeOK

\* NoaaInv is an invariant.
LEMMA NoaaInvHolds == Spec => []NoaaInv
<1> QED BY InitHolds, NextKeeps, PTL DEF Spec
-----------------------------------------------------------------------------
(***************************************************************************)
(* The theorems.                                                           *)
(***************************************************************************)
\* The variables of the adapters and of the runs keep their types.
THEOREM NoaaTypeCorrect == Spec => []TypeOK
<1>1. NoaaInv => TypeOK
  BY DEF NoaaInv
<1> QED BY <1>1, NoaaInvHolds, PTL

\* Whatever failed and whatever other modes wrote, a live report that was written
\* (evaluate_noaa_public.py) has every window and no mock data.
THEOREM LiveReportStaysLive == Spec => []LiveReportIsLive
<1>1. NoaaInv => LiveReportIsLive
  BY DEF NoaaInv, ReportInv
<1> QED BY <1>1, NoaaInvHolds, PTL

\* Only Canonical ends a fetch, and its frame is an answer.
LEMMA StepAnswers ==
  ASSUME NoaaInv, [Next]_vars, NEW f \in Fetchers, at[f] = "parse", at'[f] = "returned"
  PROVE  Answer(f)
<1>1. FetchTypeOK /\ FetchInv
  BY DEF NoaaInv, TypeOK
<1>2. at'[f] # at[f] /\ at'[f] # "look" /\ at'[f] # "idle"
  OBVIOUS
<1>3. ASSUME NEW g \in Fetchers, Adapter(g)
      PROVE  Canonical(f)
  <2>1. g = f
    BY <1>1, <1>2, <1>3 DEF Adapter, FetchStep, NoCredentials, ReadCache, Miss, NoaaAnswers,
         HohonuAnswers, Keep, Refused, OpenCache, WriteCache, Canonical, Goto, FetchTypeOK
  <2> QED BY <1>3, <2>1 DEF Adapter, FetchStep, NoCredentials, ReadCache, Miss, NoaaAnswers,
         HohonuAnswers, Refused, OpenCache, WriteCache
<1>4. Adapter(f) \/ \E g \in Fetchers : Adapter(g)
  <2>1. ASSUME NEW g \in Fetchers, NEW series, NEW window, NEW cached, Begin(g, series, window, cached)
        PROVE  FALSE
    BY <1>1, <1>2, <2>1 DEF Begin, Goto, FetchTypeOK
  <2>2. ASSUME NEW g \in Fetchers, Leave(g)
        PROVE  FALSE
    BY <1>1, <1>2, <2>2 DEF Leave, Goto, FetchTypeOK
  <2>3. UNCHANGED at => FALSE
    BY <1>2
  <2>4. Runs \subseteq Fetchers
    BY EvaluationAssumption
  <2>5. ASSUME NEW g \in Fetchers, Client(g)
        PROVE  FALSE
    BY <2>1, <2>5 DEF Client
  <2>6. ASSUME NEW r \in Runs,
               \/ Start(r) \/ Ask(r) \/ Offline(r) \/ Fetched(r) \/ StandIn(r) \/ FetchFails(r)
               \/ Merge(r) \/ MergeFails(r) \/ Report(r) \/ WriteReport(r) \/ Kill(r)
        PROVE  FALSE
    BY <2>1, <2>2, <2>3, <2>4, <2>6 DEF Start, Ask, Offline, Fetched, StandIn, FetchFails, AddFrame,
         Fail, Merge, MergeFails, Report, WriteReport, Kill, fetchVars, progress
  <2>7. ~(Time \/ UNCHANGED vars)
    BY <2>3 DEF Time, Tick, progress, vars, fetchVars
  <2> QED BY <2>5, <2>6, <2>7 DEF Next
<1>5. Canonical(f)
  BY <1>3, <1>4
<1> QED BY <1>1, <1>5, ReturnedFrame DEF Had, Answer

\* A fetch (NOAACoopsAdapter._fetch_product, HohonuAdapter.fetch_observations) that
\* returns answers with its window's records, whoever else uses the cache.
THEOREM FetchesAnswer == Spec => FetchAnswers
<1> DEFINE P == \A f \in Fetchers : at[f] = "parse" /\ at'[f] = "returned" => Answer(f)
<1>1. NoaaInv /\ [Next]_vars => P
  BY StepAnswers
<1>2. FetchAnswers <=> [][P]_vars
  BY DEF FetchAnswers
<1> HIDE DEF P
<1> QED BY <1>1, <1>2, NoaaInvHolds, PTL DEF Spec
=============================================================================
