------------------------------ MODULE Listing ------------------------------
(***************************************************************************)
(* One client pages through a listing while others write and delete: the   *)
(* objects of a bucket (ListObjectsV2), their versions, the buckets, the   *)
(* uploads in flight or the parts of one.  A page is built from one or     *)
(* several reads of etcd, each of them as etcd is then, and the next page  *)
(* resumes from what the last one told the client.  A node's walk over all *)
(* objects, to repair, scrub or move them, pages in the same way and       *)
(* resumes from a cursor it keeps in etcd.                                 *)
(*                                                                         *)
(* Keys are sequences of bytes, bucket included, in etcd's order.  A token *)
(* is a position the client hands back as it got it, so its base64 and its *)
(* bucket are left out; so is the escaping of markers, undone on arrival.  *)
(***************************************************************************)
EXTENDS Integers, Sequences, FiniteSets, FiniteSetsExt

CONSTANTS Names,          \* per kind of listing, the names that may be in its range
          Requests,       \* the listings a client may ask for
          ScanPageSize,   \* keys read at a time when a delimiter groups them
          ScanBudget,     \* keys read for one page of uploads
          Elsewhere,      \* the uploads whose key has not the prefix asked for
          MaxChanges,     \* bound on the puts and deletes meanwhile
          MaxFailures     \* bound on the reads that fail

Key == Seq(0..255)

\* Names are not empty and finitely many; the number of a part is one byte here.
ASSUME ListingAssumption ==
  /\ ScanPageSize \in Nat \ {0} /\ ScanBudget \in Nat \ {0}
  /\ MaxChanges \in Nat /\ MaxFailures \in Nat
  /\ \A r \in Requests :
       /\ r.kind \in {"objects", "versions", "buckets", "uploads", "parts", "walk"}
       /\ r.prefix \in Key /\ r.delimiter \in Key /\ r.start \in Key /\ r.limit \in Nat
       /\ r.kind \in {"buckets", "uploads", "parts", "walk"} => r.limit > 0
       /\ r.kind \in {"buckets", "uploads", "parts"} => r.prefix = <<>>
       /\ r.kind \in {"uploads", "parts", "walk"} => r.delimiter = <<>>
       /\ r.start # <<>> => r.kind \in {"objects", "parts", "walk"}
       /\ IsFiniteSet(Names[r.kind]) /\ Names[r.kind] \subseteq Key \ {<<>>}
       /\ r.kind = "parts" => \A k \in Names[r.kind] : Len(k) = 1

VARIABLES req,        \* the listing asked for
          store,      \* the names etcd holds
          phase,      \* "fetch", "more" (a truncated page was sent), "visit" (of the objects
                      \* of a page of the walk), "done" or "stuck"
          begin,      \* where the page in hand began; of a walk, the cursor it would resume at
          from,       \* where its next read of etcd begins
          page,       \* the entries of the page in hand, of a walk those still to be visited
          listed,     \* the entries of the pages sent
          throughout, \* history: the names that were there all the time
          unchanged,  \* history: nothing changed since the last page was sent
          changes, failures

vars == <<req, store, phase, begin, from, page, listed, throughout, unchanged, changes, failures>>

-----------------------------------------------------------------------------
(***************************************************************************)
(* Keys.                                                                   *)
(***************************************************************************)

\* The order of etcd's keys and of Go's strings.
Less(a, b) ==
  \E i \in 1..Len(b) :
    /\ Len(a) >= i - 1
    /\ \A j \in 1..(i - 1) : a[j] = b[j]
    /\ Len(a) = i - 1 \/ a[i] < b[i]

Sorted(S) ==
  [i \in 1..Cardinality(S) |-> CHOOSE k \in S : Cardinality({j \in S : Less(j, k)}) = i - 1]

\* etcd's Get of a range, sorted and limited (external).
Get(S, start, limit) ==
  LET keys == Sorted({k \in S : ~Less(k, start)})
  IN  SubSeq(keys, 1, Min({limit, Len(keys)}))

After(key) == Append(key, 0)

\* strings.HasPrefix and strings.HasSuffix (external).
HasPrefix(key, prefix) ==
  Len(prefix) <= Len(key) /\ \A i \in 1..Len(prefix) : key[i] = prefix[i]
HasSuffix(key, suffix) ==
  LET skip == Len(key) - Len(suffix)
  IN  skip >= 0 /\ \A i \in 1..Len(suffix) : key[skip + i] = suffix[i]

Last(s) == s[Len(s)]

\* string(b) of a byte is the UTF-8 encoding of the character b, not the byte.
Utf8(b) == IF b < 128 THEN <<b>> ELSE <<192 + (b \div 64), 128 + (b % 64)>>

PastPrefix(prefix) ==
  LET below == {i \in DOMAIN prefix : prefix[i] < 255}
  IN  IF below = {} THEN <<>>
      ELSE SubSeq(prefix, 1, Max(below) - 1) \o Utf8(prefix[Max(below)] + 1)

\* groupOf: up to the first delimiter after the prefix, or <<>>.
GroupOf(key) ==
  LET d    == req.delimiter
      ends == {i \in (Len(req.prefix) + Len(d))..Len(key) : HasSuffix(SubSeq(key, 1, i), d)}
  IN  IF d = <<>> \/ ends = {} THEN <<>> ELSE SubSeq(key, 1, Min(ends))

\* A key is reported by itself or by its group, and what comes next is past it.
EntryOf(key) == IF GroupOf(key) = <<>> THEN key ELSE GroupOf(key)
Past(entry) == IF GroupOf(entry) = <<>> THEN After(entry) ELSE PastPrefix(entry)

\* scan: what the prefix covers, from a position in it or from its beginning.
ScanEntries(limit) ==
  Get({k \in store : HasPrefix(k, req.prefix)},
      IF Less(req.prefix, from) THEN from ELSE req.prefix, limit)

-----------------------------------------------------------------------------
\* The first request: from the beginning, or after the key start-after or an earlier
\* cursor names.
Init == /\ req \in Requests
        /\ store \in SUBSET Names[req.kind]
        /\ req.kind = "uploads" => \A k \in store : <<k[1], 2>> \in store
        /\ begin = IF req.start = <<>> THEN <<>> ELSE After(req.start)
        /\ from = begin
        /\ phase = IF req.limit = 0 THEN "done" ELSE "fetch"
        /\ page = <<>>
        /\ listed = <<>>
        /\ throughout = store
        /\ unchanged = FALSE
        /\ changes = 0
        /\ failures = 0

\* A put of an object, or of an upload or part; a part is only put to an upload.
Put(k) ==
  /\ changes < MaxChanges
  /\ k \in Names[req.kind] \ store
  /\ req.kind = "uploads" => k = <<k[1], 2>> \/ <<k[1], 2>> \in store
  /\ store' = store \cup {k}
  /\ changes' = changes + 1
  /\ unchanged' = FALSE
  /\ UNCHANGED <<req, phase, begin, from, page, listed, throughout, failures>>

\* A delete of an object; an upload goes with its parts, and a listing of its parts
\* then fails.
Delete(k) ==
  /\ changes < MaxChanges
  /\ req.kind # "parts"
  /\ k \in store
  /\ store' = store \ (IF req.kind = "uploads" THEN {j \in store : j[1] = k[1]} ELSE {k})
  /\ throughout' = throughout \cap store'
  /\ changes' = changes + 1
  /\ unchanged' = FALSE
  /\ UNCHANGED <<req, phase, begin, from, page, listed, failures>>

\* What was listed and these.  What a listing of uploads or a walk repeats is recorded
\* once.
With(entries) ==
  listed \o (IF req.kind \notin {"uploads", "walk"} THEN entries
             ELSE Sorted(Range(entries) \ Range(listed)))

\* The page is answered, with what the client resumes from if it is truncated.
Answer(entries, to, resume) ==
  /\ phase' = to
  /\ listed' = With(entries)
  /\ begin' = resume
  /\ from' = resume
  /\ page' = <<>>
  /\ unchanged' = (to = "more")
  /\ UNCHANGED <<req, store, throughout, changes, failures>>

NextPage ==
  /\ phase = "more"
  /\ phase' = "fetch"
  /\ UNCHANGED <<req, store, begin, from, page, listed, throughout, unchanged, changes, failures>>

\* A read of etcd fails, the request fails, and the client sends it again.  All the
\* pages of a listing of buckets are one request.
FailFetch ==
  /\ phase = "fetch"
  /\ req.kind # "walk"
  /\ failures < MaxFailures
  /\ failures' = failures + 1
  /\ begin' = IF req.kind = "buckets" THEN <<>> ELSE begin
  /\ listed' = IF req.kind = "buckets" THEN <<>> ELSE listed
  /\ from' = begin'
  /\ page' = <<>>
  /\ UNCHANGED <<req, store, phase, throughout, unchanged, changes>>

-----------------------------------------------------------------------------
(***************************************************************************)
(* Objects, versions and buckets: Coordinator.List.                        *)
(***************************************************************************)

\* lastReported: keys and groups are two lists, and the later of their ends is last.
LastReported(entries) ==
  CHOOSE e \in Range(entries) : \A f \in Range(entries) : ~Less(e, f)

\* A possible bug: a marker is always a key.
ResumeAfter(entries, next) ==
  IF req.kind = "versions" THEN After(LastReported(entries)) ELSE next

\* A listing of objects resumes from its token, the position after the page;
\* listBuckets from the same position; one of versions from its last key or group.
Resume(entries, next) ==
  LET marker == LastReported(entries)
  IN  IF req.kind # "versions" THEN next
      ELSE IF req.delimiter # <<>> /\ marker # req.prefix /\ HasSuffix(marker, req.delimiter)
           THEN PastPrefix(marker)
           ELSE After(marker)

\* listBuckets drops a key with no bucket; the others report all there is.
Reported(entries) ==
  IF req.kind = "buckets" THEN Sorted({e \in Range(entries) : GroupOf(e) # <<>>}) ELSE entries

\* The page goes on with the keys read, each group once, as far as the limit.
Extend(keys) == page \o Sorted({EntryOf(k) : k \in Range(keys)})

\* Without a delimiter every key is an entry, and one more tells whether more follow.
Want == IF req.delimiter = <<>> THEN req.limit + 1 ELSE ScanPageSize

\* Possible bugs: a full page is a truncated one; a page runs over.
FullPage(all) == Len(all) >= req.limit
FullLate(all) == Len(all) > req.limit + 1

\* There is something to report past the page.
Full(all) == Len(all) > req.limit

\* Possible bugs: one read is the listing; an empty read is tried again.
ExhaustedAtOnce(keys) == TRUE
ExhaustedShort(keys) == keys # <<>> /\ Len(keys) < Want

\* The range has run out.
Exhausted(keys) == Len(keys) < Want

\* One read of etcd: the page is full and there is more, the listing has run out, or
\* the page has room, or is full and may be the last, and the next read goes on.
Fetch ==
  /\ phase = "fetch"
  /\ req.kind \in {"objects", "versions", "buckets"}
  /\ \E keys \in {ScanEntries(Want)} : \E all \in {Extend(keys)} :
     \E upto \in {IF Full(all) THEN SubSeq(all, 1, req.limit) ELSE all} :
     \E next \in {IF upto = <<>> THEN from ELSE Past(Last(upto))} :
       \/ /\ Full(all) /\ next # <<>>
          /\ Answer(Reported(upto), "more", Resume(upto, next))
       \/ /\ (~Full(all) /\ Exhausted(keys)) \/ next = <<>>
          /\ Answer(Reported(upto), "done", <<>>)
       \/ /\ ~Full(all) /\ ~Exhausted(keys) /\ next # <<>>
          /\ page' = upto
          /\ from' = next
          /\ UNCHANGED <<req, store, phase, begin, listed, throughout, unchanged, changes, failures>>

-----------------------------------------------------------------------------
(***************************************************************************)
(* Uploads and parts.  The keys of upload u are <<u, 1, n>> for its parts  *)
(* (uploads/<id>/parts/<n>) and <<u, 2>> for its record                    *)
(* (uploads/<id>/upload), which sorts after them.                          *)
(***************************************************************************)

\* Uploads: one read, in which parts count too.  There may be more if a page was
\* found and one more, or if the budget was used up.
Uploads ==
  LET keys    == Get(store, from, ScanBudget)
      records == Sorted({k \in Range(keys) : Len(k) = 2 /\ k[1] \notin Elsewhere})
  IN  [found |-> SubSeq(records, 1, Min({req.limit, Len(records)})),
       more  |-> Len(records) > req.limit \/ Len(keys) = ScanBudget]

\* listUploads: a truncated listing resumes at the keys of the last upload listed,
\* and if there is none, nowhere.
FetchUploads ==
  /\ phase = "fetch"
  /\ req.kind = "uploads"
  /\ \E up \in {Uploads} :
       \/ ~up.more /\ Answer(up.found, "done", <<>>)
       \/ up.more /\ up.found = <<>> /\ Answer(<<>>, "stuck", <<>>)
       \/ up.more /\ up.found # <<>> /\ Answer(up.found, "more", After(<<Last(up.found)[1]>>))

\* listParts: every part is read, those past the marker are reported up to the limit.
FetchParts ==
  LET beyond == Sorted({k \in store : Less(from, k)})
      found  == SubSeq(beyond, 1, Min({req.limit, Len(beyond)}))
  IN  /\ phase = "fetch"
      /\ req.kind = "parts"
      /\ IF Len(beyond) > req.limit THEN Answer(found, "more", Last(found))
                                    ELSE Answer(found, "done", <<>>)

-----------------------------------------------------------------------------
(***************************************************************************)
(* A node's walk over the objects.                                         *)
(***************************************************************************)

\* walk: the next page of objects; past the last of them the cursor is cleared, for
\* the next walk to start over.
WalkPage ==
  /\ phase = "fetch"
  /\ req.kind = "walk"
  /\ \E objects \in {ScanEntries(req.limit)} :
       IF objects = <<>> THEN Answer(<<>>, "done", <<>>)
       ELSE /\ phase' = "visit"
            /\ page' = objects
            /\ UNCHANGED <<req, store, begin, from, listed, throughout, unchanged, changes, failures>>

\* An object of it is visited, as it was when read; a visit that fails is logged.
Visit ==
  /\ phase = "visit"
  /\ page # <<>>
  /\ listed' = With(<<Head(page)>>)
  /\ from' = After(Head(page))
  /\ page' = Tail(page)
  /\ UNCHANGED <<req, store, phase, begin, throughout, unchanged, changes, failures>>

\* SaveCursor: the page is done with.
SaveCursor ==
  /\ phase = "visit"
  /\ page = <<>>
  /\ phase' = "fetch"
  /\ begin' = from
  /\ UNCHANGED <<req, store, from, page, listed, throughout, unchanged, changes, failures>>

\* The node restarts, or etcd refuses a read or the cursor: the next walk resumes at
\* the cursor.
RestartWalk ==
  /\ phase \in {"fetch", "visit"}
  /\ req.kind = "walk"
  /\ failures < MaxFailures
  /\ failures' = failures + 1
  /\ phase' = "fetch"
  /\ from' = begin
  /\ page' = <<>>
  /\ UNCHANGED <<req, store, begin, listed, throughout, unchanged, changes>>

Next == \/ \E k \in Names[req.kind] : Put(k) \/ Delete(k)
        \/ Fetch \/ FetchUploads \/ FetchParts
        \/ FailFetch \/ NextPage
        \/ WalkPage \/ Visit \/ SaveCursor \/ RestartWalk

\* Requests are answered, and the client or the walk goes on.
Fairness == /\ WF_vars(Fetch \/ FetchUploads \/ FetchParts)
            /\ WF_vars(NextPage)
            /\ WF_vars(WalkPage \/ Visit \/ SaveCursor)

Spec == Init /\ [][Next]_vars /\ Fairness

-----------------------------------------------------------------------------
\* Positions, pages and what was listed are made of bytes.
TypeOK == /\ req \in Requests
          /\ store \subseteq Names[req.kind]
          /\ throughout \subseteq store
          /\ phase \in {"fetch", "more", "visit", "done", "stuck"}
          /\ begin \in Key /\ from \in Key
          /\ page \in Seq(Key) /\ listed \in Seq(Key)
          /\ Len(page) <= req.limit
          /\ unchanged \in BOOLEAN

\* The names a listing is asked for.
AskedFor(k) ==
  /\ req.kind = "uploads" => Len(k) = 2 /\ k[1] \notin Elsewhere
  /\ req.kind = "buckets" => GroupOf(k) # <<>>
  /\ req.kind \notin {"uploads", "buckets"} => HasPrefix(k, req.prefix) /\ Less(req.start, k)

\* A listing that has been paged to its end has reported every name that was there
\* all the while, alone or in its group, whatever was put and deleted around it
\* between the reads and wherever the pages and the reads of etcd broke; and a walk
\* has visited every object that was there past its cursor, wherever it was restarted.
NothingMissed ==
  phase = "done" /\ req.limit > 0 =>
    \A k \in throughout : AskedFor(k) => EntryOf(k) \in Range(listed)

\* No key and no group is reported twice, and they come in order, over all pages:
\* a page never starts inside a group that was reported, and a marker is never
\* behind what the client has seen.  (A listing of uploads repeats its marker, and
\* a walk that was restarted what it did after its cursor was saved.)
ReportedOnce ==
  LET all == listed \o page
  IN  req.kind \notin {"uploads", "walk"} =>
        \A i \in 1..(Len(all) - 1) : Less(all[i], all[i + 1])

\* "A full page is not a truncated one": a page says there is more only if something
\* more is there to report.
MoreMeansMore ==
  phase = "more" /\ unchanged /\ req.kind \in {"objects", "versions", "parts"} =>
    \E k \in store : AskedFor(k) /\ EntryOf(k) \notin Range(listed)

\* A client that goes on paging, and a walk that is restarted no more, come to the
\* end, although keys are put and deleted around them.
ListingEnds == <>(phase = "done" \/ req.kind = "uploads")
=============================================================================
