---------------------------- MODULE AdapterProofs ----------------------------
(***************************************************************************)
(* Theorems about AdapterCalls, for every set of keys, every encoding of   *)
(* them, every catalogue and every content of the buckets: what the        *)
(* adapters make of a notification, what GET /videos answers, and what the *)
(* saves of one or more listings leave in the catalogue.                   *)
(***************************************************************************)
EXTENDS AdapterCalls, FiniteSetTheorems, FunctionTheorems,
        SequenceTheorems, WellFoundedInduction, TLAPS

(* A state is one call: of the webhook, or of the listing.                 *)
CallInv ==
    \/ post \in Posts /\ listing = None
    \/ /\ post = None /\ listing \in Listings
       /\ listed = Listed(listing.buckets, listing.down)
       /\ now = ListAllVideos(listing.catalog, listed, listing.down, listing.saves)
       /\ whole = Listed(listing.buckets, {})
       /\ later = Undisturbed(now.catalog) /\ once = Undisturbed(listing.catalog)

LEMMA CallInvariant == Spec => []CallInv
<1>1. Init => CallInv
  BY DEF Init, CallInv
<1>2. CallInv /\ [Next]_calls => CallInv'
  BY DEF CallInv, Next, calls, Undisturbed
<1> QED
  BY <1>1, <1>2, PTL DEF Spec

-----------------------------------------------------------------------------
(* Notifications *)

(* What a store sends about an object is decoded to the object's key, or   *)
(* holds it as it is.                                                      *)
LEMMA NoticeKey ==
    ASSUME CallInv, Sent
    PROVE  /\ key \in Stored /\ n.key # NoKey /\ n.created = TRUE
           /\ n.envelope \in {"records", "eventbridge"}
           /\ \/ Decoded(n.key) = key
              \/ n.envelope = "eventbridge" /\ n.key = key
           /\ n.envelope = "records" => Decoded(n.key) = key
           /\ n.envelope = "eventbridge" => provider = "aws-s3" /\ n.key = key
<1>1. post \in Posts
  BY DEF CallInv, Sent
<1>2. key \in Stored
  BY <1>1 DEF Posts, key
<1>3. /\ key \in Keys /\ Escaped[key] \in Keys /\ key # NoKey /\ Escaped[key] # NoKey
      /\ Decoded(Escaped[key]) = key
  BY <1>2, KeysAssumption DEF KeysAssumption, Stored, Decoded
<1>4. \/ n = [envelope |-> "records", created |-> TRUE, key |-> Escaped[key]]
      \/ /\ provider = "aws-s3"
         /\ n = [envelope |-> "eventbridge", created |-> TRUE, key |-> key]
  BY DEF Sent, CreationNotices
<1> QED
  BY <1>2, <1>3, <1>4

LEMMA AcceptedNames ==
    ASSUME Accepted
    PROVE  /\ Outcome.filename = Decoded(n.key)[Len(Decoded(n.key))]
           /\ Outcome.videoId \in {"unknown", parseStorageKey(n.key).videoId}
           /\ \/ Outcome.videoId = parseStorageKey(n.key).videoId
              \/ parseStorageKey(n.key).videoId = parseStorageKey(n.key).filename
<1>1. Outcome = MinioParseEvent(n) \/ Outcome = S3ParseEvent(n)
  BY DEF Accepted, Outcome, ParseWebhook, ParseError
<1>2. \/ Outcome = newStorageDomainEvent(parseStorageKey(n.key), n.key)
      \/ Outcome = newStorageDomainEvent(s3StorageKey(n.key), n.key)
  BY <1>1 DEF Accepted, MinioParseEvent, S3ParseEvent, ParseError, Ignored
<1>3. PICK v, f : parseStorageKey(n.key) = [videoId |-> v, filename |-> f]
                  /\ f = Decoded(n.key)[Len(Decoded(n.key))]
  BY DEF parseStorageKey
<1>4. s3StorageKey(n.key) \in {[videoId |-> v, filename |-> f],
                               [videoId |-> "unknown", filename |-> f]}
      /\ (s3StorageKey(n.key) = [videoId |-> v, filename |-> f] \/ v = f)
  BY <1>3 DEF s3StorageKey
<1> QED
  BY <1>2, <1>3, <1>4 DEF newStorageDomainEvent

(* A creation notice with an encoded key is filed under the last two names *)
(* of the object, for every encoding that QueryUnescape undoes             *)
(* (common_storage.go:82-109, minio_adapter.go:46-68, s3_adapter.go:41-80). *)
THEOREM NoticesNameObjects == Spec => []NoticeNamesObject
<1>1. CallInv => NoticeNamesObject
  <2> SUFFICES ASSUME CallInv, Sent, Accepted, n.envelope = "records"
               PROVE  /\ Outcome.filename = key[Len(key)]
                      /\ Outcome.videoId \in
                            {"unknown", key[IF Len(key) > 1 THEN Len(key) - 1 ELSE 1]}
    BY DEF NoticeNamesObject
  <2>1. Decoded(n.key) = key
    BY NoticeKey
  <2>2. parseStorageKey(n.key).videoId
           = key[IF Len(key) > 1 THEN Len(key) - 1 ELSE Len(key)]
    BY <2>1 DEF parseStorageKey
  <2>3. Len(key) > 1 \/ Len(key) = 1
    <3>1. key \in Seq(STRING) /\ key # <<>>
      BY NoticeKey, KeysAssumption DEF KeysAssumption, Stored, NoKey
    <3>2. Len(key) \in Nat \ {0}
      BY <3>1, EmptySeq, Zenon
    <3> QED
      BY <3>2
  <2> QED
    BY <2>1, <2>2, <2>3, AcceptedNames
<1> QED
  BY <1>1, CallInvariant, PTL

(* No encoding and no envelope gets a pipeline output past the filter, and *)
(* an upload is only taken for one if its own name reads as one when it is *)
(* decoded once too often (common_storage.go:26-38).                       *)
THEOREM OutputsAreIgnored == Spec => []OutputsIgnored
<1>1. CallInv => OutputsIgnored
  <2> SUFFICES ASSUME CallInv, Sent, provider \in storageAdapters
               PROVE  /\ IsOutput => Outcome = Ignored
                      /\ Outcome = Ignored =>
                            IsOutput \/ (n.key = key /\ Decoded(key) # key)
    BY DEF OutputsIgnored
  <2>1. Outcome = Ignored <=> isPipelineOutputKey(n.key)
    <3>1. \/ Outcome = MinioParseEvent(n) /\ n.envelope = "records"
          \/ Outcome = S3ParseEvent(n)
      BY NoticeKey DEF Outcome, ParseWebhook, storageAdapters
    <3>2. newStorageDomainEvent(parseStorageKey(n.key), n.key) # Ignored
          /\ newStorageDomainEvent(s3StorageKey(n.key), n.key) # Ignored
      <4>1. \A names, k : newStorageDomainEvent(names, k).result = "event"
        BY DEF newStorageDomainEvent
      <4>2. Ignored.result # "event"
        BY DEF Ignored
      <4> QED
        BY <4>1, <4>2
    <3>3. n.key # NoKey /\ n.created = TRUE /\ n.envelope # "none"
      BY NoticeKey
    <3> QED
      BY <3>1, <3>2, <3>3 DEF MinioParseEvent, S3ParseEvent
  <2>2. IsOutput <=> Len(key) > 1 /\ key[1] \in pipelineOutputPrefixes
    BY DEF IsOutput, pipelineOutputPrefixes
  <2>3. CASE Decoded(n.key) = key
    BY <2>1, <2>2, <2>3 DEF isPipelineOutputKey
  <2>4. CASE n.key = key
    <3>1. IsOutput => isPipelineOutputKey(n.key)
      BY <2>2, <2>4, DecodingAssumption
         DEF DecodingAssumption, Decoded, isPipelineOutputKey
    <3> QED
      BY <2>1, <2>3, <2>4, <3>1
  <2> QED
    BY <2>3, <2>4, NoticeKey
<1> QED
  BY <1>1, CallInvariant, PTL

(* GET /videos files a stored object under the video its notification      *)
(* names (common_storage.go:82-97, 121-143).                               *)
THEOREM ListingAgrees == Spec => []ListingAgreesWithNotice
<1>1. CallInv => ListingAgreesWithNotice
  <2> SUFFICES ASSUME CallInv, Sent, Accepted, Decoded(key) = key,
                      Len(key) > 1, key[Len(key) - 1] # key[Len(key)]
               PROVE  /\ ListedVideo(key).videoId = Outcome.videoId
                      /\ ListedVideo(key).filename = Outcome.filename
    BY DEF ListingAgreesWithNotice
  <2>1. Decoded(n.key) = key
    BY NoticeKey
  <2>2. /\ parseStorageKey(n.key) = parseStorageKey(key)
        /\ parseStorageKey(key) = [videoId |-> key[Len(key) - 1],
                                   filename |-> key[Len(key)]]
    BY <2>1 DEF parseStorageKey
  <2>3. /\ ListedVideo(key).videoId = key[Len(key) - 1]
        /\ ListedVideo(key).filename = key[Len(key)]
    BY <2>2 DEF ListedVideo, newStorageDomainEvent
  <2>4. Outcome.videoId = key[Len(key) - 1] /\ Outcome.filename = key[Len(key)]
    BY <2>1, <2>2, AcceptedNames
  <2> QED
    BY <2>3, <2>4
<1> QED
  BY <1>1, CallInvariant, PTL

-----------------------------------------------------------------------------
(* Listings *)

(* A bounded, non-empty set of natural numbers has a largest one. *)
LEMMA MaxIsIn ==
    ASSUME NEW b \in Nat, NEW S, S \subseteq 1..b, S # {}
    PROVE  Max(S) \in S /\ \A j \in S : j <= Max(S)
<1> DEFINE T == {b - j : j \in S}
<1>1. T \subseteq Nat /\ T # {}
  OBVIOUS
<1>2. PICK x \in T : \A y \in T : ~ (<<y, x>> \in OpToRel(<, Nat))
  BY <1>1, WFMin, NatLessThanWellFounded, Zenon
<1>3. \A y \in T : ~(y < x)
  BY <1>1, <1>2, Zenon DEF OpToRel
<1>4. PICK j \in S : x = b - j
  OBVIOUS
<1>5. \A i \in S : i \in Nat /\ j >= i
  <2> TAKE i \in S
  <2>1. b - i \in T
    OBVIOUS
  <2>2. ~(b - i < b - j)
    BY <1>3, <1>4, <2>1
  <2> QED
    BY <2>2
<1> QED
  BY <1>5 DEF Max

(* What the stores list is a finite sequence. *)
LEMMA ListVideosIsSeq ==
    ASSUME NEW p, NEW O, NEW bucket \in Seq(O)
    PROVE  \E V : ListVideos(p, bucket) \in Seq(V)
<1> DEFINE kept == {i \in DOMAIN bucket : isListed(bucket[i].key)}
           all  == ListVideos(p, bucket)
<1>1. IsFiniteSet(kept)
  BY FS_Interval, FS_Subset
<1>2. PICK m \in Nat : m = Cardinality(kept)
  BY <1>1, FS_CardinalityType
<1>3. all = [i \in 1..m |-> all[i]]
  BY <1>2 DEF ListVideos
<1> HIDE DEF all
<1> DEFINE V == {all[i] : i \in 1..m}
<1>4. all \in [1..m -> V]
  BY <1>3
<1>5. all \in Seq(V)
  BY <1>4
<1> QED
  BY <1>5 DEF all

LEMMA ListedIsSeq ==
    ASSUME NEW O, NEW buckets \in [storageAdapters -> Seq(O)], NEW down
    PROVE  \E V : Listed(buckets, down) \in Seq(V)
<1> DEFINE from(p) == IF p \in down THEN <<>> ELSE ListVideos(p, buckets[p])
<1>1. ASSUME NEW p \in storageAdapters PROVE \E V : from(p) \in Seq(V)
  <2>1. CASE p \in down
    BY <2>1
  <2>2. CASE p \notin down
    <3>1. buckets[p] \in Seq(O)
      OBVIOUS
    <3> QED
      BY <2>2, <3>1, ListVideosIsSeq
  <2> QED
    BY <2>1, <2>2
<1>2. PICK V : from("minio") \in Seq(V)
  BY <1>1 DEF storageAdapters
<1>3. PICK W : from("aws-s3") \in Seq(W)
  BY <1>1 DEF storageAdapters
<1>4. Listed(buckets, down) = from("minio") \o from("aws-s3")
  BY DEF Listed
<1> HIDE DEF from
<1>5. from("minio") \in Seq(V \cup W) /\ from("aws-s3") \in Seq(V \cup W)
  BY <1>2, <1>3
<1>6. Listed(buckets, down) \in Seq(V \cup W)
  BY <1>4, <1>5
<1> QED
  BY <1>6

(* An object gives a document what the document lacks, and nothing else.   *)
Kept(video, doc) ==
    /\ video.provider = doc.provider /\ video.status = doc.status
    /\ video.createdAt = doc.createdAt
    /\ doc.size # 0 => video.size = doc.size
    /\ doc.videoId # "" => video.videoId = doc.videoId
    /\ doc.filename # "" => video.filename = doc.filename

Taken(video, doc, o) ==
    /\ video.size     \in {doc.size, o.size}
    /\ video.videoId  \in {doc.videoId, o.videoId}
    /\ video.filename \in {doc.filename, o.filename}

LEMMA MergeGivesWhatLacks ==
    ASSUME NEW doc \in Document, NEW o
    PROVE  Kept(mergeVideo(doc, o), doc) /\ Taken(mergeVideo(doc, o), doc, o)
<1> DEFINE id   == IF doc.videoId = "" THEN o.videoId ELSE doc.videoId
           name == IF doc.filename = "" THEN o.filename ELSE doc.filename
           size == IF doc.size = 0 THEN o.size ELSE doc.size
           video == mergeVideo(doc, o)
<1>1. video = [[[[[doc EXCEPT !.videoId = id] EXCEPT !.filename = name]
                  EXCEPT !.size = size] EXCEPT !.status = doc.status]
                  EXCEPT !.createdAt = doc.createdAt]
  BY DEF mergeVideo, Document
<1> HIDE DEF video, id, name, size
<1>2. /\ video.provider = doc.provider /\ video.status = doc.status
      /\ video.createdAt = doc.createdAt
      /\ video.size = size /\ video.videoId = id /\ video.filename = name
  BY <1>1 DEF Document
<1> USE DEF id, name, size
<1>3. Kept(video, doc)
  BY <1>2 DEF Kept
<1>4. Taken(video, doc, o)
  BY <1>2 DEF Taken
<1> QED
  BY <1>3, <1>4 DEF video

(* Names without a bar are told apart by the key. *)
LEMMA UnbarredNames ==
    ASSUME NEW o, NEW doc, videoMatchKey(o) = videoMatchKey(doc),
           Unbarred(o), Unbarred(doc)
    PROVE  /\ Lower(o.provider) = Lower(doc.provider)
           /\ Lower(o.videoId) = Lower(doc.videoId)
           /\ Lower(o.filename) = Lower(doc.filename)
<1>1. ASSUME NEW v, Unbarred(v)
      PROVE  LET names == videoMatchKey(v)
             IN  /\ names[1] = Lower(v.provider) /\ names[2] = Lower(v.videoId)
                 /\ names[3] = Lower(v.filename)
  <2> DEFINE a == Lower(v.provider)  b == Lower(v.videoId)  c == Lower(v.filename)
             W == {a, b, c}
             ab == <<a>> \o <<b>>
             abc == ab \o <<c>>
  <2>1. a \notin DOMAIN Barred /\ b \notin DOMAIN Barred /\ c \notin DOMAIN Barred
    BY <1>1 DEF Unbarred
  <2>2. videoMatchKey(v) = abc
    BY <2>1 DEF videoMatchKey, Parts
  <2>3. a \in W /\ b \in W /\ c \in W
    OBVIOUS
  <2> HIDE DEF a, b, c, W
  <2>4. /\ <<a>> \in Seq(W) /\ Len(<<a>>) = 1 /\ <<a>>[1] = a
        /\ <<b>> \in Seq(W) /\ Len(<<b>>) = 1 /\ <<b>>[1] = b
        /\ <<c>> \in Seq(W) /\ Len(<<c>>) = 1 /\ <<c>>[1] = c
    BY <2>3
  <2>5. ab \in Seq(W) /\ Len(ab) = 2 /\ ab[1] = a /\ ab[2] = b
    BY <2>4
  <2> HIDE DEF ab
  <2>6. abc[1] = a /\ abc[2] = b /\ abc[3] = c
    <3> DEFINE t == <<c>>
    <3> HIDE DEF t
    <3>1. t \in Seq(W) /\ Len(t) = 1 /\ t[1] = c
      BY <2>4 DEF t
    <3>2. PICK r : r = ab \o t
      OBVIOUS
    <3>3. \A i \in 1..3 : r[i] = IF i <= 2 THEN ab[i] ELSE t[i - 2]
      BY <2>5, <3>1, <3>2, ConcatProperties
    <3>4. r[1] = a /\ r[2] = b
      BY <2>5, <3>3
    <3>5. r[3] = t[3 - 2] /\ 3 - 2 = 1
      BY <3>3
    <3>6. r[3] = c
      BY <3>1, <3>5
    <3> QED
      BY <3>2, <3>4, <3>6 DEF t
  <2> QED
    BY <2>2, <2>6 DEF a, b, c
<1> QED
  BY <1>1

(* Whatever the stores list, a document is answered as it is, or with what *)
(* it lacks from an object of its key.                                     *)
LEMMA MergeKeepsDocuments ==
    ASSUME NEW docs \in Seq(Document), NEW V, NEW objects \in Seq(V),
           NEW i \in DOMAIN docs
    PROVE  LET doc == docs[i]  video == mergeVideosByMatch(docs, objects)[i]
           IN  /\ Kept(video, doc)
               /\ \/ video = doc
                  \/ \E j \in DOMAIN objects : ShownFrom(video, doc, objects[j])
<1> DEFINE doc == docs[i]
           matches == {j \in DOMAIN objects :
                          videoMatchKey(objects[j]) = videoMatchKey(doc)}
           video == mergeVideosByMatch(docs, objects)[i]
<1>1. doc \in Document
  OBVIOUS
<1>2. video = IF matches = {} THEN doc ELSE mergeVideo(doc, objects[Max(matches)])
  BY DEF mergeVideosByMatch
<1>3. matches \subseteq 1..Len(objects) /\ Len(objects) \in Nat
  OBVIOUS
<1>4. matches # {} => Max(matches) \in matches
  BY <1>3, MaxIsIn
<1>5. CASE matches = {}
  BY <1>2, <1>5 DEF Kept
<1>6. CASE matches # {}
  <2>1. PICK j \in matches : j = Max(matches)
    BY <1>4, <1>6
  <2>2. j \in DOMAIN objects /\ videoMatchKey(objects[j]) = videoMatchKey(doc)
    BY <2>1
  <2>3. video = mergeVideo(doc, objects[j])
    BY <1>2, <1>6, <2>1
  <2> HIDE DEF doc, video, matches
  <2>4. Kept(video, doc) /\ Taken(video, doc, objects[j])
    BY <1>1, <2>3, MergeGivesWhatLacks
  <2>5. ShownFrom(video, doc, objects[j])
    BY <2>2, <2>4, UnbarredNames DEF ShownFrom, Taken
  <2> QED
    BY <2>2, <2>4, <2>5 DEF doc, video
<1> QED
  BY <1>5, <1>6

(* Whatever fails, and whatever the stores hold, GET /videos answers each  *)
(* document that it has read, once and in order, with a link under the     *)
(* names it shows or none, and takes only what the document lacks, from    *)
(* one object that is listed under the document's match key.  Of names     *)
(* without a "|" that is an object of the same names (service.go:36-49,    *)
(* 117-166).                                                               *)
THEOREM AnswersTheCatalog == Spec => []AnswerIsTheCatalog
<1>1. CallInv => AnswerIsTheCatalog
  <2> SUFFICES ASSUME CallInv, listing # None PROVE AnswerIsTheCatalog
    BY DEF AnswerIsTheCatalog
  <2> DEFINE docs   == listing.catalog
             all    == Listed(listing.buckets, listing.down)
             synced == collectStorageVideos(docs, all, listing.saves)
             merged == mergeVideosByMatch(docs, synced.videos)
  <2>1. /\ docs \in Seq(Document)
        /\ listing.buckets \in [storageAdapters -> Seq(StoredObject)]
    BY CallsAssumption DEF CallInv, Listings, CallsAssumption
  <2>2. listed = all /\ now.answer = enrichVideos(merged, listing.down)
    BY DEF CallInv, ListAllVideos
  <2>3. PICK V : all \in Seq(V)
    BY <2>1, ListedIsSeq
  <2>4. synced.videos \in {<<>>, all}
    BY DEF collectStorageVideos
  <2>5. DOMAIN merged = DOMAIN docs
    BY DEF mergeVideosByMatch
  <2>6. now.answer = [i \in DOMAIN docs |->
           [video |-> merged[i], url |-> generatePresignedURL(merged[i], listing.down)]]
    BY <2>2, <2>5 DEF enrichVideos
  <2>7. synced.videos \in Seq(V)
    <3> HIDE DEF synced, all
    <3>1. <<>> \in Seq(V)
      OBVIOUS
    <3> QED
      BY <2>3, <2>4, <3>1
  <2>8. ASSUME NEW i \in DOMAIN docs
        PROVE  /\ Kept(merged[i], docs[i])
               /\ \/ merged[i] = docs[i]
                  \/ \E o \in ToSet(all) : ShownFrom(merged[i], docs[i], o)
    <3> HIDE DEF docs, synced, all
    <3>1. \A j \in DOMAIN synced.videos : synced.videos[j] \in ToSet(all)
      BY <2>4 DEF ToSet
    <3> QED
      BY <2>1, <2>7, <2>8, <3>1, MergeKeepsDocuments
  <2> HIDE DEF docs, all, synced, merged
  <2>9. Len(now.answer) = Len(docs)
    BY <2>1, <2>6
  <2>10. ASSUME NEW i \in DOMAIN docs
         PROVE  /\ now.answer[i].video = merged[i]
                /\ now.answer[i].url \in {NoURL, <<merged[i].provider,
                                        <<merged[i].videoId, merged[i].filename>>>>}
    BY <2>6 DEF generatePresignedURL
  <2>11. ASSUME NEW i \in DOMAIN docs
         PROVE  LET doc == docs[i]  video == now.answer[i].video
                IN  /\ Kept(video, doc)
                    /\ now.answer[i].url \in
                          {NoURL, <<video.provider, <<video.videoId, video.filename>>>>}
                    /\ video = doc \/ \E o \in ToSet(listed) : ShownFrom(video, doc, o)
    <3>1. \/ merged[i] = docs[i]
          \/ \E o \in ToSet(listed) : ShownFrom(merged[i], docs[i], o)
      BY <2>2, <2>8
    <3>2. Kept(merged[i], docs[i])
      BY <2>8
    <3> QED
      BY <2>10, <3>1, <3>2
  <2> QED
    BY <2>9, <2>11 DEF AnswerIsTheCatalog, Kept, docs
<1> QED
  BY <1>1, CallInvariant, PTL

-----------------------------------------------------------------------------
(* What the loop of saves leaves in the catalogue *)

(* A set of natural numbers with 0 and the successors of its members has   *)
(* all of them.                                                            *)
LEMMA AllNumbers ==
    ASSUME NEW S \in SUBSET Nat, 0 \in S, \A k \in S : k + 1 \in S
    PROVE  S = Nat
<1> SUFFICES ASSUME Nat \ S # {} PROVE FALSE
  OBVIOUS
<1>1. PICK x \in Nat \ S : \A y \in Nat \ S : ~ (<<y, x>> \in OpToRel(<, Nat))
  <2>1. Nat \ S \subseteq Nat
    OBVIOUS
  <2> QED
    BY <2>1, WFMin, NatLessThanWellFounded, Zenon
<1>2. \A y \in Nat \ S : ~(y < x)
  BY <1>1, Zenon DEF OpToRel
<1>3. x \in Nat /\ x # 0
  OBVIOUS
<1>4. x - 1 \in Nat /\ x - 1 < x
  BY <1>3
<1>5. x - 1 \in S
  BY <1>2, <1>4
<1> QED
  BY <1>3, <1>5

(* A non-empty set of natural numbers has a smallest one. *)
LEMMA MinIsIn ==
    ASSUME NEW S \in SUBSET Nat, S # {}
    PROVE  Min(S) \in S /\ \A j \in S : Min(S) <= j
<1>1. PICK x \in S : \A y \in S : ~ (<<y, x>> \in OpToRel(<, Nat))
  BY WFMin, NatLessThanWellFounded, Zenon
<1>2. \A y \in S : ~(y < x)
  BY <1>1, Zenon DEF OpToRel
<1>3. \A y \in S : x <= y
  BY <1>2
<1> QED
  BY <1>3 DEF Min

(* The video ids of the first m videos; the last video of an id; and the   *)
(* documents that Save finds, which are the first of their id.             *)
IdsIn(s, m) == {s[j].videoId : j \in 1..m}

LastOf(s, m, x) == s[Max({j \in 1..m : s[j].videoId = x})]

Leads(c, i) == \A j \in 1..(i - 1) : c[j].videoId # c[i].videoId

LEMMA LastIsOf ==
    ASSUME NEW V, NEW s \in Seq(V), NEW m \in 0..Len(s), NEW x \in IdsIn(s, m)
    PROVE  LastOf(s, m, x).videoId = x
<1> DEFINE S == {j \in 1..m : s[j].videoId = x}
<1>1. S # {}
  BY DEF IdsIn
<1>2. m \in Nat /\ S \subseteq 1..m
  OBVIOUS
<1>3. Max(S) \in S
  <2> HIDE DEF S
  <2> QED
    BY <1>1, <1>2, MaxIsIn
<1> QED
  BY <1>3 DEF LastOf

LEMMA LastAfter ==
    ASSUME NEW V, NEW s \in Seq(V), NEW m \in Nat, m < Len(s)
    PROVE  /\ IdsIn(s, m + 1) = IdsIn(s, m) \cup {s[m + 1].videoId}
           /\ LastOf(s, m + 1, s[m + 1].videoId) = s[m + 1]
           /\ \A x : x # s[m + 1].videoId => LastOf(s, m + 1, x) = LastOf(s, m, x)
<1>1. 1..(m + 1) = (1..m) \cup {m + 1}
  OBVIOUS
<1>2. IdsIn(s, m + 1) = IdsIn(s, m) \cup {s[m + 1].videoId}
  BY <1>1 DEF IdsIn
<1>3. ASSUME NEW x, x # s[m + 1].videoId
      PROVE  LastOf(s, m + 1, x) = LastOf(s, m, x)
  <2>1. {j \in 1..(m + 1) : s[j].videoId = x} = {j \in 1..m : s[j].videoId = x}
    BY <1>1, <1>3
  <2> QED
    BY <2>1 DEF LastOf
<1>4. LastOf(s, m + 1, s[m + 1].videoId) = s[m + 1]
  <2> DEFINE S == {j \in 1..(m + 1) : s[j].videoId = s[m + 1].videoId}
  <2>1. m + 1 \in S /\ S \subseteq 1..(m + 1) /\ m + 1 \in Nat
    OBVIOUS
  <2>2. Max(S) \in S /\ \A j \in S : j <= Max(S)
    <3> HIDE DEF S
    <3> QED
      BY <2>1, MaxIsIn
  <2>3. Max(S) = m + 1
    <3> HIDE DEF S
    <3>1. Max(S) \in 1..(m + 1)
      BY <2>2 DEF S
    <3> QED
      BY <2>1, <2>2, <3>1
  <2> QED
    BY <2>3 DEF LastOf
<1> QED
  BY <1>2, <1>3, <1>4

(* Save replaces the first document of the video, or adds one. *)
Saved(c, v, q) ==
    \/ /\ \A i \in 1..Len(c) : c[i].videoId # v.videoId
       /\ q = Append(c, v)
    \/ \E p \in 1..Len(c) : /\ Leads(c, p) /\ c[p].videoId = v.videoId
                            /\ q = [c EXCEPT ![p] = v]

LEMMA SaveIs ==
    ASSUME NEW V, NEW c \in Seq(V), NEW v \in V
    PROVE  Save(c, v) \in Seq(V) /\ Saved(c, v, Save(c, v))
<1> DEFINE found == {i \in DOMAIN c : c[i].videoId = v.videoId}
<1>1. Save(c, v) = IF found = {} THEN Append(c, v) ELSE [c EXCEPT ![Min(found)] = v]
  BY DEF Save
<1>2. CASE found = {}
  BY <1>1, <1>2 DEF Saved
<1>3. CASE found # {}
  <2>1. found \in SUBSET Nat
    OBVIOUS
  <2>2. PICK p \in found : p = Min(found) /\ \A j \in found : p <= j
    BY <1>3, <2>1, MinIsIn
  <2>3. Leads(c, p)
    <3>1. ASSUME NEW j \in 1..(p - 1), c[j].videoId = c[p].videoId PROVE FALSE
      <4>1. p \in 1..Len(c) /\ Len(c) \in Nat
        BY <2>2
      <4>2. j \in found /\ j < p
        BY <2>2, <3>1, <4>1
      <4>3. j \in Nat /\ p \in Nat /\ p <= j
        <5> HIDE DEF found
        <5> QED
          BY <2>1, <2>2, <4>2
      <4> QED
        BY <4>2, <4>3
    <3> QED
      BY <3>1 DEF Leads
  <2>4. Save(c, v) = [c EXCEPT ![p] = v] /\ p \in 1..Len(c) /\ c[p].videoId = v.videoId
    BY <1>1, <1>3, <2>2
  <2>5. [c EXCEPT ![p] = v] \in Seq(V)
    BY <2>4
  <2> QED
    BY <2>3, <2>4, <2>5 DEF Saved
<1> QED
  BY <1>2, <1>3

(* The catalogue r that the saves of the first m videos of s leave of c:   *)
(* of each id that is saved, the first document, or else one that is       *)
(* added, is the last video of that id, and nothing else is touched.       *)
Added(c, r) == (Len(c) + 1)..Len(r)

Leaves(c, s, m, r) ==
    /\ Len(r) >= Len(c)
    /\ \A i \in 1..Len(c) :
          r[i] = IF Leads(c, i) /\ c[i].videoId \in IdsIn(s, m)
                 THEN LastOf(s, m, c[i].videoId) ELSE c[i]
    /\ \A i \in Added(c, r) :
          /\ r[i].videoId \in IdsIn(s, m) \ IdsIn(c, Len(c))
          /\ r[i] = LastOf(s, m, r[i].videoId)
    /\ \A i, j \in Added(c, r) : r[i].videoId = r[j].videoId => i = j
    /\ \A x \in IdsIn(s, m) \ IdsIn(c, Len(c)) :
          \E i \in Added(c, r) : r[i].videoId = x

(* No document changes its id. *)
LEMMA LeavesIds ==
    ASSUME NEW V, NEW c \in Seq(V), NEW s \in Seq(V), NEW m \in 0..Len(s),
           NEW r \in Seq(V), Leaves(c, s, m, r)
    PROVE  /\ \A i \in 1..Len(c) : r[i].videoId = c[i].videoId
           /\ \A i \in 1..Len(c) : Leads(r, i) <=> Leads(c, i)
           /\ IdsIn(c, Len(c)) \subseteq IdsIn(r, Len(r))
<1>1. ASSUME NEW i \in 1..Len(c) PROVE r[i].videoId = c[i].videoId
  <2>1. CASE Leads(c, i) /\ c[i].videoId \in IdsIn(s, m)
    <3>1. r[i] = LastOf(s, m, c[i].videoId)
      BY <2>1 DEF Leaves
    <3> QED
      BY <2>1, <3>1, LastIsOf
  <2>2. CASE ~(Leads(c, i) /\ c[i].videoId \in IdsIn(s, m))
    <3>1. r[i] = c[i]
      BY <2>2 DEF Leaves
    <3> QED
      BY <3>1
  <2> QED
    BY <2>1, <2>2
<1>2. Len(c) \in Nat /\ Len(r) \in Nat /\ Len(c) <= Len(r)
  BY DEF Leaves
<1>3. \A i \in 1..Len(c) : Leads(r, i) <=> Leads(c, i)
  <2> TAKE i \in 1..Len(c)
  <2>1. 1..(i - 1) \subseteq 1..Len(c)
    BY <1>2
  <2> QED
    BY <1>1, <2>1 DEF Leads
<1>4. IdsIn(c, Len(c)) \subseteq IdsIn(r, Len(r))
  BY <1>1, <1>2 DEF IdsIn
<1> QED
  BY <1>1, <1>3, <1>4

LEMMA NothingSaved ==
    ASSUME NEW V, NEW c \in Seq(V), NEW s
    PROVE  Leaves(c, s, 0, c)
<1>1. IdsIn(s, 0) = {} /\ Added(c, c) = {}
  BY DEF IdsIn, Added
<1> QED
  BY <1>1 DEF Leaves

(* The save of a new id adds a document. *)
LEMMA SaveAdds ==
    ASSUME NEW V, NEW c \in Seq(V), NEW s \in Seq(V), NEW m \in Nat, m < Len(s),
           NEW r \in Seq(V), Leaves(c, s, m, r),
           \A i \in 1..Len(r) : r[i].videoId # s[m + 1].videoId
    PROVE  Leaves(c, s, m + 1, Append(r, s[m + 1]))
<1> DEFINE v == s[m + 1]
           x == v.videoId
           q == Append(r, v)
<1>1. /\ IdsIn(s, m + 1) = IdsIn(s, m) \cup {x}
      /\ LastOf(s, m + 1, x) = v
      /\ \A y : y # x => LastOf(s, m + 1, y) = LastOf(s, m, y)
  BY LastAfter
<1>2. /\ Len(c) \in Nat /\ Len(r) \in Nat /\ Len(c) <= Len(r) /\ m \in 0..Len(s)
      /\ v \in V
  BY DEF Leaves
<1>3. Len(q) = Len(r) + 1 /\ q[Len(r) + 1] = v /\ \A i \in 1..Len(r) : q[i] = r[i]
  OBVIOUS
<1>4. /\ Added(c, q) = Added(c, r) \cup {Len(r) + 1}
      /\ Len(r) + 1 \notin Added(c, r)
      /\ Added(c, r) \subseteq 1..Len(r) /\ 1..Len(c) \subseteq 1..Len(r)
  BY <1>2, <1>3 DEF Added
<1>5. x \notin IdsIn(c, Len(c))
  BY <1>2, <1>4, LeavesIds DEF IdsIn
<1>6. x \notin IdsIn(s, m)
  BY <1>4, <1>5 DEF Leaves
<1> HIDE DEF v, x, q
<1>7. ASSUME NEW i \in 1..Len(c)
      PROVE  q[i] = IF Leads(c, i) /\ c[i].videoId \in IdsIn(s, m + 1)
                    THEN LastOf(s, m + 1, c[i].videoId) ELSE c[i]
  <2>1. c[i].videoId # x
    BY <1>5 DEF IdsIn
  <2>2. q[i] = r[i]
    BY <1>3, <1>4
  <2> QED
    BY <1>1, <2>1, <2>2 DEF Leaves
<1>8. ASSUME NEW i \in Added(c, q)
      PROVE  /\ q[i].videoId \in IdsIn(s, m + 1) \ IdsIn(c, Len(c))
             /\ q[i] = LastOf(s, m + 1, q[i].videoId)
  <2>1. CASE i = Len(r) + 1
    BY <1>1, <1>3, <1>5, <2>1 DEF x
  <2>2. CASE i \in Added(c, r)
    <3>1. q[i] = r[i] /\ r[i].videoId # x
      BY <1>3, <1>4, <2>2 DEF x, v
    <3> QED
      BY <1>1, <2>2, <3>1 DEF Leaves
  <2> QED
    BY <1>4, <2>1, <2>2
<1>9. ASSUME NEW i \in Added(c, q), NEW j \in Added(c, q), q[i].videoId = q[j].videoId
      PROVE  i = j
  <2>1. \A k \in Added(c, r) : q[k] = r[k] /\ q[k].videoId # x
    BY <1>3, <1>4 DEF x, v
  <2>2. q[Len(r) + 1].videoId = x
    BY <1>3 DEF x
  <2>3. CASE i \in Added(c, r) /\ j \in Added(c, r)
    BY <1>9, <2>1, <2>3 DEF Leaves
  <2> QED
    BY <1>4, <1>9, <2>1, <2>2, <2>3
<1>10. ASSUME NEW y \in IdsIn(s, m + 1) \ IdsIn(c, Len(c))
       PROVE  \E i \in Added(c, q) : q[i].videoId = y
  <2>1. CASE y = x
    BY <1>3, <1>4, <2>1 DEF x
  <2>2. CASE y # x
    <3>1. PICK i \in Added(c, r) : r[i].videoId = y
      BY <1>1, <2>2 DEF Leaves
    <3> QED
      BY <1>3, <1>4, <3>1
  <2> QED
    BY <2>1, <2>2
<1>11. Len(q) >= Len(c)
  BY <1>2, <1>3
<1>12. Leaves(c, s, m + 1, q)
  BY <1>7, <1>8, <1>9, <1>10, <1>11 DEF Leaves
<1> QED
  BY <1>12 DEF q, v

(* The save of an id the catalogue has replaces its first document. *)
LEMMA SaveReplaces ==
    ASSUME NEW V, NEW c \in Seq(V), NEW s \in Seq(V), NEW m \in Nat, m < Len(s),
           NEW r \in Seq(V), Leaves(c, s, m, r),
           NEW p \in 1..Len(r), Leads(r, p), r[p].videoId = s[m + 1].videoId
    PROVE  Leaves(c, s, m + 1, [r EXCEPT ![p] = s[m + 1]])
<1> DEFINE v == s[m + 1]
           x == v.videoId
           q == [r EXCEPT ![p] = v]
<1>1. /\ IdsIn(s, m + 1) = IdsIn(s, m) \cup {x}
      /\ LastOf(s, m + 1, x) = v
      /\ \A y : y # x => LastOf(s, m + 1, y) = LastOf(s, m, y)
  BY LastAfter
<1>2. /\ Len(c) \in Nat /\ Len(r) \in Nat /\ Len(c) <= Len(r) /\ m \in 0..Len(s)
      /\ v \in V
  BY DEF Leaves
<1>3. /\ Len(q) = Len(r) /\ q[p] = v /\ \A i \in 1..Len(r) : i # p => q[i] = r[i]
      /\ \A i \in 1..Len(r) : q[i].videoId = r[i].videoId
  OBVIOUS
<1>4. /\ Added(c, q) = Added(c, r) /\ Added(c, r) \subseteq 1..Len(r)
      /\ 1..Len(c) \subseteq 1..Len(r) /\ 1..Len(r) = 1..Len(c) \cup Added(c, r)
      /\ \A i \in Added(c, r) : i \notin 1..Len(c)
  BY <1>2, <1>3 DEF Added
<1>5. /\ \A i \in 1..Len(c) : r[i].videoId = c[i].videoId
      /\ \A i \in 1..Len(c) : Leads(r, i) <=> Leads(c, i)
  BY <1>2, LeavesIds
<1>0. r[p].videoId = x /\ Leads(r, p)
  OBVIOUS
<1> HIDE DEF v, x, q
(* Two leading documents have two ids. *)
<1>6. ASSUME NEW i \in 1..Len(c), Leads(c, i), c[i].videoId = x PROVE i = p
  <2>1. Leads(r, i) /\ r[i].videoId = x
    BY <1>5, <1>6
  <2>2. ~(i < p) /\ ~(p < i)
    BY <1>0, <1>2, <2>1 DEF Leads
  <2> QED
    BY <1>2, <2>2
<1>7. ASSUME NEW i \in 1..Len(c)
      PROVE  q[i] = IF Leads(c, i) /\ c[i].videoId \in IdsIn(s, m + 1)
                    THEN LastOf(s, m + 1, c[i].videoId) ELSE c[i]
  <2>1. CASE i = p
    <3>1. Leads(c, i) /\ c[i].videoId = x /\ q[i] = v
      BY <1>0, <1>3, <1>5, <2>1
    <3> QED
      BY <1>1, <3>1
  <2>2. CASE i # p
    <3>1. q[i] = r[i]
      BY <1>3, <1>4, <2>2
    <3>2. r[i] = IF Leads(c, i) /\ c[i].videoId \in IdsIn(s, m)
                 THEN LastOf(s, m, c[i].videoId) ELSE c[i]
      BY DEF Leaves
    <3>3. ~(Leads(c, i) /\ c[i].videoId = x)
      BY <1>6, <2>2
    <3> QED
      BY <1>1, <3>1, <3>2, <3>3
  <2> QED
    BY <2>1, <2>2
<1>8. ASSUME NEW i \in Added(c, q)
      PROVE  /\ q[i].videoId \in IdsIn(s, m + 1) \ IdsIn(c, Len(c))
             /\ q[i] = LastOf(s, m + 1, q[i].videoId)
  <2>0. /\ i \in Added(c, r) /\ i \in 1..Len(r) /\ q[i].videoId = r[i].videoId
        /\ r[i].videoId \in IdsIn(s, m) \ IdsIn(c, Len(c))
        /\ r[i] = LastOf(s, m, r[i].videoId)
    BY <1>3, <1>4, <1>8 DEF Leaves
  <2>1. CASE i = p
    BY <1>0, <1>1, <1>3, <2>0, <2>1
  <2>2. CASE i # p
    <3>1. q[i] = r[i]
      BY <1>3, <2>0, <2>2
    <3>2. r[i].videoId # x
      <4>1. CASE p \in Added(c, r)
        BY <1>0, <2>0, <2>2, <4>1 DEF Leaves
      <4>2. CASE p \in 1..Len(c)
        BY <1>0, <1>5, <2>0, <4>2 DEF IdsIn
      <4> QED
        BY <1>4, <4>1, <4>2
    <3> QED
      BY <1>1, <2>0, <3>1, <3>2
  <2> QED
    BY <2>1, <2>2
<1>9. ASSUME NEW i \in Added(c, q), NEW j \in Added(c, q), q[i].videoId = q[j].videoId
      PROVE  i = j
  BY <1>3, <1>4, <1>9 DEF Leaves
<1>10. ASSUME NEW y \in IdsIn(s, m + 1) \ IdsIn(c, Len(c))
       PROVE  \E i \in Added(c, q) : q[i].videoId = y
  <2>1. CASE y = x
    <3>1. p \in Added(c, r)
      <4>1. p \notin 1..Len(c)
        BY <1>0, <1>5, <1>10, <2>1 DEF IdsIn
      <4> QED
        BY <1>4, <4>1
    <3> QED
      BY <1>0, <1>3, <1>4, <2>1, <3>1
  <2>2. CASE y # x
    <3>1. PICK i \in Added(c, r) : r[i].videoId = y
      BY <1>1, <1>10, <2>2 DEF Leaves
    <3> QED
      BY <1>3, <1>4, <3>1
  <2> QED
    BY <2>1, <2>2
<1>11. Len(q) >= Len(c)
  BY <1>2, <1>3
<1>12. Leaves(c, s, m + 1, q)
  BY <1>7, <1>8, <1>9, <1>10, <1>11 DEF Leaves
<1> QED
  BY <1>12 DEF q, v

LEMMA SaveLeaves ==
    ASSUME NEW V, NEW c \in Seq(V), NEW s \in Seq(V), NEW m \in Nat, m < Len(s),
           NEW r \in Seq(V), Leaves(c, s, m, r)
    PROVE  Save(r, s[m + 1]) \in Seq(V) /\ Leaves(c, s, m + 1, Save(r, s[m + 1]))
<1>1. PICK v \in V : v = s[m + 1]
  OBVIOUS
<1>2. Save(r, v) \in Seq(V) /\ Saved(r, v, Save(r, v))
  BY SaveIs
<1>3. ASSUME \A i \in 1..Len(r) : r[i].videoId # v.videoId
      PROVE  Leaves(c, s, m + 1, Append(r, v))
  BY <1>1, <1>3, SaveAdds
<1>4. ASSUME NEW p \in 1..Len(r), Leads(r, p), r[p].videoId = v.videoId
      PROVE  Leaves(c, s, m + 1, [r EXCEPT ![p] = v])
  BY <1>1, <1>4, SaveReplaces
<1>5. Leaves(c, s, m + 1, Save(r, v))
  BY <1>2, <1>3, <1>4 DEF Saved
<1> QED
  BY <1>1, <1>2, <1>5

(* f is the catalogue before the first save and after each of them.        *)
Loop(f, c, s, m) ==
    f = [k \in 0..m |-> IF k = 0 THEN c ELSE Save(f[k - 1], s[k])]

LEMMA LoopRuns ==
    ASSUME NEW c, NEW s, NEW m \in Nat
    PROVE  \E f : Loop(f, c, s, m)
<1> DEFINE S == {k \in Nat : \E f : Loop(f, c, s, k)}
<1>1. 0 \in S
  <2>1. Loop([k \in 0..0 |-> c], c, s, 0)
    BY DEF Loop
  <2> QED
    BY <2>1
<1>2. ASSUME NEW j \in S PROVE j + 1 \in S
  <2>1. PICK f : Loop(f, c, s, j)
    OBVIOUS
  <2> DEFINE g == [k \in 0..(j + 1) |-> IF k = j + 1 THEN Save(f[j], s[j + 1]) ELSE f[k]]
  <2>2. j \in Nat /\ f = [k \in 0..j |-> IF k = 0 THEN c ELSE Save(f[k - 1], s[k])]
    BY <2>1 DEF Loop
  <2>3. ASSUME NEW k \in 0..(j + 1)
        PROVE  g[k] = IF k = 0 THEN c ELSE Save(g[k - 1], s[k])
    <3>1. CASE k = j + 1
      <4>1. g[k] = Save(f[j], s[j + 1]) /\ g[k - 1] = f[j] /\ k # 0 /\ k - 1 = j
        BY <2>2, <3>1
      <4> QED
        BY <3>1, <4>1
    <3>2. CASE k \in 0..j
      <4>1. g[k] = f[k] /\ (k # 0 => g[k - 1] = f[k - 1])
        BY <2>2, <3>2
      <4>2. f[k] = IF k = 0 THEN c ELSE Save(f[k - 1], s[k])
        BY <2>2, <3>2
      <4> HIDE DEF g
      <4> QED
        BY <4>1, <4>2
    <3> QED
      BY <2>2, <3>1, <3>2
  <2>4. g = [k \in 0..(j + 1) |-> g[k]]
    OBVIOUS
  <2> HIDE DEF g
  <2>5. Loop(g, c, s, j + 1)
    BY <2>3, <2>4 DEF Loop
  <2> QED
    BY <2>2, <2>5
<1>3. S = Nat
  <2>1. S \in SUBSET Nat
    OBVIOUS
  <2> HIDE DEF S
  <2> QED
    BY <1>1, <1>2, <2>1, AllNumbers
<1> QED
  BY <1>3

LEMMA SaveAllIsLoop ==
    ASSUME NEW c, NEW s, Len(s) \in Nat
    PROVE  \E f : Loop(f, c, s, Len(s)) /\ SaveAll(c, s) = f[Len(s)]
<1> DEFINE f == CHOOSE h : h = [k \in 0..Len(s) |->
                                   IF k = 0 THEN c ELSE Save(h[k - 1], s[k])]
<1>1. Loop(f, c, s, Len(s))
  <2>1. \E h : h = [k \in 0..Len(s) |-> IF k = 0 THEN c ELSE Save(h[k - 1], s[k])]
    <3>1. PICK h : Loop(h, c, s, Len(s))
      BY LoopRuns
    <3> QED
      BY <3>1, Zenon DEF Loop
  <2>2. f = [k \in 0..Len(s) |-> IF k = 0 THEN c ELSE Save(f[k - 1], s[k])]
    <3> HIDE DEF f
    <3> QED
      BY <2>1, Zenon DEF f
  <2> HIDE DEF f
  <2> QED
    BY <2>2 DEF Loop
<1>2. SaveAll(c, s) = f[Len(s)]
  BY Zenon DEF SaveAll
<1> QED
  BY <1>1, <1>2

LEMMA SaveAllLeaves ==
    ASSUME NEW V, NEW c \in Seq(V), NEW s \in Seq(V)
    PROVE  SaveAll(c, s) \in Seq(V) /\ Leaves(c, s, Len(s), SaveAll(c, s))
<1>1. Len(s) \in Nat
  OBVIOUS
<1>2. PICK f : Loop(f, c, s, Len(s)) /\ SaveAll(c, s) = f[Len(s)]
  BY <1>1, SaveAllIsLoop
<1>3. f[0] = c /\ \A k \in 0..Len(s) : k # 0 => f[k] = Save(f[k - 1], s[k])
  <2>1. f = [k \in 0..Len(s) |-> IF k = 0 THEN c ELSE Save(f[k - 1], s[k])]
    BY <1>2, Zenon DEF Loop
  <2>2. \A k \in 0..Len(s) : f[k] = IF k = 0 THEN c ELSE Save(f[k - 1], s[k])
    BY <2>1, Zenon
  <2>3. 0 \in 0..Len(s)
    BY <1>1
  <2> QED
    BY <2>2, <2>3, Zenon
<1> DEFINE Good(k) == f[k] \in Seq(V) /\ Leaves(c, s, k, f[k])
           S == {k \in Nat : k <= Len(s) => Good(k)}
<1>4. 0 \in S
  BY <1>3, NothingSaved
<1>5. ASSUME NEW k \in S PROVE k + 1 \in S
  <2>1. CASE k + 1 > Len(s)
    BY <1>1, <2>1
  <2>2. CASE k + 1 <= Len(s)
    <3>1. k \in Nat /\ k < Len(s) /\ k + 1 \in 0..Len(s) /\ k + 1 # 0 /\ (k + 1) - 1 = k
      BY <1>1, <2>2
    <3>2. f[k] \in Seq(V) /\ Leaves(c, s, k, f[k])
      BY <1>5, <3>1
    <3>3. f[k + 1] = Save(f[k], s[k + 1])
      BY <1>3, <3>1
    <3>4. Good(k + 1)
      BY <3>1, <3>2, <3>3, SaveLeaves
    <3> QED
      BY <3>1, <3>4
  <2> QED
    BY <1>1, <2>1, <2>2
<1>6. S = Nat
  <2>1. S \in SUBSET Nat
    OBVIOUS
  <2> HIDE DEF S
  <2> QED
    BY <1>4, <1>5, <2>1, AllNumbers
<1>7. Good(Len(s))
  BY <1>1, <1>6
<1> QED
  BY <1>2, <1>7

(* Saves that fail half way are made good by those of a later listing that *)
(* has their ids.                                                          *)
LEMMA LeavesAgain ==
    ASSUME NEW V, NEW c \in Seq(V), NEW p \in Seq(V), NEW s \in Seq(V),
           NEW q \in Seq(V), NEW r \in Seq(V),
           Leaves(c, p, Len(p), q), Leaves(q, s, Len(s), r),
           IdsIn(p, Len(p)) \subseteq IdsIn(s, Len(s))
    PROVE  Leaves(c, s, Len(s), r)
<1> DEFINE old  == IdsIn(c, Len(c))
           seen == IdsIn(s, Len(s))
           last(x) == LastOf(s, Len(s), x)
<1>1. /\ Len(c) \in Nat /\ Len(q) \in Nat /\ Len(r) \in Nat
      /\ Len(c) <= Len(q) /\ Len(q) <= Len(r)
      /\ Len(p) \in 0..Len(p) /\ Len(s) \in 0..Len(s)
  BY DEF Leaves
<1>2. /\ 1..Len(c) \subseteq 1..Len(q) /\ Added(c, q) \subseteq 1..Len(q)
      /\ Added(c, r) = Added(c, q) \cup Added(q, r)
      /\ 1..Len(q) = 1..Len(c) \cup Added(c, q)
  BY <1>1 DEF Added
<1>3. /\ \A i \in 1..Len(c) : q[i].videoId = c[i].videoId
      /\ \A i \in 1..Len(c) : Leads(q, i) <=> Leads(c, i)
      /\ old \subseteq IdsIn(q, Len(q))
  BY <1>1, LeavesIds
<1>4. \A i \in 1..Len(q) : r[i].videoId = q[i].videoId
  BY <1>1, LeavesIds
<1>5. \A x \in seen : last(x).videoId = x
  BY <1>1, LastIsOf
(* An added document leads, for no document before it has its id. *)
<1>6. ASSUME NEW i \in Added(c, q)
      PROVE  /\ q[i].videoId \in seen \ old
             /\ Leads(q, i)
  <2>1. q[i].videoId \in IdsIn(p, Len(p)) \ old
    BY DEF Leaves
  <2>2. ASSUME NEW j \in 1..(i - 1) PROVE q[j].videoId # q[i].videoId
    <3>1. j \in 1..Len(c) \/ (j \in Added(c, q) /\ j # i)
      BY <1>1 DEF Added
    <3>2. CASE j \in 1..Len(c)
      BY <1>3, <2>1, <3>2 DEF IdsIn
    <3>3. CASE j \in Added(c, q) /\ j # i
      BY <3>3 DEF Leaves
    <3> QED
      BY <3>1, <3>2, <3>3
  <2> QED
    BY <2>1, <2>2 DEF Leads
<1>7. ASSUME NEW i \in 1..Len(q)
      PROVE  r[i] = IF Leads(q, i) /\ q[i].videoId \in seen THEN last(q[i].videoId) ELSE q[i]
  BY DEF Leaves
<1>8. ASSUME NEW i \in Added(q, r)
      PROVE  /\ r[i].videoId \in seen \ IdsIn(q, Len(q))
             /\ r[i] = last(r[i].videoId)
  BY DEF Leaves
<1>9. \A i \in 1..Len(c) :
         r[i] = IF Leads(c, i) /\ c[i].videoId \in seen THEN last(c[i].videoId) ELSE c[i]
  <2> TAKE i \in 1..Len(c)
  <2>1. ~(Leads(c, i) /\ c[i].videoId \in seen) => q[i] = c[i]
    BY DEF Leaves
  <2> HIDE DEF last, seen, old
  <2> QED
    BY <1>2, <1>3, <1>7, <2>1
<1>10. \A i \in Added(c, r) : r[i].videoId \in seen \ old /\ r[i] = last(r[i].videoId)
  <2> HIDE DEF last, seen, old
  <2> TAKE i \in Added(c, r)
  <2>1. CASE i \in Added(c, q)
    BY <1>2, <1>4, <1>6, <1>7, <2>1
  <2>2. CASE i \in Added(q, r)
    BY <1>3, <1>8, <2>2
  <2> QED
    BY <1>2, <2>1, <2>2
<1>11. ASSUME NEW i \in Added(c, r), NEW j \in Added(c, r), r[i].videoId = r[j].videoId
       PROVE  i = j
  <2>1. \A a \in Added(c, q), b \in Added(q, r) : r[a].videoId # r[b].videoId
    BY <1>2, <1>4, <1>8 DEF IdsIn
  <2>2. \A a, b \in Added(c, q) : r[a].videoId = r[b].videoId => a = b
    BY <1>2, <1>4 DEF Leaves
  <2>3. \A a, b \in Added(q, r) : r[a].videoId = r[b].videoId => a = b
    BY DEF Leaves
  <2> QED
    BY <1>2, <1>11, <2>1, <2>2, <2>3
<1>12. ASSUME NEW x \in seen \ old
       PROVE  \E i \in Added(c, r) : r[i].videoId = x
  <2>1. CASE x \in IdsIn(q, Len(q))
    <3>1. PICK i \in 1..Len(q) : q[i].videoId = x
      BY <2>1 DEF IdsIn
    <3>2. i \notin 1..Len(c)
      BY <1>3, <1>12, <3>1 DEF IdsIn
    <3> QED
      BY <1>2, <1>4, <3>1, <3>2
  <2>2. CASE x \notin IdsIn(q, Len(q))
    <3>1. \E i \in Added(q, r) : r[i].videoId = x
      BY <1>12, <2>2 DEF Leaves
    <3> QED
      BY <1>2, <3>1
  <2> QED
    BY <2>1, <2>2
<1>13. Len(r) >= Len(c)
  BY <1>1
<1> QED
  BY <1>9, <1>10, <1>11, <1>12, <1>13 DEF Leaves

(* Two catalogues the same saves leave have the same documents, equally    *)
(* often: those that were there in their place, those added by their id.   *)
LEMMA NoMoreCopies ==
    ASSUME NEW V, NEW c \in Seq(V), NEW s, NEW m,
           NEW q \in Seq(V), NEW r \in Seq(V),
           Leaves(c, s, m, q), Leaves(c, s, m, r), NEW d
    PROVE  Cardinality(Copies(d, q)) <= Cardinality(Copies(d, r))
<1> DEFINE place(i) == IF i \in 1..Len(c) THEN i
                       ELSE CHOOSE j \in Added(c, r) : r[j].videoId = q[i].videoId
           f == [i \in Copies(d, q) |-> place(i)]
<1>0. /\ Len(c) \in Nat /\ Len(q) \in Nat /\ Len(r) \in Nat
      /\ Len(c) <= Len(q) /\ Len(c) <= Len(r)
      /\ DOMAIN q = 1..Len(q) /\ DOMAIN r = 1..Len(r)
  BY DEF Leaves
<1>1. /\ DOMAIN q = 1..Len(c) \cup Added(c, q)
      /\ DOMAIN r = 1..Len(c) \cup Added(c, r)
      /\ \A i \in Added(c, r) : i \notin 1..Len(c)
  BY <1>0 DEF Added
<1>2. ASSUME NEW i \in 1..Len(c) PROVE place(i) = i /\ r[i] = q[i]
  BY DEF Leaves
<1>3. ASSUME NEW i \in Added(c, q), i \notin 1..Len(c)
      PROVE  place(i) \in Added(c, r) /\ r[place(i)].videoId = q[i].videoId
             /\ r[place(i)] = q[i]
  <2>1. /\ q[i].videoId \in IdsIn(s, m) \ IdsIn(c, Len(c))
        /\ q[i] = LastOf(s, m, q[i].videoId)
    BY DEF Leaves
  <2>2. \E j \in Added(c, r) : r[j].videoId = q[i].videoId
    BY <2>1 DEF Leaves
  <2>3. PICK k \in Added(c, r) : k = place(i) /\ r[k].videoId = q[i].videoId
    BY <1>3, <2>2
  <2>4. r[k] = LastOf(s, m, r[k].videoId)
    BY DEF Leaves
  <2> HIDE DEF place
  <2> QED
    BY <2>1, <2>3, <2>4
<1> HIDE DEF place
<1>4. ASSUME NEW i \in Copies(d, q)
      PROVE  /\ \/ i \in 1..Len(c) /\ place(i) = i
                \/ /\ i \in Added(c, q) /\ i \notin 1..Len(c)
                   /\ place(i) \in Added(c, r) /\ r[place(i)].videoId = q[i].videoId
             /\ place(i) \in DOMAIN r /\ r[place(i)] = d
  <2>1. i \in DOMAIN q /\ q[i] = d
    BY DEF Copies
  <2>2. CASE i \in 1..Len(c)
    BY <1>1, <1>2, <2>1, <2>2
  <2>3. CASE i \notin 1..Len(c)
    BY <1>1, <1>3, <2>1, <2>3
  <2> QED
    BY <2>2, <2>3
<1>5. f \in [Copies(d, q) -> Copies(d, r)]
  BY <1>4 DEF Copies
<1>6. ASSUME NEW i \in Copies(d, q), NEW j \in Copies(d, q), f[i] = f[j] PROVE i = j
  <2>1. place(i) = place(j)
    BY <1>6
  <2>2. \A a, b \in Added(c, q) : q[a].videoId = q[b].videoId => a = b
    BY DEF Leaves
  <2> HIDE DEF f
  <2> QED
    BY <1>1, <1>4, <2>1, <2>2
<1>7. f \in Injection(Copies(d, q), Copies(d, r))
  BY <1>5, <1>6, Fun_IsInj
<1>8. IsFiniteSet(Copies(d, r))
  <2>1. IsFiniteSet(1..Len(r)) /\ Copies(d, r) \subseteq 1..Len(r)
    BY <1>0, FS_Interval DEF Copies
  <2> QED
    BY <2>1, FS_Subset
<1> QED
  BY <1>7, <1>8, FS_Injection

LEMMA SameCopies ==
    ASSUME NEW V, NEW c \in Seq(V), NEW s, NEW m,
           NEW q \in Seq(V), NEW r \in Seq(V),
           Leaves(c, s, m, q), Leaves(c, s, m, r), NEW d
    PROVE  Cardinality(Copies(d, q)) = Cardinality(Copies(d, r))
<1>1. \A t \in {q, r} : Cardinality(Copies(d, t)) \in Nat
  <2> TAKE t \in {q, r}
  <2>1. IsFiniteSet(1..Len(t)) /\ Copies(d, t) \subseteq 1..Len(t)
    BY FS_Interval DEF Copies
  <2> QED
    BY <2>1, FS_Subset, FS_CardinalityType
<1>2. Cardinality(Copies(d, q)) <= Cardinality(Copies(d, r))
  BY NoMoreCopies
<1>3. Cardinality(Copies(d, r)) <= Cardinality(Copies(d, q))
  BY NoMoreCopies
<1> QED
  BY <1>1, <1>2, <1>3

(* Every id that is saved is in the catalogue. *)
LEMMA SavedIsThere ==
    ASSUME NEW V, NEW c \in Seq(V), NEW s \in Seq(V), NEW m \in 0..Len(s),
           NEW r \in Seq(V), Leaves(c, s, m, r), NEW x \in IdsIn(s, m)
    PROVE  \E i \in DOMAIN r : r[i].videoId = x
<1>1. Len(c) \in Nat /\ Len(r) \in Nat /\ Len(c) <= Len(r)
  BY DEF Leaves
<1>2. 1..Len(c) \subseteq DOMAIN r /\ Added(c, r) \subseteq DOMAIN r
  BY <1>1 DEF Added
<1>3. CASE x \in IdsIn(c, Len(c))
  <2>1. \A i \in 1..Len(c) : r[i].videoId = c[i].videoId
    BY LeavesIds
  <2> QED
    BY <1>2, <1>3, <2>1 DEF IdsIn
<1>4. CASE x \notin IdsIn(c, Len(c))
  BY <1>2, <1>4 DEF Leaves
<1> QED
  BY <1>3, <1>4

(* A store that is down, and a save that fails, only leave ids out. *)
LEMMA ConcatIds ==
    ASSUME NEW V, NEW a \in Seq(V), NEW b \in Seq(V)
    PROVE  IdsIn(a \o b, Len(a \o b)) = IdsIn(a, Len(a)) \cup IdsIn(b, Len(b))
<1>1. /\ Len(a) \in Nat /\ Len(b) \in Nat /\ Len(a \o b) = Len(a) + Len(b)
      /\ \A i \in 1..Len(a) : (a \o b)[i] = a[i]
      /\ \A i \in 1..Len(b) : (a \o b)[Len(a) + i] = b[i]
  OBVIOUS
<1>2. \A i \in 1..(Len(a) + Len(b)) :
         i \in 1..Len(a) \/ \E j \in 1..Len(b) : i = Len(a) + j
  <2> TAKE i \in 1..(Len(a) + Len(b))
  <2>1. i > Len(a) => (i - Len(a)) \in 1..Len(b) /\ i = Len(a) + (i - Len(a))
    BY <1>1
  <2> QED
    BY <1>1, <2>1
<1>3. \A j \in 1..Len(b) : Len(a) + j \in 1..(Len(a) + Len(b))
  BY <1>1
<1>4. \A j \in 1..Len(a) : j \in 1..(Len(a) + Len(b))
  BY <1>1
<1> DEFINE w == a \o b
<1>5. /\ Len(w) = Len(a) + Len(b)
      /\ \A i \in 1..Len(a) : w[i] = a[i]
      /\ \A i \in 1..Len(b) : w[Len(a) + i] = b[i]
  BY <1>1
<1> HIDE DEF w
<1>6. IdsIn(w, Len(w)) = IdsIn(a, Len(a)) \cup IdsIn(b, Len(b))
  <2>1. ASSUME NEW x \in IdsIn(w, Len(w)) PROVE x \in IdsIn(a, Len(a)) \cup IdsIn(b, Len(b))
    <3>1. PICK i \in 1..(Len(a) + Len(b)) : w[i].videoId = x
      BY <1>5 DEF IdsIn
    <3> QED
      BY <1>2, <1>5, <3>1 DEF IdsIn
  <2>2. ASSUME NEW x \in IdsIn(a, Len(a)) PROVE x \in IdsIn(w, Len(w))
    BY <1>4, <1>5 DEF IdsIn
  <2>3. ASSUME NEW x \in IdsIn(b, Len(b)) PROVE x \in IdsIn(w, Len(w))
    BY <1>3, <1>5 DEF IdsIn
  <2> QED
    BY <2>1, <2>2, <2>3
<1> QED
  BY <1>6 DEF w

LEMMA ListedInWhole ==
    ASSUME NEW O, NEW buckets \in [storageAdapters -> Seq(O)], NEW down
    PROVE  LET some == Listed(buckets, down)  all == Listed(buckets, {})
           IN  IdsIn(some, Len(some)) \subseteq IdsIn(all, Len(all))
<1> DEFINE all(p)  == ListVideos(p, buckets[p])
           some(p) == IF p \in down THEN <<>> ELSE all(p)
<1>1. \A p \in storageAdapters : \E V : all(p) \in Seq(V)
  BY ListVideosIsSeq
<1>2. PICK V : all("minio") \in Seq(V)
  BY <1>1 DEF storageAdapters
<1>3. PICK W : all("aws-s3") \in Seq(W)
  BY <1>1 DEF storageAdapters
<1>4. /\ Listed(buckets, down) = some("minio") \o some("aws-s3")
      /\ Listed(buckets, {}) = all("minio") \o all("aws-s3")
  BY DEF Listed
<1>5. \A p : some(p) \in {<<>>, all(p)}
  OBVIOUS
<1> HIDE DEF some, all
<1>6. all("minio") \in Seq(V \cup W) /\ all("aws-s3") \in Seq(V \cup W)
  BY <1>2, <1>3
<1>7. <<>> \in Seq(V \cup W) /\ IdsIn(<<>>, Len(<<>>)) = {}
  BY DEF IdsIn
<1>8. some("minio") \in Seq(V \cup W) /\ some("aws-s3") \in Seq(V \cup W)
  BY <1>5, <1>6, <1>7
<1>9. \A p : IdsIn(some(p), Len(some(p))) \subseteq IdsIn(all(p), Len(all(p)))
  <2> TAKE p
  <2>1. CASE some(p) = <<>>
    BY <1>7, <2>1
  <2>2. CASE some(p) = all(p)
    BY <2>2
  <2> QED
    BY <1>5, <2>1, <2>2
<1>10. LET w == all("minio") \o all("aws-s3")
       IN  IdsIn(w, Len(w)) = IdsIn(all("minio"), Len(all("minio")))
                                \cup IdsIn(all("aws-s3"), Len(all("aws-s3")))
  BY <1>6, ConcatIds
<1>11. LET w == some("minio") \o some("aws-s3")
       IN  IdsIn(w, Len(w)) = IdsIn(some("minio"), Len(some("minio")))
                                \cup IdsIn(some("aws-s3"), Len(some("aws-s3")))
  BY <1>8, ConcatIds
<1> QED
  BY <1>4, <1>9, <1>10, <1>11

(* The catalogue of a listing that is cut short, or that lacks a store,    *)
(* becomes with the next undisturbed one what it would have become at      *)
(* once, for every catalogue, duplicates included, and every bucket: the   *)
(* same documents, each equally often, and everything listed is there      *)
(* (videos/service.go:51-58, 85-115).                                      *)
THEOREM ListingsResume == Spec => []ListingIsResumable
<1>1. CallInv => ListingIsResumable
  <2> SUFFICES ASSUME CallInv, listing # None PROVE ListingIsResumable
    BY DEF ListingIsResumable
  <2> DEFINE docs  == listing.catalog
             saved == IF listing.saves <= Len(listed) THEN SubSeq(listed, 1, listing.saves)
                                                      ELSE listed
  <2>1. /\ docs \in Seq(Document) /\ listing.saves \in Nat
        /\ listing.buckets \in [storageAdapters -> Seq(StoredObject)]
    BY CallsAssumption DEF CallInv, Listings, CallsAssumption
  <2>2. PICK W : listed \in Seq(W)
    BY <2>1, ListedIsSeq DEF CallInv
  <2>3. PICK X : whole \in Seq(X)
    BY <2>1, ListedIsSeq DEF CallInv
  <2>4. /\ now.catalog = SaveAll(docs, saved)
        /\ once.catalog = SaveAll(docs, whole)
        /\ later.catalog = SaveAll(now.catalog, whole)
    <3>1. ~(Len(whole) + 1 <= Len(whole))
      BY <2>3
    <3>2. \A d : Undisturbed(d).catalog = SaveAll(d, whole)
      BY <3>1 DEF Undisturbed, ListAllVideos, collectStorageVideos
    <3>3. now.catalog = SaveAll(docs, saved)
      BY DEF CallInv, ListAllVideos, collectStorageVideos
    <3> QED
      BY <3>2, <3>3 DEF CallInv
  <2>5. saved \in Seq(W) /\ IdsIn(saved, Len(saved)) \subseteq IdsIn(listed, Len(listed))
    <3>1. CASE listing.saves <= Len(listed)
      <4>1. /\ saved \in Seq(W) /\ Len(saved) = listing.saves
            /\ \A i \in 1..listing.saves : saved[i] = listed[i]
        BY <2>1, <2>2, <3>1
      <4>2. 1..listing.saves \subseteq 1..Len(listed)
        BY <2>1, <2>2, <3>1
      <4> HIDE DEF saved
      <4> QED
        BY <4>1, <4>2 DEF IdsIn
    <3>2. CASE ~(listing.saves <= Len(listed))
      BY <2>2, <3>2
    <3> QED
      BY <3>1, <3>2
  <2>6. IdsIn(listed, Len(listed)) \subseteq IdsIn(whole, Len(whole))
    BY <2>1, ListedInWhole DEF CallInv
  <2> DEFINE V == Document \cup (W \cup X)
  <2> HIDE DEF docs, saved
  <2>7. docs \in Seq(V) /\ saved \in Seq(V) /\ whole \in Seq(V)
    BY <2>1, <2>3, <2>5
  <2> HIDE DEF V
  <2>8. now.catalog \in Seq(V) /\ Leaves(docs, saved, Len(saved), now.catalog)
    BY <2>4, <2>7, SaveAllLeaves
  <2>9. once.catalog \in Seq(V) /\ Leaves(docs, whole, Len(whole), once.catalog)
    BY <2>4, <2>7, SaveAllLeaves
  <2>10. /\ later.catalog \in Seq(V)
         /\ Leaves(now.catalog, whole, Len(whole), later.catalog)
    BY <2>4, <2>7, <2>8, SaveAllLeaves
  <2>11. Leaves(docs, whole, Len(whole), later.catalog)
    BY <2>5, <2>6, <2>7, <2>8, <2>10, LeavesAgain
  <2>12. \A d : Cardinality(Copies(d, once.catalog)) = Cardinality(Copies(d, later.catalog))
    BY <2>7, <2>9, <2>10, <2>11, SameCopies
  <2>13. ASSUME NEW o \in ToSet(whole)
         PROVE  \E a \in ToSet(ListDatabaseVideos(later.catalog, {})) :
                    a.video.videoId = o.videoId
    <3>1. o.videoId \in IdsIn(whole, Len(whole)) /\ Len(whole) \in 0..Len(whole)
      BY <2>3 DEF ToSet, IdsIn
    <3>2. PICK i \in DOMAIN later.catalog : later.catalog[i].videoId = o.videoId
      <4> DEFINE r == later.catalog
                 m == Len(whole)
                 x == o.videoId
      <4>1. r \in Seq(V) /\ m \in 0..Len(whole) /\ x \in IdsIn(whole, m)
        BY <2>10, <3>1
      <4>2. Leaves(docs, whole, m, r)
        BY <2>11
      <4> HIDE DEF r, m, x
      <4>3. \E i \in DOMAIN r : r[i].videoId = x
        BY <2>7, <4>1, <4>2, SavedIsThere
      <4> QED
        BY <4>3 DEF r, x
    <3> DEFINE answer == ListDatabaseVideos(later.catalog, {})
    <3>3. i \in DOMAIN answer /\ answer[i].video = later.catalog[i]
      BY DEF ListDatabaseVideos, enrichVideos
    <3>4. answer[i] \in ToSet(answer)
      BY <3>3 DEF ToSet
    <3> HIDE DEF answer
    <3>5. \E a \in ToSet(answer) : a.video.videoId = o.videoId
      BY <3>2, <3>3, <3>4
    <3> QED
      BY <3>5 DEF answer
  <2> QED
    BY <2>12, <2>13 DEF ListingIsResumable
<1> QED
  BY <1>1, CallInvariant, PTL
=============================================================================
