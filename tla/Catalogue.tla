------------------------------ MODULE Catalogue -------------------------------
(***************************************************************************)
(* The answers of internal/videos: GET /videos, which synchronises the     *)
(* catalogue with the buckets, and GET /videos/database, as functions of   *)
(* the catalogue, of what the stores list and of what fails.  Ingest has   *)
(* the writes of the synchronisation step by step, among the others.       *)
(*                                                                         *)
(* A size or a time is a number, 0 where the document has none.            *)
(***************************************************************************)
EXTENDS StorageAdapters, SequencesExt

CONSTANTS Lowercase,  \* strings.ToLower, of the names that it changes
          Barred      \* the names that hold a "|", each as what stands between

NoURL == <<>>

-----------------------------------------------------------------------------
Video(videoId, filename, provider, size, status, createdAt) ==
    [videoId |-> videoId, filename |-> filename, provider |-> provider,
     size |-> size, status |-> status, createdAt |-> createdAt]

(* Mutant: an InsertOne. *)
SaveInserts(catalog, video) == Append(catalog, video)

(* MongoRepository.Save: an upsert by video id of one document. *)
Save(catalog, video) ==
    LET found == {i \in DOMAIN catalog : catalog[i].videoId = video.videoId}
    IN  IF found = {} THEN Append(catalog, video)
        ELSE [catalog EXCEPT ![Min(found)] = video]

-----------------------------------------------------------------------------
Lower(name) == IF name \in DOMAIN Lowercase THEN Lowercase[name] ELSE name

Parts(name) == IF name \in DOMAIN Barred THEN Barred[name] ELSE <<name>>

(* The names joined by "|", which they may hold themselves: as the parts   *)
(* between the bars, so the names of different videos may make one key.    *)
videoMatchKey(video) ==
    Parts(Lower(video.provider)) \o Parts(Lower(video.videoId))
        \o Parts(Lower(video.filename))

(* Mutant: what the store lists wins over the document. *)
mergeVideoPrefersStorage(mongoVideo, storageVideo) ==
    [mongoVideo EXCEPT !.size = storageVideo.size]

(* What the object has, where the document has none.  The provider has     *)
(* matched, for no provider of a listed object is empty or holds a "|".    *)
mergeVideo(mongoVideo, storageVideo) ==
    [mongoVideo EXCEPT
        !.videoId   = IF @ = "" THEN storageVideo.videoId ELSE @,
        !.filename  = IF @ = "" THEN storageVideo.filename ELSE @,
        !.size      = IF @ = 0 THEN storageVideo.size ELSE @,
        !.status    = IF @ = "" THEN storageVideo.status ELSE @,
        !.createdAt = IF @ = 0 THEN storageVideo.createdAt ELSE @]

(* The documents read before the synchronisation, each merged with the     *)
(* last listed object of its key.                                          *)
mergeVideosByMatch(mongoVideos, storageVideos) ==
    LET matches(video) == {j \in DOMAIN storageVideos :
                              videoMatchKey(storageVideos[j]) = videoMatchKey(video)}
    IN  [i \in DOMAIN mongoVideos |->
            LET video == mongoVideos[i]
            IN  IF matches(video) = {} THEN video
                ELSE mergeVideo(video, storageVideos[Max(matches(video))])]

-----------------------------------------------------------------------------
(* listStorageVideos: the objects of one bucket in order, without chunks.   *)
ListVideos(provider, bucket) ==
    LET listed == {i \in DOMAIN bucket : isListed(bucket[i].key)}
        nth(n) == bucket[CHOOSE i \in listed : Cardinality({j \in listed : j <= i}) = n]
        video(o) == Video(ListedVideo(o.key).videoId, ListedVideo(o.key).filename,
                          provider, o.size, "ready", o.time)
    IN  [n \in 1..Cardinality(listed) |-> video(nth(n))]

(* minio first, then the others in order; a store that cannot be listed is *)
(* left out.                                                               *)
Listed(buckets, down) ==
    LET from(provider) == IF provider \in down THEN <<>>
                          ELSE ListVideos(provider, buckets[provider])
    IN  from("minio") \o from("aws-s3")

(* The loop of collectStorageVideos: one Save after the other. *)
SaveAll(catalog, videos) ==
    LET after[k \in 0..Len(videos)] ==
            IF k = 0 THEN catalog ELSE Save(after[k - 1], videos[k])
    IN  after[Len(videos)]

(* collectStorageVideos, of what the stores have listed: a number of saves *)
(* are applied when there are that many; then one fails, perhaps the last  *)
(* applied one, which ends it, and its videos are not returned.            *)
collectStorageVideos(catalog, listed, saves) ==
    LET failed == saves <= Len(listed)
        saved  == IF failed THEN SubSeq(listed, 1, saves) ELSE listed
    IN  [catalog |-> SaveAll(catalog, saved),
         videos  |-> IF failed THEN <<>> ELSE listed]

-----------------------------------------------------------------------------
(* A URL of the object <videoId>/<filename> at the document's provider, if *)
(* there is such an adapter and it can sign one.                           *)
generatePresignedURL(video, down) ==
    IF video.provider \in storageAdapters \ down
    THEN <<video.provider, <<video.videoId, video.filename>>>> ELSE NoURL

enrichVideos(videos, down) ==
    [i \in DOMAIN videos |->
        [video |-> videos[i], url |-> generatePresignedURL(videos[i], down)]]

(* GET /videos: the answer, and the catalogue it leaves.  The answer is    *)
(* made of the documents read first: what this call adds comes next time.  *)
ListAllVideos(catalog, listed, down, saves) ==
    LET synced == collectStorageVideos(catalog, listed, saves)
    IN  [catalog |-> synced.catalog,
         answer  |-> enrichVideos(mergeVideosByMatch(catalog, synced.videos), down)]

ListDatabaseVideos(catalog, down) == enrichVideos(catalog, down)
=============================================================================
