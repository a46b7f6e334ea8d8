--------------------------- MODULE StorageAdapters ---------------------------
(***************************************************************************)
(* The storage adapters of internal/adapters: pure functions from what an  *)
(* object store sends (a notification) or lists (an object key) to the     *)
(* DomainEvent the gateway works with.                                     *)
(*                                                                         *)
(* A key is the sequence of its "/"-separated segments.  Percent-encoding  *)
(* is a constant relation between keys: MinIO sends "raw/v1/a.mp4" as the  *)
(* one-segment key "raw%2Fv1%2Fa.mp4", and url.QueryUnescape maps it back. *)
(* A key outside DOMAIN Unescaped is one QueryUnescape refuses ("100%").   *)
(***************************************************************************)
EXTENDS Naturals, Sequences

CONSTANTS Keys,       \* every key a store holds or sends
          Unescaped,  \* url.QueryUnescape, where it succeeds
          Escaped,    \* the encoding a store applies in Records[] envelopes
          ChunkKeys   \* the keys that contain ".chunk."

NoKey == <<>>

ASSUME KeysAssumption ==
    /\ \A k \in Keys : k \in Seq(STRING) /\ k # NoKey
    /\ \A k \in DOMAIN Unescaped : k \in Keys /\ Unescaped[k] \in Keys
    /\ \A k \in DOMAIN Escaped :
          k \in Keys /\ Escaped[k] \in DOMAIN Unescaped /\ Unescaped[Escaped[k]] = k
    /\ ChunkKeys \subseteq Keys

(* What a store posts.  Without an envelope the body is not a notification *)
(* of either shape; "created" is eventName = ObjectCreated:... or the      *)
(* detail-type "Object Created".  "key" and "created" are those of         *)
(* Records[0], the one record ParseEvent reads; NoKey is an empty key.     *)
Notifications == [envelope : {"records", "eventbridge", "none"},
                  created  : BOOLEAN,
                  key      : Keys \cup {NoKey}]

-----------------------------------------------------------------------------

Decoded(key) == IF key \in DOMAIN Unescaped THEN Unescaped[key] ELSE key

pipelineOutputPrefixes == {"transcoded", "metrics", "thumbnails", "subtitles"}

(* QueryUnescape leaves "/" and plain letters as they are: what starts with *)
(* the prefix of an output still does once it is decoded.                  *)
ASSUME DecodingAssumption ==
    \A k \in DOMAIN Unescaped :
        Len(k) > 1 /\ k[1] \in pipelineOutputPrefixes =>
            Len(Unescaped[k]) > 1 /\ Unescaped[k][1] = k[1]

(* Mutant: the prefix is looked for in the key as it was sent. *)
isPipelineOutputKeyRaw(key) == Len(key) > 1 /\ key[1] \in pipelineOutputPrefixes

isPipelineOutputKey(key) ==
    Len(Decoded(key)) > 1 /\ Decoded(key)[1] \in pipelineOutputPrefixes

(* Mutant: the first two segments, wrong as soon as there is a prefix. *)
parseStorageKeyFirst(key) ==
    LET parts == Decoded(key)
    IN  [videoId |-> parts[1], filename |-> parts[IF Len(parts) > 1 THEN 2 ELSE 1]]

(* The last two segments; a key without "/" names both. *)
parseStorageKey(key) ==
    LET parts == Decoded(key)
        last  == Len(parts)
    IN  [videoId  |-> parts[IF last > 1 THEN last - 1 ELSE last],
         filename |-> parts[last]]

(* S3Adapter files an object whose two names coincide under "unknown". *)
s3StorageKey(key) ==
    LET names == parseStorageKey(key)
    IN  IF names.videoId = names.filename
        THEN [names EXCEPT !.videoId = "unknown"] ELSE names

-----------------------------------------------------------------------------

Ignored    == [result |-> "ignored"]      \* ErrIgnoredObjectKey
ParseError == [result |-> "error"]

newStorageDomainEvent(names, objectKey) ==
    [result |-> "event", videoId |-> names.videoId,
     filename |-> names.filename, objectKey |-> objectKey]

(* Mutant: the outputs are filtered before the key is decoded. *)
MinioParseEventRaw(n) ==
    IF n.envelope # "records" \/ n.key = NoKey THEN ParseError
    ELSE IF isPipelineOutputKeyRaw(n.key) THEN Ignored
    ELSE newStorageDomainEvent(parseStorageKey(n.key), n.key)

(* MinioAdapter.ParseEvent: Records[] only, and eventName is not looked at. *)
MinioParseEvent(n) ==
    IF n.envelope # "records" \/ n.key = NoKey THEN ParseError
    ELSE IF isPipelineOutputKey(n.key) THEN Ignored
    ELSE newStorageDomainEvent(parseStorageKey(n.key), n.key)

(* S3Adapter.ParseEvent: Records[], else the EventBridge envelope. *)
S3ParseEvent(n) ==
    IF n.envelope = "none" \/ n.key = NoKey \/ ~n.created THEN ParseError
    ELSE IF isPipelineOutputKey(n.key) THEN Ignored
    ELSE newStorageDomainEvent(s3StorageKey(n.key), n.key)

(* The providers main registers, and ProcessWebhook's dispatch on the      *)
(* :provider path parameter.                                               *)
storageAdapters == {"minio", "aws-s3"}

ParseWebhook(provider, n) ==
    IF provider \notin storageAdapters THEN ParseError
    ELSE IF provider = "minio" THEN MinioParseEvent(n) ELSE S3ParseEvent(n)

(* What listStorageVideos makes of one listed key.  Chunks are skipped.    *)
isListed(key) == key \notin ChunkKeys

(* Mutant: the listing takes the first segment for the video id. *)
ListedVideoByPrefix(key) ==
    newStorageDomainEvent([videoId |-> key[1], filename |-> key[Len(key)]], key)

ListedVideo(key) == newStorageDomainEvent(parseStorageKey(key), key)

(* The creation notifications a store sends for an object: Records[] with  *)
(* that object alone and its key encoded, from S3 also EventBridge, which  *)
(* does not encode.                                                        *)
CreationNotices(provider, key) ==
    {[envelope |-> "records", created |-> TRUE, key |-> Escaped[key]]}
    \cup IF provider = "aws-s3"
         THEN {[envelope |-> "eventbridge", created |-> TRUE, key |-> key]}
         ELSE {}
=============================================================================
